----------------------------- MODULE SwarmProofs -----------------------------
(* Theorems about module Swarm, for every number of segments, workers,       *)
(* uploaders, folders and restarts.                                          *)
EXTENDS Swarm, FiniteSetTheorems, TLAPS

(* Segments are numbered from 0: comparing two of them makes sense.           *)
LEMMA SegmentsAreNat == Segments \subseteq Nat
  BY SwarmAssumption DEF Segments

(* A row written by an upsert is a row.                                      *)
LEMMA UpsertType ==
    ASSUME NEW st \in Statuses, bytesDownloaded \in SUBSET Segments,
           itemBitfield \in Bitfields, Upsert(st)
    PROVE  db' \in SUBSET Row
  BY DEF Upsert, Row

(* The item AddToQueue has just stored is well typed.                        *)
LEMMA TypeInit == Init => TypeOK
<1> SUFFICES ASSUME Init PROVE TypeOK
  OBVIOUS
<1>1. db \in SUBSET Row
  BY DEF Init, Row, Statuses, Bitfields
<1>2. peer \in [Workers -> Uploaders] /\ crashes \in 0 .. MaxCrashes
  BY SwarmAssumption DEF Init
<1>3. QED
  BY <1>1, <1>2 DEF Init, TypeOK, Statuses, Phases, Pcs, Bitfields

(* The segment a worker holds is a segment of the file.                      *)
HeldIsSegment == \A w \in Workers : Holding(w) => seg[w] \in Segments

(* Every step keeps the types.                                               *)
LEMMA TypeStep == TypeOK /\ HeldIsSegment /\ [Next]_vars => TypeOK'
<1> SUFFICES ASSUME TypeOK, HeldIsSegment, [Next]_vars PROVE TypeOK'
  OBVIOUS
<1> USE SwarmAssumption, SegmentsAreNat
<1> USE DEF TypeOK, Statuses, Phases, Pcs, Bitfields
<1>1. CASE StartSwarm
  BY <1>1 DEF StartSwarm, OpenFile, Upsert, Row
<1>2. CASE StartFails
  BY <1>2, UpsertType DEF StartFails, workerVars
<1>3. CASE Decide
  BY <1>3 DEF Decide, stableVars, workerVars
<1>4. CASE Save \/ SaveError
  <2>1. db' \in SUBSET Row
    BY <1>4, UpsertType DEF Save, SaveError
  <2>2. QED
    BY <1>4, <2>1 DEF Save, SaveError, itemVars, workerVars
<1>5. CASE Close
  BY <1>5 DEF Close, FlushTail, SwarmLocalsGone, itemVars, workerVars
<1>6. CASE RemoveFromQueue
  BY <1>6 DEF RemoveFromQueue, swarmVars, workerVars
<1>7. CASE SetDownloadsFolder
  BY <1>7 DEF SetDownloadsFolder, itemVars, stableVars, swarmVars, workerVars
<1>8. CASE Shutdown
  BY <1>8 DEF Shutdown, itemVars, stableVars, swarmVars, workerVars
<1>9. CASE Restart
  <2>1. \A row \in db : /\ row.status \in Statuses
                        /\ row.bytes \in SUBSET Segments
                        /\ row.bitfield \in Bitfields
    BY DEF Row
  <2>2. /\ status' \in Statuses
        /\ bytesDownloaded' \in SUBSET Segments
        /\ itemBitfield' \in Bitfields
    <3>1. CASE UNCHANGED <<status, bytesDownloaded, itemBitfield>>
      BY <3>1
    <3>2. ASSUME NEW row \in db,
                 status' = IF row.status = "Downloading" THEN "Queued"
                           ELSE row.status,
                 bytesDownloaded' = row.bytes,
                 itemBitfield' = row.bitfield
          PROVE  /\ status' \in Statuses
                 /\ bytesDownloaded' \in SUBSET Segments
                 /\ itemBitfield' \in Bitfields
      BY <2>1, <3>2
    <3>. QED
      BY <1>9, <3>1, <3>2 DEF Restart
  <2>3. inItems' \in BOOLEAN /\ crashes' \in 0 .. MaxCrashes
    BY <1>9 DEF Restart
  <2>4. /\ phase' \in Phases /\ uploaderPool' \in SUBSET Uploaders
        /\ reachable' \in SUBSET Uploaders
        /\ bitfield' \in SUBSET Segments /\ activeSegments' \in SUBSET Segments
        /\ activeWorkers' \in SUBSET Uploaders /\ tail' \in SUBSET Segments
        /\ stopping' \in BOOLEAN /\ lost' \in SUBSET Segments
    BY <1>9 DEF Restart, SwarmLocalsGone
  <2>5. /\ pc' \in [Workers -> Pcs] /\ seg' \in [Workers -> Nat]
        /\ peer' \in [Workers -> Uploaders]
        /\ local' \in [Workers -> SUBSET Segments]
    BY <1>9 DEF Restart
  <2>6. UNCHANGED <<db, disk, moved, downloadsFolder, target>>
    BY <1>9 DEF Restart
  <2>. QED
    BY <2>2, <2>3, <2>4, <2>5, <2>6
<1>10. ASSUME NEW w \in Workers, PickSegment(w) PROVE TypeOK'
  BY <1>10 DEF PickSegment, Goto, Unclaimed, itemVars, stableVars
<1>11. ASSUME NEW w \in Workers, WorkerExits(w) PROVE TypeOK'
  BY <1>11 DEF WorkerExits, Goto, itemVars, stableVars, swarmVars
<1>12. ASSUME NEW w \in Workers, PickPeer(w) PROVE TypeOK'
  BY <1>12 DEF PickPeer, Goto, itemVars, stableVars, swarmVars
<1>13. ASSUME NEW w \in Workers, NoFreePeer(w) PROVE TypeOK'
  BY <1>13 DEF NoFreePeer, Goto, Forget, itemVars, stableVars
<1>14. ASSUME NEW w \in Workers, ClaimPeer(w) PROVE TypeOK'
  BY <1>14 DEF ClaimPeer, Goto, itemVars, stableVars
<1>15. ASSUME NEW w \in Workers, TransferChunk(w) PROVE TypeOK'
  BY <1>15 DEF TransferChunk, FlushTail, itemVars, workerVars
<1>16. ASSUME NEW w \in Workers, TransferOk(w) PROVE TypeOK'
  <2>1. seg[w] \in Segments
    BY <1>16 DEF HeldIsSegment, Holding, TransferOk, Goto
  <2>2. disk' \in [Folders -> SUBSET Segments]
    <3>1. CASE disk' = [disk EXCEPT ![target] = @ \cup tail \cup {seg[w]}]
      BY <2>1, <3>1
    <3>2. CASE FlushTail
      BY <3>2 DEF FlushTail
    <3>. QED
      BY <1>16, <3>1, <3>2 DEF TransferOk
  <2>3. tail' \in SUBSET Segments
    BY <1>16, <2>1 DEF TransferOk
  <2>4. pc' \in [Workers -> Pcs] /\ lost' \in SUBSET Segments
    BY <1>16 DEF TransferOk, Goto
  <2>. QED
    BY <1>16, <2>2, <2>3, <2>4 DEF TransferOk, itemVars
<1>17. ASSUME NEW w \in Workers, TransferFails(w) PROVE TypeOK'
  BY <1>17 DEF TransferFails, Goto, itemVars, stableVars
<1>18. ASSUME NEW w \in Workers, MarkSegmentFinished(w) PROVE TypeOK'
  <2>1. seg[w] \in Segments
    BY <1>18 DEF HeldIsSegment, Holding, MarkSegmentFinished, Goto
  <2>2. QED
    BY <1>18, <2>1 DEF MarkSegmentFinished, Goto, itemVars, stableVars
<1>19. ASSUME NEW w \in Workers, ScanTotal(w) PROVE TypeOK'
  BY <1>19 DEF ScanTotal, Goto, itemVars, stableVars, swarmVars
<1>20. ASSUME NEW w \in Workers, StoreTotal(w) PROVE TypeOK'
  BY <1>20 DEF StoreTotal, Goto, stableVars, swarmVars
<1>21. ASSUME NEW w \in Workers, FormatBitfield(w) PROVE TypeOK'
  BY <1>21 DEF FormatBitfield, Goto, itemVars, stableVars, swarmVars
<1>22. ASSUME NEW w \in Workers, StoreBitfield(w) PROVE TypeOK'
  BY <1>22 DEF StoreBitfield, Goto, stableVars, swarmVars
<1>23. ASSUME NEW w \in Workers, PersistProgress(w) PROVE TypeOK'
  <2>1. db' \in SUBSET Row
    BY <1>23, UpsertType DEF PersistProgress
  <2>2. QED
    BY <1>23, <2>1 DEF PersistProgress, Goto, itemVars, swarmVars
<1>24. ASSUME NEW w \in Workers, ReleasePeer(w) PROVE TypeOK'
  BY <1>24 DEF ReleasePeer, Goto, Forget, itemVars, stableVars
<1>25. CASE UNCHANGED vars
  BY <1>25 DEF vars, itemVars, stableVars, swarmVars, workerVars
<1>26. CASE SwarmFails
  BY <1>26 DEF SwarmFails, FlushTail, SwarmLocalsGone
<1>27. ASSUME NEW w \in Workers, PersistFails(w) PROVE TypeOK'
  BY <1>27 DEF PersistFails, Goto, Forget, itemVars, stableVars
<1>. QED
  BY <1>1, <1>2, <1>3, <1>4, <1>5, <1>6, <1>7, <1>8, <1>9, <1>10, <1>11, <1>12, <1>13, <1>14, <1>15, <1>16, <1>17, <1>18, <1>19, <1>20, <1>21, <1>22, <1>23, <1>24, <1>25, <1>26, <1>27 DEF Next, SwarmStep, Environment, WorkerStep, Transfer


(* With the claims exact, what a worker holds is a segment of the file.      *)
LEMMA ClaimsAreSegments == TypeOK /\ ClaimsExact => HeldIsSegment
  BY DEF TypeOK, ClaimsExact, HeldIsSegment

HoldingPcs == {"peer", "claim", "xfer", "mark"}

(* A worker that goes from one place to another with its claim, or without   *)
(* one, leaves the claims as they are.                                       *)
LEMMA MoveKeepsClaims ==
    ASSUME TypeOK, WorkersJoined, ClaimsExact,
           NEW w \in Workers, NEW from, NEW to, Goto(w, from, to),
           from # "done", from \in HoldingPcs <=> to \in HoldingPcs,
           UNCHANGED <<seg, activeSegments, bitfield, phase>>
    PROVE  WorkersJoined' /\ ClaimsExact'
<1>1. \A v \in Workers : Holding(v)' <=> Holding(v)
  BY DEF TypeOK, Holding, HoldingPcs, Goto
<1>2. WorkersJoined'
  BY DEF TypeOK, WorkersJoined, Goto
<1>3. QED
  BY <1>1, <1>2 DEF ClaimsExact

(* A worker that holds a segment gives it back.                              *)
LEMMA ReturnKeepsClaims ==
    ASSUME TypeOK, WorkersJoined, ClaimsExact,
           NEW w \in Workers, NEW from, NEW to, Goto(w, from, to),
           from \in HoldingPcs, to \notin HoldingPcs,
           activeSegments' = activeSegments \ {seg[w]},
           \A v \in Workers \ {w} : seg'[v] = seg[v],
           UNCHANGED <<bitfield, phase>>
    PROVE  WorkersJoined' /\ ClaimsExact'
<1>1. Holding(w) /\ ~Holding(w)'
  BY DEF TypeOK, Holding, HoldingPcs, Goto
<1>2. \A v \in Workers \ {w} : Holding(v)' <=> Holding(v)
  BY DEF TypeOK, Holding, Goto
<1>3. WorkersJoined'
  BY DEF TypeOK, WorkersJoined, Goto, HoldingPcs
<1>4. ASSUME NEW v \in Workers, Holding(v)'
      PROVE  seg'[v] \in activeSegments' \ bitfield'
  BY <1>1, <1>2, <1>4 DEF ClaimsExact
<1>5. ASSUME NEW v \in Workers, NEW u \in Workers, Holding(v)', Holding(u)', v # u
      PROVE  seg'[v] # seg'[u]
  BY <1>1, <1>2, <1>5 DEF ClaimsExact
<1>6. ASSUME NEW s \in activeSegments'
      PROVE  s \in bitfield' \/ \E v \in Workers : Holding(v)' /\ seg'[v] = s
  BY <1>1, <1>2 DEF ClaimsExact
<1>. QED
  BY <1>3, <1>4, <1>5, <1>6 DEF ClaimsExact


Claims == WorkersJoined /\ ClaimsExact

(* Before the first swarm there is no claim to account for.                  *)
LEMMA ClaimsInit == Init => Claims
  BY DEF Init, Claims, WorkersJoined, ClaimsExact, Holding

(* Every step keeps the claims exact.                                        *)
LEMMA ClaimsStep == TypeOK /\ Claims /\ [Next]_vars => Claims'
<1> SUFFICES ASSUME TypeOK, Claims, [Next]_vars PROVE Claims'
  OBVIOUS
<1> USE DEF Claims
<1>1. CASE StartSwarm
  BY <1>1 DEF StartSwarm, WorkersJoined, ClaimsExact, Holding
<1>2. CASE UNCHANGED <<phase, bitfield, activeSegments, pc, seg>>
  BY <1>2 DEF WorkersJoined, ClaimsExact, Holding
<1>3. CASE Decide
  BY <1>3 DEF Decide, workerVars, WorkersJoined, ClaimsExact, Holding
<1>4. CASE Save \/ SaveError \/ StartFails
  BY <1>4 DEF Save, SaveError, StartFails, workerVars, WorkersJoined,
              ClaimsExact, Holding
<1>5. CASE Close
  BY <1>5 DEF Close, SwarmLocalsGone, workerVars, WorkersJoined, ClaimsExact, Holding
<1>6. CASE Restart
  BY <1>6 DEF Restart, SwarmLocalsGone, WorkersJoined, ClaimsExact, Holding
<1>7. ASSUME NEW w \in Workers, PickSegment(w) PROVE Claims'
  <2>1. PICK s \in Unclaimed : /\ seg' = [seg EXCEPT ![w] = s]
                               /\ activeSegments' = activeSegments \cup {s}
    BY <1>7 DEF PickSegment
  <2>2. ~Holding(w) /\ Holding(w)' /\ seg'[w] = s
        /\ s \notin bitfield /\ s \notin activeSegments
    BY <1>7, <2>1 DEF PickSegment, Goto, Holding, TypeOK, Unclaimed
  <2>3. \A v \in Workers \ {w} : (Holding(v)' <=> Holding(v)) /\ seg'[v] = seg[v]
    BY <1>7, <2>1 DEF PickSegment, Goto, Holding, TypeOK
  <2>4. WorkersJoined'
    BY <1>7 DEF PickSegment, Goto, WorkersJoined, TypeOK
  <2>5. UNCHANGED bitfield
    BY <1>7 DEF PickSegment
  <2>6. \A v \in Workers : Holding(v)' => seg'[v] \in activeSegments' \ bitfield'
    BY <2>1, <2>2, <2>3, <2>5 DEF ClaimsExact
  <2>7. \A u, v \in Workers :
          Holding(u)' /\ Holding(v)' /\ u # v => seg'[u] # seg'[v]
    BY <2>1, <2>2, <2>3 DEF ClaimsExact
  <2>8. \A t \in activeSegments' :
          t \in bitfield' \/ \E v \in Workers : Holding(v)' /\ seg'[v] = t
    BY <2>1, <2>2, <2>3, <2>5 DEF ClaimsExact
  <2>. QED
    BY <2>4, <2>6, <2>7, <2>8 DEF ClaimsExact
<1>8. ASSUME NEW w \in Workers, PickPeer(w) PROVE Claims'
  BY <1>8, MoveKeepsClaims DEF PickPeer, Goto, HoldingPcs, swarmVars
<1>9. ASSUME NEW w \in Workers, ClaimPeer(w) PROVE Claims'
  BY <1>9, MoveKeepsClaims DEF ClaimPeer, Goto, HoldingPcs, swarmVars
<1>10. ASSUME NEW w \in Workers, TransferOk(w) PROVE Claims'
  BY <1>10, MoveKeepsClaims DEF TransferOk, Goto, HoldingPcs, swarmVars
<1>11. ASSUME NEW w \in Workers, ScanTotal(w) PROVE Claims'
  BY <1>11, MoveKeepsClaims DEF ScanTotal, Goto, HoldingPcs, swarmVars
<1>12. ASSUME NEW w \in Workers, StoreTotal(w) PROVE Claims'
  BY <1>12, MoveKeepsClaims DEF StoreTotal, Goto, HoldingPcs, swarmVars
<1>13. ASSUME NEW w \in Workers, FormatBitfield(w) PROVE Claims'
  BY <1>13, MoveKeepsClaims DEF FormatBitfield, Goto, HoldingPcs, swarmVars
<1>14. ASSUME NEW w \in Workers, StoreBitfield(w) PROVE Claims'
  BY <1>14, MoveKeepsClaims DEF StoreBitfield, Goto, HoldingPcs, swarmVars
<1>15. ASSUME NEW w \in Workers, PersistProgress(w) PROVE Claims'
  BY <1>15, MoveKeepsClaims DEF PersistProgress, Goto, HoldingPcs, swarmVars
<1>16. ASSUME NEW w \in Workers, WorkerExits(w) PROVE Claims'
  BY <1>16 DEF WorkerExits, Goto, swarmVars, WorkersJoined, ClaimsExact, Holding, TypeOK
<1>17. ASSUME NEW w \in Workers, ReleasePeer(w) \/ PersistFails(w) PROVE Claims'
  <2>1. ~Holding(w) /\ ~Holding(w)'
    BY <1>17 DEF ReleasePeer, PersistFails, Goto, Holding, TypeOK
  <2>2. \A v \in Workers \ {w} : (Holding(v)' <=> Holding(v)) /\ seg'[v] = seg[v]
    BY <1>17 DEF ReleasePeer, PersistFails, Goto, Forget, Holding, TypeOK
  <2>3. WorkersJoined'
    BY <1>17 DEF ReleasePeer, PersistFails, Goto, WorkersJoined, TypeOK
  <2>4. UNCHANGED <<bitfield, activeSegments>>
    BY <1>17 DEF ReleasePeer, PersistFails
  <2>. QED
    BY <2>1, <2>2, <2>3, <2>4 DEF ClaimsExact
<1>18. ASSUME NEW w \in Workers, NoFreePeer(w) PROVE Claims'
  <2>1. \A v \in Workers \ {w} : seg'[v] = seg[v]
    BY <1>18 DEF NoFreePeer, Forget, TypeOK
  <2>. QED
    BY <1>18, <2>1, ReturnKeepsClaims DEF NoFreePeer, Goto, HoldingPcs
<1>19. ASSUME NEW w \in Workers, TransferFails(w) PROVE Claims'
  BY <1>19, ReturnKeepsClaims DEF TransferFails, Goto, HoldingPcs
<1>20. ASSUME NEW w \in Workers, MarkSegmentFinished(w) PROVE Claims'
  <2>1. Holding(w) /\ ~Holding(w)' /\ bitfield' = bitfield \cup {seg[w]}
    BY <1>20 DEF MarkSegmentFinished, Goto, Holding, TypeOK
  <2>2. \A v \in Workers \ {w} : Holding(v)' <=> Holding(v)
    BY <1>20 DEF MarkSegmentFinished, Goto, Holding, TypeOK
  <2>3. WorkersJoined'
    BY <1>20 DEF MarkSegmentFinished, Goto, WorkersJoined, TypeOK
  <2>4. UNCHANGED <<seg, activeSegments>>
    BY <1>20 DEF MarkSegmentFinished
  <2>. QED
    BY <2>1, <2>2, <2>3, <2>4 DEF ClaimsExact
<1>21. CASE SwarmFails
  BY <1>21 DEF SwarmFails, SwarmLocalsGone, WorkersJoined, ClaimsExact, Holding
<1>. QED
  BY <1>1, <1>2, <1>3, <1>4, <1>5, <1>6, <1>7, <1>8, <1>9, <1>10, <1>11, <1>12, <1>13, <1>14, <1>15, <1>16, <1>17, <1>18, <1>19, <1>20, <1>21
     DEF Next, SwarmStep, Environment, WorkerStep, Transfer,
         RemoveFromQueue, SetDownloadsFolder, Shutdown, TransferChunk,
         vars, swarmVars, workerVars

-----------------------------------------------------------------------------
(* Sets of segments are finite, and one element more is at most one more.    *)
LEMMA SegmentSets ==
    ASSUME NEW S \in SUBSET Segments
    PROVE  /\ IsFiniteSet(S) /\ Cardinality(S) \in Nat
           /\ \A T \in SUBSET S : Cardinality(T) <= Cardinality(S)
           /\ \A x : Cardinality(S \cup {x}) <= Cardinality(S) + 1
<1>1. IsFiniteSet(Segments)
  BY SwarmAssumption, FS_Interval DEF Segments
<1>2. IsFiniteSet(S)
  BY <1>1, FS_Subset
<1>. QED
  BY <1>2, FS_Subset, FS_AddElement, FS_CardinalityType

(* Nothing is recorded before anything is written.                           *)
LEMMA DataInit == Init => LossesBounded /\ NothingInvented
<1>1. Cardinality({}) = 0
  BY FS_EmptySet
<1>. QED
  BY <1>1 DEF Init, LossesBounded, NothingInvented, Covered

(* Bytes added to the copy that is being written take nothing away.          *)
LEMMA DiskGrows ==
    ASSUME TypeOK, NEW S, disk' = [disk EXCEPT ![target] = @ \cup S],
           UNCHANGED <<target, moved>>, tail \subseteq S
    PROVE  Held \cup S \subseteq Held'
<1>1. \A f \in Folders : disk[f] \subseteq disk'[f]
  BY DEF TypeOK
<1>2. target \in Folders /\ disk[target] \cup S = disk'[target]
  BY DEF TypeOK
<1>3. CASE moved
  <2>1. \A f \in Folders : disk'[f] \subseteq Held'
    BY <1>3 DEF Held, Written
  <2>. QED
    BY <1>1, <1>2, <1>3, <2>1 DEF Held, Written
<1>4. CASE ~moved
  BY <1>2, <1>4 DEF Held
<1>. QED
  BY <1>3, <1>4

(* What a transfer writes: the old buffer is flushed, and the segment is in  *)
(* the file or in the buffer.                                                *)
LEMMA TransferWrites ==
    ASSUME TypeOK, NEW w \in Workers, TransferOk(w)
    PROVE  Held \cup {seg[w]} \subseteq Held'
<1>1. UNCHANGED <<target, moved>>
  BY DEF TransferOk
<1>2. CASE disk' = [disk EXCEPT ![target] = @ \cup tail \cup {seg[w]}]
  <2> DEFINE S == tail \cup {seg[w]}
  <2>1. disk' = [disk EXCEPT ![target] = @ \cup S] /\ tail \subseteq S
    BY <1>2
  <2>2. Held \cup S \subseteq Held'
    <3> HIDE DEF S
    <3>. QED
      BY <1>1, <2>1, DiskGrows
  <2>. QED
    BY <2>2
<1>3. CASE FlushTail /\ tail' = {seg[w]}
  <2>1. seg[w] \in Held'
    BY <1>3 DEF Held, Written
  <2>. QED
    BY <1>1, <1>3, <2>1, DiskGrows DEF FlushTail
<1>. QED
  BY <1>2, <1>3 DEF TransferOk

(* The first change of folder with something to leave behind is noted, and   *)
(* from then on every copy counts.                                           *)
LEMMA StartKeepsHeld ==
    ASSUME TypeOK, LossesBounded, StartSwarm
    PROVE  Held \subseteq Held'
<1>1. tail = {} /\ tail' = {} /\ disk' = disk /\ target' \in Folders
  BY DEF StartSwarm, OpenFile, LossesBounded, TypeOK
<1>2. target \in Folders
  BY DEF TypeOK
<1>3. CASE moved
  BY <1>1, <1>3 DEF StartSwarm, Held, Written
<1>4. CASE ~moved /\ moved'
  BY <1>1, <1>2, <1>4 DEF Held, Written
<1>5. CASE ~moved /\ ~moved'
  BY <1>1, <1>5 DEF StartSwarm, Held
<1>. QED
  BY <1>3, <1>4, <1>5 DEF StartSwarm

(* What has been received stays so, be it as a loss.                         *)
Got == Held \cup lost

LEMMA GotGrows ==
    ASSUME TypeOK, LossesBounded, [Next]_vars
    PROVE  Got \subseteq Got'
<1>1. CASE UNCHANGED <<disk, tail, lost, moved, target>>
  BY <1>1 DEF Got, Held, Written
<1>2. CASE FlushTail /\ UNCHANGED <<lost, moved, target>>
  BY <1>2, DiskGrows DEF FlushTail, Got
<1>3. ASSUME NEW w \in Workers, TransferOk(w) PROVE Got \subseteq Got'
  BY <1>3, TransferWrites DEF Got, TransferOk
<1>4. CASE Restart
  <2>1. /\ UNCHANGED <<disk, moved, target>>
        /\ lost' = lost \cup (tail \ disk[target])
    BY <1>4 DEF Restart
  <2>2. target \in Folders
    BY DEF TypeOK
  <2>3. CASE moved
    BY <2>1, <2>2, <2>3 DEF Got, Held, Written
  <2>4. CASE ~moved
    BY <2>1, <2>4 DEF Got, Held
  <2>. QED
    BY <2>3, <2>4
<1>5. CASE StartSwarm
  BY <1>5, StartKeepsHeld DEF Got, StartSwarm
<1>. QED
  BY <1>1, <1>2, <1>3, <1>4, <1>5
     DEF Next, vars, SwarmStep, Environment, WorkerStep, Transfer, stableVars,
         swarmVars, StartFails, Decide, Save, Close, SwarmFails, SaveError,
         PickSegment, WorkerExits, PickPeer, NoFreePeer, ClaimPeer,
         TransferChunk, TransferFails, MarkSegmentFinished, ScanTotal,
         StoreTotal, FormatBitfield, StoreBitfield, PersistProgress,
         PersistFails, ReleasePeer, RemoveFromQueue, SetDownloadsFolder,
         Shutdown

(* A crash adds one segment to what is lost, and nothing else adds any.      *)
LEMMA LossesStep ==
    ASSUME TypeOK, Claims, LossesBounded, [Next]_vars
    PROVE  LossesBounded'
<1> USE DEF LossesBounded
<1>1. CASE UNCHANGED <<tail, lost, phase, crashes>>
  BY <1>1
<1>2. CASE tail' = {} /\ UNCHANGED <<lost, crashes>>
  BY <1>2
<1>3. CASE tail = {} /\ UNCHANGED <<tail, lost, crashes>>
  BY <1>3
<1>4. CASE UNCHANGED <<tail, lost, crashes>> /\ phase' \notin {"none", "failed"}
  BY <1>4
<1>5. ASSUME NEW w \in Workers, TransferOk(w) PROVE LossesBounded'
  <2>1. phase = "run" /\ phase' = phase
    BY <1>5 DEF TransferOk, Goto, Claims, WorkersJoined
  <2>2. lost' \in SUBSET lost /\ crashes' = crashes
    BY <1>5 DEF TransferOk
  <2>3. Cardinality(lost') <= Cardinality(lost)
    BY <2>2, SegmentSets DEF TypeOK
  <2>4. Cardinality(lost) \in Nat /\ Cardinality(lost') \in Nat /\ crashes \in Nat
    BY <2>2, SegmentSets, SwarmAssumption DEF TypeOK
  <2>5. tail' = {} \/ (ShortTails /\ tail' = {seg[w]})
    BY <1>5 DEF TransferOk
  <2>6. Cardinality(lost') <= crashes'
    BY <2>2, <2>3, <2>4
  <2>. QED
    BY <2>1, <2>2, <2>5, <2>6
<1>6. CASE Restart
  <2>1. /\ lost' = lost \cup (tail \ disk[target])
        /\ crashes' = crashes + 1 /\ tail' = {}
    BY <1>6 DEF Restart, SwarmLocalsGone
  <2>2. lost' = lost \/ \E s : lost' = lost \cup {s}
    BY <2>1
  <2>3. Cardinality(lost) \in Nat /\ crashes \in Nat
    BY SegmentSets, SwarmAssumption DEF TypeOK
  <2>4. Cardinality(lost') <= Cardinality(lost) + 1
    <3>1. lost \in SUBSET Segments
      BY DEF TypeOK
    <3>2. \A x : Cardinality(lost \cup {x}) <= Cardinality(lost) + 1
      BY <3>1, SegmentSets
    <3>3. CASE lost' = lost
      BY <2>3, <3>3
    <3>4. ASSUME NEW s, lost' = lost \cup {s}
          PROVE  Cardinality(lost') <= Cardinality(lost) + 1
      BY <3>2, <3>4
    <3>. QED
      BY <2>2, <3>3, <3>4
  <2>5. Cardinality(lost') <= crashes'
    <3>1. lost' \in SUBSET Segments
      BY <2>1 DEF TypeOK
    <3>2. Cardinality(lost') \in Nat
      BY <3>1, SegmentSets
    <3>. QED
      BY <2>1, <2>3, <2>4, <3>2
  <2>. QED
    BY <2>1, <2>5
<1>. QED
  BY <1>1, <1>2, <1>3, <1>4, <1>5, <1>6
     DEF Next, vars, SwarmStep, Environment, WorkerStep, Transfer, stableVars,
         swarmVars, StartSwarm, StartFails, Decide, Save, Close, SwarmFails,
         SaveError, SwarmLocalsGone,
         PickSegment, WorkerExits, PickPeer, NoFreePeer, ClaimPeer,
         TransferChunk, TransferFails, MarkSegmentFinished, ScanTotal,
         StoreTotal, FormatBitfield, StoreBitfield, PersistProgress,
         PersistFails, ReleasePeer, RemoveFromQueue, SetDownloadsFolder,
         Shutdown

(* Every step keeps the records of what is finished within what was          *)
(* received.                                                                 *)
LEMMA DataStep ==
    ASSUME TypeOK, LossesBounded, NothingInvented, [Next]_vars
    PROVE  NothingInvented'
<1> USE DEF NothingInvented, Covered
<1>1. \A S : S \subseteq Held \cup lost => S \subseteq Held' \cup lost'
  BY GotGrows DEF Got
<1>2. CASE StartSwarm
  BY <1>1, <1>2 DEF StartSwarm, Upsert, TypeOK
<1>3. CASE StartFails
  BY <1>1, <1>3 DEF StartFails, Upsert, workerVars, TypeOK
<1>4. CASE Decide
  BY <1>1, <1>4 DEF Decide, stableVars, workerVars, TypeOK
<1>5. CASE Save \/ SaveError
  BY <1>1, <1>5 DEF Save, SaveError, Upsert, itemVars, workerVars, TypeOK
<1>6. CASE Close
  BY <1>1, <1>6 DEF Close, SwarmLocalsGone, itemVars, workerVars, TypeOK
<1>7. CASE RemoveFromQueue
  BY <1>1, <1>7 DEF RemoveFromQueue, swarmVars, workerVars, TypeOK
<1>8. CASE SetDownloadsFolder
  BY <1>1, <1>8 DEF SetDownloadsFolder, itemVars, stableVars, swarmVars, workerVars, TypeOK
<1>9. CASE Shutdown
  BY <1>1, <1>9 DEF Shutdown, itemVars, stableVars, swarmVars, workerVars, TypeOK
<1>10. CASE Restart
  BY <1>1, <1>10 DEF Restart, SwarmLocalsGone, TypeOK
<1>11. ASSUME NEW w \in Workers, PickSegment(w) PROVE NothingInvented'
  BY <1>1, <1>11 DEF PickSegment, Goto, itemVars, stableVars, TypeOK
<1>12. ASSUME NEW w \in Workers, WorkerExits(w) PROVE NothingInvented'
  BY <1>1, <1>12 DEF WorkerExits, Goto, itemVars, stableVars, swarmVars, TypeOK
<1>13. ASSUME NEW w \in Workers, PickPeer(w) PROVE NothingInvented'
  BY <1>1, <1>13 DEF PickPeer, Goto, itemVars, stableVars, swarmVars, TypeOK
<1>14. ASSUME NEW w \in Workers, NoFreePeer(w) PROVE NothingInvented'
  BY <1>1, <1>14 DEF NoFreePeer, Goto, Forget, itemVars, stableVars, TypeOK
<1>15. ASSUME NEW w \in Workers, ClaimPeer(w) PROVE NothingInvented'
  BY <1>1, <1>15 DEF ClaimPeer, Goto, itemVars, stableVars, TypeOK
<1>16. ASSUME NEW w \in Workers, TransferChunk(w) PROVE NothingInvented'
  BY <1>1, <1>16 DEF TransferChunk, FlushTail, itemVars, workerVars, TypeOK
<1>17. ASSUME NEW w \in Workers, TransferOk(w) PROVE NothingInvented'
  BY <1>1, <1>17, TransferWrites DEF TransferOk, Goto, itemVars, TypeOK
<1>18. ASSUME NEW w \in Workers, TransferFails(w) PROVE NothingInvented'
  BY <1>1, <1>18 DEF TransferFails, Goto, itemVars, stableVars, TypeOK
<1>19. ASSUME NEW w \in Workers, MarkSegmentFinished(w) PROVE NothingInvented'
  BY <1>1, <1>19 DEF MarkSegmentFinished, Goto, itemVars, stableVars, TypeOK
<1>20. ASSUME NEW w \in Workers, ScanTotal(w) PROVE NothingInvented'
  BY <1>1, <1>20 DEF ScanTotal, Goto, itemVars, stableVars, swarmVars, TypeOK
<1>21. ASSUME NEW w \in Workers, StoreTotal(w) PROVE NothingInvented'
  BY <1>1, <1>21 DEF StoreTotal, Goto, stableVars, swarmVars, TypeOK
<1>22. ASSUME NEW w \in Workers, FormatBitfield(w) PROVE NothingInvented'
  BY <1>1, <1>22 DEF FormatBitfield, Goto, itemVars, stableVars, swarmVars, TypeOK
<1>23. ASSUME NEW w \in Workers, StoreBitfield(w) PROVE NothingInvented'
  BY <1>1, <1>23 DEF StoreBitfield, Goto, stableVars, swarmVars, TypeOK
<1>24. ASSUME NEW w \in Workers, PersistProgress(w) PROVE NothingInvented'
  BY <1>1, <1>24 DEF PersistProgress, Upsert, Goto, itemVars, swarmVars, TypeOK
<1>25. ASSUME NEW w \in Workers, ReleasePeer(w) PROVE NothingInvented'
  BY <1>1, <1>25 DEF ReleasePeer, Goto, Forget, itemVars, stableVars, TypeOK
<1>27. CASE SwarmFails
  BY <1>1, <1>27 DEF SwarmFails, SwarmLocalsGone, TypeOK
<1>28. ASSUME NEW w \in Workers, PersistFails(w) PROVE NothingInvented'
  BY <1>1, <1>28 DEF PersistFails, Goto, Forget, itemVars, stableVars, TypeOK
<1>26. CASE UNCHANGED vars
  BY <1>1, <1>26 DEF vars, itemVars, stableVars, swarmVars, workerVars
<1>. QED
  BY <1>2, <1>3, <1>4, <1>5, <1>6, <1>7, <1>8, <1>9, <1>10, <1>11, <1>12, <1>13, <1>14, <1>15, <1>16, <1>17, <1>18, <1>19, <1>20, <1>21, <1>22, <1>23, <1>24, <1>25, <1>26, <1>27, <1>28
     DEF Next, SwarmStep, Environment, WorkerStep, Transfer

-----------------------------------------------------------------------------
(* Theorems *)

(* Types and claims hold in every reachable state.                           *)
LEMMA InductiveSpec == Spec => [](TypeOK /\ Claims)
<1>1. Init => TypeOK /\ Claims
  BY TypeInit, ClaimsInit
<1>2. TypeOK /\ Claims /\ [Next]_vars => (TypeOK /\ Claims)'
  BY TypeStep, ClaimsStep, ClaimsAreSegments DEF Claims
<1>. QED
  BY <1>1, <1>2, PTL DEF Spec

(* No record ever runs ahead of what was received.                           *)
LEMMA DataSpec == Spec => [](LossesBounded /\ NothingInvented)
<1>1. Init => LossesBounded /\ NothingInvented
  BY DataInit
<1>2. TypeOK /\ Claims /\ LossesBounded /\ NothingInvented /\ [Next]_vars
      => (LossesBounded /\ NothingInvented)'
  BY DataStep, LossesStep
<1>. QED
  BY <1>1, <1>2, InductiveSpec, PTL DEF Spec

(* The variables of a swarm keep their types.                                *)
THEOREM TypeCorrect == Spec => []TypeOK
  BY InductiveSpec, PTL

(* However the workers of a swarm interleave, no two of them fetch the same  *)
(* segment, and none fetches a finished one (the segment lock and            *)
(* activeSegments of DownloadFileSwarmAsync).                                *)
THEOREM Exclusive == Spec => []SegmentsExclusive
<1>1. Claims => SegmentsExclusive
  BY DEF Claims, ClaimsExact, SegmentsExclusive
<1>. QED
  BY <1>1, InductiveSpec, PTL

(* No claim leaks: every branch of the worker loop that leaves a segment     *)
(* unfinished gives it back.                                                 *)
THEOREM Returned == Spec => []ClaimsReturned
<1>1. Claims => ClaimsReturned
  BY DEF Claims, ClaimsExact, ClaimsReturned, AllEnded, Holding
<1>. QED
  BY <1>1, InductiveSpec, PTL

(* What was received and is not held is what crashes have taken.             *)
LEMMA LittleIsLost ==
    ASSUME TypeOK, LossesBounded, NEW S, Covered(S)
    PROVE  Cardinality(S \ Held) <= Losses
<1>1. S \ Held \in SUBSET lost /\ lost \in SUBSET Segments
  BY DEF Covered, TypeOK
<1>2. Cardinality(S \ Held) <= Cardinality(lost)
  BY <1>1, SegmentSets
<1>3. Cardinality(S \ Held) \in Nat /\ Cardinality(lost) \in Nat /\ crashes \in Nat
  BY <1>1, SegmentSets, SwarmAssumption DEF TypeOK
<1>4. CASE ShortTails
  BY <1>2, <1>3, <1>4 DEF LossesBounded, Losses
<1>5. CASE ~ShortTails
  <2>1. lost = {}
    BY <1>5 DEF LossesBounded
  <2>. QED
    BY <1>1, <1>5, <2>1, FS_EmptySet DEF Losses
<1>. QED
  BY <1>4, <1>5

(* Of the segments the saved bitfield names, a resume skips at most one per  *)
(* crash that the file lacks, whatever the workers, the user and the disk    *)
(* do; none, if no end of a segment is ever buffered.                        *)
THEOREM ResumeIsSound == Spec => []ResumeLosesLittle
<1>1. TypeOK /\ LossesBounded /\ NothingInvented => ResumeLosesLittle
  BY LittleIsLost DEF NothingInvented, ResumeLosesLittle
<1>. QED
  BY <1>1, DataSpec, InductiveSpec, PTL

(* A download saved as Finished was received as a whole: what the file lacks *)
(* is what crashes have taken, at most one segment each.                     *)
THEOREM FinishedIsWhole == Spec => []FinishedLosesLittle
<1>1. TypeOK /\ LossesBounded /\ NothingInvented => FinishedLosesLittle
  BY LittleIsLost DEF NothingInvented, FinishedLosesLittle
<1>. QED
  BY <1>1, DataSpec, InductiveSpec, PTL

-----------------------------------------------------------------------------
(* Swarm implements DurableDownload. *)

(* The status of the item goes with the place where the swarm is, and a row  *)
(* says Finished only after the item did, and nothing can fail any more.     *)
StatusFollows ==
    /\ phase = "run" => status = "Downloading"
    /\ phase = "complete" => status = "Finished"
    /\ phase = "requeue" => status = "Queued"
    /\ phase = "failed" => status = "Error"
    /\ db = {} \/ \E row \in db : db = {row}
    /\ \A row \in db : row.status = "Finished" =>
           status = "Finished" /\ phase \in {"close", "none"}

(* The status of the new item and that of its row agree.                     *)
LEMMA StatusInit == Init => StatusFollows
  BY DEF Init, StatusFollows

(* Every step keeps the row behind the status of the item: Finished is only  *)
(* ever saved after it was decided.                                          *)
LEMMA StatusStep ==
    ASSUME TypeOK, Claims, StatusFollows, [Next]_vars
    PROVE  StatusFollows'
<1> USE DEF StatusFollows
<1>1. CASE UNCHANGED <<phase, status, db>>
  BY <1>1
<1>2. CASE StartSwarm
  BY <1>2 DEF StartSwarm, Upsert
<1>3. CASE StartFails
  BY <1>3 DEF StartFails, Upsert
<1>4. CASE Decide
  BY <1>4 DEF Decide, stableVars
<1>5. CASE Save
  BY <1>5 DEF Save, Upsert, itemVars
<1>6. CASE Close
  BY <1>6 DEF Close, itemVars
<1>7. CASE RemoveFromQueue
  BY <1>7 DEF RemoveFromQueue, swarmVars
<1>8. CASE Restart
  BY <1>8 DEF Restart
<1>9. ASSUME NEW w \in Workers, PersistProgress(w) PROVE StatusFollows'
  <2>1. phase = "run" /\ status = "Downloading"
    BY <1>9 DEF PersistProgress, Goto, Claims, WorkersJoined
  <2>. QED
    BY <1>9, <2>1 DEF PersistProgress, Upsert, itemVars, swarmVars
<1>10. CASE SwarmFails
  BY <1>10 DEF SwarmFails
<1>11. CASE SaveError
  BY <1>11 DEF SaveError, Upsert, itemVars
<1>. QED
  BY <1>1, <1>2, <1>3, <1>4, <1>5, <1>6, <1>7, <1>8, <1>9, <1>10, <1>11
     DEF Next, vars, SwarmStep, Environment, WorkerStep, Transfer, itemVars,
         stableVars, swarmVars, PickSegment, WorkerExits, PickPeer, NoFreePeer,
         ClaimPeer, TransferChunk, TransferOk, TransferFails,
         MarkSegmentFinished, ScanTotal, StoreTotal, FormatBitfield,
         StoreBitfield, PersistFails, ReleasePeer, SetDownloadsFolder, Shutdown

(* What the abstract download calls covered is what the swarm does.          *)
LEMMA CoveredAgrees ==
    ASSUME TypeOK
    PROVE  \A S : Durable!Covered(S) <=> Covered(S)
<1>1. target \in Folders /\ Copies[target] = disk[target] \cup tail
  BY DEF TypeOK, Copies
<1>2. UNION {Copies[f] : f \in Folders} = Written
  BY <1>1 DEF Copies, Written
<1>. QED
  BY <1>1, <1>2 DEF Durable!Covered, Covered, Held

(* What the row says, in the abstract.                                       *)
LEMMA RowIsRecord ==
    ASSUME NEW row, db' = {row}
    PROVE  /\ Record' = IF row.bitfield = Unset THEN {} ELSE row.bitfield
           /\ Verdict' = IF row.status = "Finished" THEN "finished" ELSE "pending"
  BY DEF Record, Verdict

(* Saving the item is one of the two ways to save a download.                *)
LEMMA SavingImplements ==
    ASSUME TypeOK, NEW row \in Row, db' = {row},
           UNCHANGED <<disk, tail, target, moved, lost, crashes>>,
           row.bitfield = Unset \/ Covered(row.bitfield),
           row.status = "Finished" => Covered(Segments),
           row.status # "Finished" => Verdict # "finished"
    PROVE  Durable!SaveProgress \/ Durable!Finish
<1>1. Record' \in SUBSET Segments /\ Durable!Covered(Record')
  <2>1. Record' \in SUBSET Segments /\ Covered(Record')
    BY RowIsRecord DEF Row, Bitfields, Covered
  <2>. QED
    BY <2>1, CoveredAgrees
<1>2. Verdict' = IF row.status = "Finished" THEN "finished" ELSE "pending"
  BY RowIsRecord
<1>3. Copies' = Copies
  BY DEF Copies
<1>4. CASE row.status = "Finished"
  <2>1. Durable!Covered(Segments)
    BY <1>4, CoveredAgrees
  <2>. QED
    BY <1>1, <1>2, <1>3, <1>4, <2>1 DEF Durable!Finish
<1>5. CASE row.status # "Finished"
  BY <1>1, <1>2, <1>3, <1>5 DEF Durable!SaveProgress, Durable!Save
<1>. QED
  BY <1>4, <1>5

(* Starting a swarm saves the item and may leave a copy behind.              *)
LEMMA StartImplements ==
    ASSUME TypeOK, LossesBounded, NothingInvented, StatusFollows, StartSwarm
    PROVE  Durable!Resume
<1>1. /\ db' = {[status |-> "Downloading", bytes |-> bytesDownloaded,
                 bitfield |-> itemBitfield]}
      /\ tail = {} /\ tail' = {} /\ disk' = disk /\ target' \in Folders
      /\ UNCHANGED <<lost, crashes>>
      /\ moved' = (moved \/ (target' # target /\ disk[target] # {}))
  BY DEF StartSwarm, OpenFile, Upsert, LossesBounded, TypeOK
<1>2. Record' = (IF itemBitfield = Unset THEN {} ELSE itemBitfield)
      /\ Verdict' = "pending"
  <2> DEFINE row == [status |-> "Downloading", bytes |-> bytesDownloaded,
                     bitfield |-> itemBitfield]
  <2>1. db' = {row}
    BY <1>1
  <2>2. /\ Record' = IF row.bitfield = Unset THEN {} ELSE row.bitfield
        /\ Verdict' = IF row.status = "Finished" THEN "finished" ELSE "pending"
    <3> HIDE DEF row
    <3>. QED
      BY <2>1, RowIsRecord
  <2>. QED
    BY <2>2
<1>3. Record' \in SUBSET Segments /\ Covered(Record')
  BY <1>2 DEF NothingInvented, Covered, TypeOK, Bitfields
<1>4. Durable!Covered(Record')
  BY <1>3, CoveredAgrees
<1>5. Copies' = Copies /\ Copies[target] = disk[target]
  BY <1>1 DEF Copies, TypeOK
<1>6. Verdict # "finished"
  BY DEF StartSwarm, StatusFollows, Verdict
<1>. QED
  BY <1>1, <1>2, <1>3, <1>4, <1>5, <1>6 DEF Durable!Resume, Durable!Save

(* A successful transfer receives its segment.                               *)
LEMMA TransferImplements ==
    ASSUME TypeOK, Claims, NEW w \in Workers, TransferOk(w)
    PROVE  Durable!Receive
<1>1. {seg[w]} \in SUBSET Segments
  BY ClaimsAreSegments DEF HeldIsSegment, Holding, TransferOk, Goto, Claims
<1>2. UNCHANGED <<target, moved, crashes, db>> /\ lost' = lost \ {seg[w]}
  BY DEF TransferOk
<1>3. \A f \in Folders : disk'[f] \cup (IF f = target THEN tail' ELSE {})
        = IF f = target THEN disk[f] \cup tail \cup {seg[w]} ELSE disk[f]
  BY DEF TransferOk, FlushTail, TypeOK
<1>4. Copies' = [Copies EXCEPT ![target] = @ \cup {seg[w]}]
  BY <1>2, <1>3 DEF Copies, TypeOK
<1>5. Record' = Record /\ Verdict' = Verdict
  BY <1>2 DEF Record, Verdict
<1>. QED
  BY <1>1, <1>2, <1>4, <1>5 DEF Durable!Receive

(* A restart loses the buffer, unless the file held the same bytes before.   *)
LEMMA CrashImplements ==
    ASSUME TypeOK, LossesBounded, Restart
    PROVE  Durable!Crash
<1>1. /\ UNCHANGED <<disk, target, moved, db>>
      /\ lost' = lost \cup (tail \ disk[target])
      /\ crashes' = crashes + 1 /\ tail' = {}
  BY DEF Restart, SwarmLocalsGone
<1>2. Record' = Record /\ Verdict' = Verdict
  BY <1>1 DEF Record, Verdict
<1>3. CASE tail \subseteq disk[target]
  <2>1. Copies' = Copies /\ lost' = lost
    BY <1>1, <1>3 DEF Copies
  <2>. QED
    BY <1>1, <1>2, <2>1 DEF Durable!Crash
<1>4. ASSUME NEW s \in tail, s \notin disk[target] PROVE Durable!Crash
  <2>1. tail = {s} /\ s \in Segments
    BY DEF LossesBounded, TypeOK
  <2>2. lost' = lost \cup {s}
    BY <1>1, <1>4, <2>1
  <2>3. Copies' = [Copies EXCEPT ![target] = @ \ {s}]
    BY <1>1, <1>4, <2>1 DEF Copies, TypeOK
  <2>. QED
    BY <1>1, <1>2, <2>1, <2>2, <2>3 DEF Durable!Crash
<1>. QED
  BY <1>3, <1>4

(* A new download is a new resumable download.                               *)
LEMMA DurableInit == Init => Durable!Init
<1> SUFFICES ASSUME Init PROVE Durable!Init
  OBVIOUS
<1>1. Copies = [f \in Folders |-> {}]
  BY DEF Init, Copies
<1>2. Record = {} /\ Verdict = "pending"
  BY DEF Init, Record, Verdict
<1>. QED
  BY <1>1, <1>2 DEF Init, Durable!Init

(* Every step of the swarm is a step of a resumable download, or none.       *)
LEMMA DurableStep ==
    ASSUME TypeOK, TypeOK', Claims, LossesBounded, NothingInvented,
           StatusFollows, [Next]_vars
    PROVE  [Durable!Next]_(Durable!vars)
<1>1. CASE UNCHANGED <<disk, tail, target, moved, lost, crashes, db>>
  BY <1>1 DEF Copies, Record, Verdict, Durable!vars
<1>2. CASE /\ FlushTail /\ tail' = {}
           /\ UNCHANGED <<target, moved, lost, crashes, db>>
  <2>1. Copies' = Copies
    BY <1>2 DEF FlushTail, Copies, TypeOK
  <2>. QED
    BY <1>2, <2>1 DEF Record, Verdict, Durable!vars
<1>3. ASSUME NEW w \in Workers, TransferOk(w)
      PROVE  [Durable!Next]_(Durable!vars)
  BY <1>3, TransferImplements DEF Durable!Next
<1>4. CASE RemoveFromQueue
  <2>1. Record' = {} /\ Verdict' = "absent" /\ Copies' = Copies
    BY <1>4 DEF RemoveFromQueue, swarmVars, Record, Verdict, Copies
  <2>. QED
    BY <1>4, <2>1 DEF RemoveFromQueue, swarmVars, Durable!Next, Durable!Drop
<1>5. CASE StartSwarm
  BY <1>5, StartImplements DEF Durable!Next
<1>6. CASE Restart
  BY <1>6, CrashImplements DEF Durable!Next
<1>7. ASSUME NEW st \in Statuses, Upsert(st),
             UNCHANGED <<disk, tail, target, moved, lost, crashes>>,
             st = "Finished" => status = "Finished",
             st # "Finished" => Verdict # "finished"
      PROVE  [Durable!Next]_(Durable!vars)
  <2> DEFINE row == [status |-> st, bytes |-> bytesDownloaded,
                     bitfield |-> itemBitfield]
  <2>1. db' = {row} /\ row \in Row
    BY <1>7 DEF Upsert, Row, TypeOK
  <2>2. /\ row.bitfield = Unset \/ Covered(row.bitfield)
        /\ row.status = "Finished" => Covered(Segments)
        /\ row.status # "Finished" => Verdict # "finished"
    BY <1>7 DEF NothingInvented
  <2>3. Durable!SaveProgress \/ Durable!Finish
    BY <1>7, <2>1, <2>2, SavingImplements
  <2>. QED
    BY <2>3 DEF Durable!Next
<1>8. CASE StartFails
  <2>1. Verdict # "finished"
    BY <1>8 DEF StartFails, StatusFollows, Verdict
  <2>. QED
    BY <1>7, <1>8, <2>1 DEF StartFails, Statuses
<1>9. status # "Finished" => Verdict # "finished"
  BY DEF StatusFollows, Verdict
<1>10. CASE (Save \/ SaveError) /\ Upsert(status)
  BY <1>7, <1>9, <1>10 DEF Save, SaveError, TypeOK
<1>11. ASSUME NEW w \in Workers, PersistProgress(w), Upsert(status)
       PROVE  [Durable!Next]_(Durable!vars)
  BY <1>7, <1>9, <1>11 DEF PersistProgress, swarmVars, TypeOK
<1>. QED
  BY <1>1, <1>2, <1>3, <1>4, <1>5, <1>6, <1>8, <1>10, <1>11
     DEF Next, vars, SwarmStep, Environment, WorkerStep, Transfer, swarmVars,
         stableVars, Decide, Save, Close, SwarmFails, SaveError,
         SwarmLocalsGone, PickSegment, WorkerExits, PickPeer, NoFreePeer,
         ClaimPeer, TransferChunk, TransferFails, MarkSegmentFinished,
         ScanTotal, StoreTotal, FormatBitfield, StoreBitfield,
         PersistProgress, PersistFails, ReleasePeer, SetDownloadsFolder,
         Shutdown

(* The swarm is a resumable download as DurableDownload describes it, across *)
(* crashes that lose the buffer, failures of the disk and changes of folder. *)
THEOREM Refines == Spec => ImplementsDurable
<1>1. Init => Durable!Init
  BY DurableInit
<1>2. Spec => []StatusFollows
  <2>1. TypeOK /\ Claims /\ StatusFollows /\ [Next]_vars => StatusFollows'
    BY StatusStep
  <2>. QED
    BY <2>1, StatusInit, InductiveSpec, PTL DEF Spec
<1>3. /\ TypeOK /\ TypeOK' /\ Claims /\ LossesBounded /\ NothingInvented
      /\ StatusFollows /\ [Next]_vars
      => [Durable!Next]_(Durable!vars)
  BY DurableStep
<1>. QED
  BY <1>1, <1>2, <1>3, DataSpec, InductiveSpec, PTL
     DEF Spec, ImplementsDurable, Durable!Spec

=============================================================================
