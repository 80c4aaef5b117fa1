------------------------- MODULE DownloadQueueProofs -------------------------
(***************************************************************************)
(* Theorems about DownloadQueue, for any number of items, threads, swarms, *)
(* restarts and failures of the disk.                                      *)
(***************************************************************************)
EXTENDS DownloadQueue, FiniteSetTheorems, TLAPS

(***************************************************************************)
(* Types, and what a thread is at work on.                                 *)
(***************************************************************************)
WithItem == {"addSave", "removeRow", "removeActive", "matchSave", "begin",
             "beginSave", "launch", "endSave", "endActive"}

\* A thread at such a place has an item.
HasItem == \A t \in Threads : pc[t] \in WithItem => cur[t] \in Items

LEMMA TypeInit == Init => TypeOK /\ HasItem
<1>. SUFFICES ASSUME Init PROVE TypeOK /\ HasItem
  OBVIOUS
<1>1. 0 \in 0 .. MaxRestarts /\ 0 \in 0 .. MaxFaults
  BY QueueAssumption
<1>2. /\ status \in [Items -> Statuses]
      /\ swarms \in [Items -> Nat]
      /\ db \in [Items -> Statuses \cup {"absent"}]
      /\ pc \in [Threads -> Pcs]
      /\ cur \in [Threads -> Items \cup {Nobody}]
      /\ pending \in [Threads -> SUBSET Items]
  BY DEF Init, Statuses, Pcs
<1>3. HasItem
  BY DEF Init, HasItem, WithItem
<1>. QED
  BY <1>1, <1>2, <1>3 DEF Init, TypeOK

LEMMA TypeStep == TypeOK /\ HasItem /\ [Next]_vars => TypeOK' /\ HasItem'
<1>. SUFFICES ASSUME TypeOK, HasItem, [Next]_vars
              PROVE  TypeOK' /\ HasItem'
  OBVIOUS
<1>. USE QueueAssumption DEF TypeOK, HasItem, Pcs, WithItem, queueVars, threadVars, history
<1>1. CASE UNCHANGED vars
  BY <1>1 DEF vars
<1>2. CASE SwarmOfRemovedFails
  BY <1>2 DEF SwarmOfRemovedFails, SwarmOver, Fault
<1>3. CASE SwarmProgress
  BY <1>3 DEF SwarmProgress, Upsert
<1>4. CASE Restart
  BY <1>4 DEF Restart, Restored, Statuses
<1>5. ASSUME NEW t \in Threads, Request(t)
      PROVE  TypeOK' /\ HasItem'
  <2>1. CASE AddToQueue(t)
    BY <2>1 DEF AddToQueue, Enter, Goto
  <2>2. CASE RemoveFromQueue(t)
    BY <2>2 DEF RemoveFromQueue, Enter, Goto
  <2>3. CASE DiscoverPeer(t)
    BY <2>3 DEF DiscoverPeer, Enter, Goto
  <2>. QED
    BY <1>5, <2>1, <2>2, <2>3 DEF Request
<1>6. ASSUME NEW t \in Threads, SwarmEnds(t)
      PROVE  TypeOK' /\ HasItem'
  <2>1. CASE SwarmCompletes(t)
    BY <2>1 DEF SwarmCompletes, SwarmOver, Enter, Goto, Statuses
  <2>2. CASE SwarmRequeues(t)
    BY <2>2 DEF SwarmRequeues, SwarmOver, Enter, Goto, Statuses
  <2>3. CASE SwarmOfRemoved(t)
    BY <2>3 DEF SwarmOfRemoved, SwarmOver, Enter, Goto
  <2>4. CASE SwarmFails(t)
    BY <2>4 DEF SwarmFails, SwarmOver, Enter, Goto, Statuses
  <2>. QED
    BY <1>6, <2>1, <2>2, <2>3, <2>4 DEF SwarmEnds
<1>7. ASSUME NEW t \in Threads, Continue(t)
      PROVE  TypeOK' /\ HasItem'
  <2>1. CASE AddSave(t) \/ BeginSave(t) \/ EndSave(t)
    BY <2>1 DEF AddSave, BeginSave, EndSave, Upsert, Goto
  <2>2. CASE RemoveRow(t)
    BY <2>2 DEF RemoveRow, Goto
  <2>3. CASE RemoveActive(t) \/ EndActive(t)
    BY <2>3 DEF RemoveActive, EndActive, Goto
  <2>4. CASE DiscoverSave(t)
    BY <2>4 DEF DiscoverSave, Upsert, Return
  <2>5. CASE Snapshot(t)
    BY <2>5 DEF Snapshot, NoteOverlap, Goto
  <2>6. CASE LoopEnds(t)
    BY <2>6 DEF LoopEnds, Return
  <2>7. CASE PickItem(t)
    BY <2>7 DEF PickItem, Goto
  <2>8. CASE Begin(t)
    BY <2>8 DEF Begin, Goto, Statuses
  <2>9. CASE Launch(t)
    BY <2>9 DEF Launch, Goto, Fault
  <2>. QED
    BY <1>7, <2>1, <2>2, <2>3, <2>4, <2>5, <2>6, <2>7, <2>8, <2>9 DEF Continue
<1>. QED
  BY <1>1, <1>2, <1>3, <1>4, <1>5, <1>6, <1>7 DEF Next

\* Type correctness: the status of every item and row is one the code names,
\* and every thread is at a place it can be at (DownloadManager.cs 95-157,
\* 299-321, 449-540).
THEOREM TypesHold == Spec => []TypeOK
<1>1. Spec => [](TypeOK /\ HasItem)
  BY TypeInit, TypeStep, PTL DEF Spec
<1>. QED
  BY <1>1, PTL

(***************************************************************************)
(* What was never added is nowhere.                                        *)
(***************************************************************************)
Known ==
    /\ items \subseteq used
    /\ \A t \in Threads : pending[t] \subseteq used /\ cur[t] \in used \cup {Nobody}
    /\ \A i \in Items \ used :
         swarms[i] = 0 /\ db[i] = "absent" /\ status[i] = "Queued"

LEMMA KnownInit == Init => Known
BY QueueAssumption DEF Init, Known

LEMMA KnownStep == TypeOK /\ HasItem /\ Known /\ [Next]_vars => Known'
<1>. SUFFICES ASSUME TypeOK, HasItem, Known, [Next]_vars
              PROVE  Known'
  OBVIOUS
<1>. USE QueueAssumption DEF TypeOK, HasItem, WithItem, Known, queueVars, threadVars
<1>1. CASE UNCHANGED vars
  BY <1>1 DEF vars
<1>2. CASE SwarmOfRemovedFails
  BY <1>2 DEF SwarmOfRemovedFails, SwarmOver
<1>3. CASE SwarmProgress
  BY <1>3 DEF SwarmProgress, Upsert
<1>4. CASE Restart
  BY <1>4 DEF Restart, Restored
<1>5. ASSUME NEW t \in Threads, Request(t)
      PROVE  Known'
  BY <1>5 DEF Request, AddToQueue, RemoveFromQueue, DiscoverPeer, Enter, Goto
<1>6. ASSUME NEW t \in Threads, SwarmEnds(t)
      PROVE  Known'
  BY <1>6 DEF SwarmEnds, SwarmCompletes, SwarmRequeues, SwarmOfRemoved, SwarmFails,
              SwarmOver, Enter, Goto
<1>7. ASSUME NEW t \in Threads, Continue(t)
      PROVE  Known'
  <2>1. CASE AddSave(t) \/ BeginSave(t) \/ EndSave(t)
    BY <2>1 DEF AddSave, BeginSave, EndSave, Upsert, Goto
  <2>2. CASE RemoveRow(t)
    BY <2>2 DEF RemoveRow, Goto
  <2>3. CASE RemoveActive(t) \/ EndActive(t)
    BY <2>3 DEF RemoveActive, EndActive, Goto
  <2>4. CASE DiscoverSave(t)
    BY <2>4 DEF DiscoverSave, Upsert, Return
  <2>5. CASE Snapshot(t)
    BY <2>5 DEF Snapshot, Goto
  <2>6. CASE LoopEnds(t)
    BY <2>6 DEF LoopEnds, Return
  <2>7. CASE PickItem(t)
    BY <2>7 DEF PickItem, Goto
  <2>8. CASE Begin(t)
    BY <2>8 DEF Begin, Goto
  <2>9. CASE Launch(t)
    BY <2>9 DEF Launch, Goto
  <2>. QED
    BY <1>7, <2>1, <2>2, <2>3, <2>4, <2>5, <2>6, <2>7, <2>8, <2>9 DEF Continue
<1>. QED
  BY <1>1, <1>2, <1>3, <1>4, <1>5, <1>6, <1>7 DEF Next

(***************************************************************************)
(* An entry of activeDownloads stands for a swarm that runs, or for one    *)
(* whose thread is about to take the entry out.                            *)
(***************************************************************************)
Ending(t, i) == pc[t] \in {"endSave", "endActive"} /\ cur[t] = i

Accounted(i) == swarms[i] > 0 \/ \E t \in Threads : Ending(t, i)

ActiveIsAlive == faults = 0 => \A i \in activeDownloads : Accounted(i)

LEMMA ActiveStep == TypeOK /\ HasItem /\ ActiveIsAlive /\ [Next]_vars => ActiveIsAlive'
<1>. SUFFICES ASSUME TypeOK, HasItem, ActiveIsAlive, [Next]_vars
              PROVE  ActiveIsAlive'
  OBVIOUS
<1>. USE QueueAssumption DEF TypeOK, HasItem, WithItem, ActiveIsAlive, Accounted, Ending,
                             queueVars, threadVars, history
<1>1. CASE UNCHANGED vars
  BY <1>1 DEF vars
<1>2. CASE SwarmOfRemovedFails
  BY <1>2 DEF SwarmOfRemovedFails, Fault
<1>3. CASE SwarmProgress
  BY <1>3 DEF SwarmProgress
<1>4. CASE Restart
  BY <1>4 DEF Restart
<1>5. ASSUME NEW t \in Threads, Request(t)
      PROVE  ActiveIsAlive'
  BY <1>5 DEF Request, AddToQueue, RemoveFromQueue, DiscoverPeer, Enter, Goto
<1>6. ASSUME NEW t \in Threads, SwarmEnds(t)
      PROVE  ActiveIsAlive'
  BY <1>6 DEF SwarmEnds, SwarmCompletes, SwarmRequeues, SwarmOfRemoved, SwarmFails,
              SwarmOver, Enter, Goto
<1>7. ASSUME NEW t \in Threads, Continue(t)
      PROVE  ActiveIsAlive'
  <2>1. CASE AddSave(t) \/ BeginSave(t) \/ EndSave(t)
    BY <2>1 DEF AddSave, BeginSave, EndSave, Goto
  <2>2. CASE RemoveRow(t) \/ Begin(t) \/ Snapshot(t)
    BY <2>2 DEF RemoveRow, Begin, Snapshot, NoteOverlap, Goto
  <2>3. CASE RemoveActive(t) \/ EndActive(t)
    BY <2>3 DEF RemoveActive, EndActive, Goto
  <2>4. CASE DiscoverSave(t) \/ LoopEnds(t) \/ PickItem(t)
    BY <2>4 DEF DiscoverSave, LoopEnds, PickItem, Return, Goto
  <2>5. CASE Launch(t)
    BY <2>5 DEF Launch, Goto, Fault
  <2>. QED
    BY <1>7, <2>1, <2>2, <2>3, <2>4, <2>5 DEF Continue
<1>. QED
  BY <1>1, <1>2, <1>3, <1>4, <1>5, <1>6, <1>7 DEF Next

(***************************************************************************)
(* An item that says "Downloading" has a swarm, or a call that is about to *)
(* start one.                                                              *)
(***************************************************************************)
Starting(t, i) == pc[t] \in {"beginSave", "launch"} /\ cur[t] = i

DownloadingIsAlive ==
    faults = 0 => \A i \in items : status[i] = "Downloading" =>
        swarms[i] > 0 \/ \E t \in Threads : Starting(t, i)

LEMMA DownloadingStep ==
  TypeOK /\ HasItem /\ Known /\ DownloadingIsAlive /\ [Next]_vars => DownloadingIsAlive'
<1>. SUFFICES ASSUME TypeOK, HasItem, Known, DownloadingIsAlive, [Next]_vars
              PROVE  DownloadingIsAlive'
  OBVIOUS
<1>. USE QueueAssumption DEF TypeOK, HasItem, WithItem, DownloadingIsAlive, Starting,
                             queueVars, threadVars, history
<1>1. CASE UNCHANGED vars
  BY <1>1 DEF vars
<1>2. CASE SwarmOfRemovedFails
  BY <1>2 DEF SwarmOfRemovedFails, Fault
<1>3. CASE SwarmProgress
  BY <1>3 DEF SwarmProgress
<1>4. CASE Restart
  BY <1>4 DEF Restart, Restored
<1>5. ASSUME NEW t \in Threads, Request(t)
      PROVE  DownloadingIsAlive'
  BY <1>5 DEF Request, AddToQueue, RemoveFromQueue, DiscoverPeer, Enter, Goto, Known
<1>6. ASSUME NEW t \in Threads, SwarmEnds(t)
      PROVE  DownloadingIsAlive'
  BY <1>6 DEF SwarmEnds, SwarmCompletes, SwarmRequeues, SwarmOfRemoved, SwarmFails,
              SwarmOver, Enter, Goto
<1>7. ASSUME NEW t \in Threads, Continue(t)
      PROVE  DownloadingIsAlive'
  <2>1. CASE AddSave(t) \/ BeginSave(t) \/ EndSave(t)
    BY <2>1 DEF AddSave, BeginSave, EndSave, Goto
  <2>2. CASE RemoveRow(t) \/ Snapshot(t)
    BY <2>2 DEF RemoveRow, Snapshot, NoteOverlap, Goto
  <2>3. CASE RemoveActive(t) \/ EndActive(t)
    BY <2>3 DEF RemoveActive, EndActive, Goto
  <2>4. CASE DiscoverSave(t) \/ LoopEnds(t) \/ PickItem(t)
    BY <2>4 DEF DiscoverSave, LoopEnds, PickItem, Return, Goto
  <2>5. CASE Begin(t)
    BY <2>5 DEF Begin, Goto
  <2>6. CASE Launch(t)
    BY <2>6 DEF Launch, Goto, Fault
  <2>. QED
    BY <1>7, <2>1, <2>2, <2>3, <2>4, <2>5, <2>6 DEF Continue
<1>. QED
  BY <1>1, <1>2, <1>3, <1>4, <1>5, <1>6, <1>7 DEF Next

\* When nothing runs, no download that has ended is active and no item says
\* "Downloading", after restarts too, unless the disk failed where no code
\* handles it (DownloadManager.cs 108-116, 311-317, 449-453, 465, 488-490, 617-619).
THEOREM NoGhosts == Spec => []NoGhostDownload
<1>1. Init => ActiveIsAlive /\ DownloadingIsAlive
  BY DEF Init, ActiveIsAlive, DownloadingIsAlive
<1>2. TypeOK /\ ActiveIsAlive /\ DownloadingIsAlive => NoGhostDownload
  BY DEF ActiveIsAlive, Accounted, Ending, DownloadingIsAlive, Starting, NoGhostDownload,
         Quiescent, TypeOK
<1>3. Spec => [](TypeOK /\ HasItem /\ Known /\ ActiveIsAlive /\ DownloadingIsAlive)
  BY TypeInit, TypeStep, KnownInit, KnownStep, <1>1, ActiveStep, DownloadingStep, PTL DEF Spec
<1>. QED
  BY <1>2, <1>3, PTL

(***************************************************************************)
(* Every change of an item's Status is followed by a save of the item on   *)
(* the same thread, and the thread that removes the row of an item has     *)
(* taken the item out before.                                              *)
(***************************************************************************)
Saving(t, i) ==
    pc[t] \in {"addSave", "matchSave", "beginSave", "endSave"} /\ cur[t] = i

Saved(i) ==
    \/ db[i] = status[i]
    \/ status[i] = "Queued" /\ restarts > 0 /\ db[i] = "Downloading"

Due(i) == Saved(i) \/ \E t \in Threads : Saving(t, i)

SavedOrDue == \A i \in items : Due(i)

RemovedIsOut ==
    \A t \in Threads : pc[t] \in {"removeRow", "removeActive"} => cur[t] \notin items

LEMMA RemovedStep ==
  TypeOK /\ HasItem /\ Known /\ RemovedIsOut /\ [Next]_vars => RemovedIsOut'
<1>. SUFFICES ASSUME TypeOK, HasItem, Known, RemovedIsOut, [Next]_vars
              PROVE  RemovedIsOut'
  OBVIOUS
<1>. USE QueueAssumption DEF TypeOK, HasItem, WithItem, RemovedIsOut, queueVars, threadVars
<1>1. CASE UNCHANGED vars
  BY <1>1 DEF vars
<1>2. CASE SwarmOfRemovedFails \/ SwarmProgress \/ Restart
  BY <1>2 DEF SwarmOfRemovedFails, SwarmProgress, Restart
<1>3. ASSUME NEW t \in Threads, Request(t)
      PROVE  RemovedIsOut'
  BY <1>3 DEF Request, AddToQueue, RemoveFromQueue, DiscoverPeer, Enter, Goto, Known
<1>4. ASSUME NEW t \in Threads, SwarmEnds(t)
      PROVE  RemovedIsOut'
  BY <1>4 DEF SwarmEnds, SwarmCompletes, SwarmRequeues, SwarmOfRemoved, SwarmFails,
              Enter, Goto
<1>5. ASSUME NEW t \in Threads, Continue(t)
      PROVE  RemovedIsOut'
  <2>1. CASE AddSave(t) \/ RemoveRow(t) \/ RemoveActive(t) \/ DiscoverSave(t)
    BY <2>1 DEF AddSave, RemoveRow, RemoveActive, DiscoverSave, Return, Goto
  <2>2. CASE Snapshot(t) \/ LoopEnds(t) \/ PickItem(t)
    BY <2>2 DEF Snapshot, LoopEnds, PickItem, Return, Goto
  <2>3. CASE Begin(t) \/ BeginSave(t) \/ Launch(t)
    BY <2>3 DEF Begin, BeginSave, Launch, Goto
  <2>4. CASE EndSave(t) \/ EndActive(t)
    BY <2>4 DEF EndSave, EndActive, Goto
  <2>. QED
    BY <1>5, <2>1, <2>2, <2>3, <2>4 DEF Continue
<1>. QED
  BY <1>1, <1>2, <1>3, <1>4, <1>5 DEF Next

LEMMA SavedStep ==
  TypeOK /\ HasItem /\ RemovedIsOut /\ SavedOrDue /\ [Next]_vars => SavedOrDue'
<1>. SUFFICES ASSUME TypeOK, HasItem, RemovedIsOut, SavedOrDue, [Next]_vars,
                     NEW i \in items'
              PROVE  Due(i)'
  BY DEF SavedOrDue, Due
<1>. USE QueueAssumption DEF TypeOK, HasItem, WithItem, SavedOrDue, Due, Saved, Saving,
                             queueVars, threadVars
<1>1. CASE UNCHANGED vars
  BY <1>1 DEF vars
<1>2. CASE SwarmOfRemovedFails
  BY <1>2 DEF SwarmOfRemovedFails
<1>3. CASE SwarmProgress
  BY <1>3 DEF SwarmProgress, Upsert
<1>4. CASE Restart
  <2>1. i \in Items /\ db[i] \in Statuses /\ restarts' > 0 /\ db' = db
        /\ status'[i] = Restored(db[i])
    BY <1>4 DEF Restart
  <2>2. CASE db[i] = "Downloading"
    BY <2>1, <2>2 DEF Restored
  <2>3. CASE db[i] # "Downloading"
    BY <2>1, <2>3 DEF Restored, Statuses
  <2>. QED
    BY <2>2, <2>3
<1>5. ASSUME NEW t \in Threads, Request(t)
      PROVE  Due(i)'
  <2>1. CASE AddToQueue(t)
    BY <2>1 DEF AddToQueue, Enter, Goto
  <2>2. CASE RemoveFromQueue(t)
    BY <2>2 DEF RemoveFromQueue, Enter, Goto
  <2>3. CASE DiscoverPeer(t)
    BY <2>3 DEF DiscoverPeer, Enter, Goto
  <2>. QED
    BY <1>5, <2>1, <2>2, <2>3 DEF Request
<1>6. ASSUME NEW t \in Threads, SwarmEnds(t)
      PROVE  Due(i)'
  <2>1. CASE SwarmCompletes(t)
    BY <2>1 DEF SwarmCompletes, Enter, Goto
  <2>2. CASE SwarmRequeues(t) \/ SwarmFails(t)
    BY <2>2 DEF SwarmRequeues, SwarmFails, Enter, Goto
  <2>3. CASE SwarmOfRemoved(t)
    BY <2>3 DEF SwarmOfRemoved, Enter, Goto
  <2>. QED
    BY <1>6, <2>1, <2>2, <2>3 DEF SwarmEnds
<1>7. ASSUME NEW t \in Threads, Continue(t)
      PROVE  Due(i)'
  <2>1. CASE AddSave(t) \/ BeginSave(t) \/ EndSave(t)
    BY <2>1 DEF AddSave, BeginSave, EndSave, Upsert, Goto
  <2>2. CASE RemoveRow(t)
    BY <2>2 DEF RemoveRow, RemovedIsOut, Goto
  <2>3. CASE RemoveActive(t) \/ EndActive(t) \/ Snapshot(t)
    BY <2>3 DEF RemoveActive, EndActive, Snapshot, Goto
  <2>4. CASE DiscoverSave(t)
    BY <2>4 DEF DiscoverSave, Upsert, Return
  <2>5. CASE LoopEnds(t) \/ PickItem(t) \/ Launch(t)
    BY <2>5 DEF LoopEnds, PickItem, Launch, Return, Goto
  <2>6. CASE Begin(t)
    BY <2>6 DEF Begin, Goto
  <2>. QED
    BY <1>7, <2>1, <2>2, <2>3, <2>4, <2>5, <2>6 DEF Continue
<1>. QED
  BY <1>1, <1>2, <1>3, <1>4, <1>5, <1>6, <1>7 DEF Next

\* When nothing runs, the table and memory agree about every queued item
\* (DownloadManager.cs 118-157, 305-309, 449-452, 615-626).
THEOREM TableFollows == Spec => []SavedMatches
<1>1. Init => Known /\ RemovedIsOut /\ SavedOrDue
  BY KnownInit DEF Init, RemovedIsOut, SavedOrDue
<1>2. SavedOrDue => SavedMatches
  BY DEF SavedOrDue, Due, Saved, Saving, SavedMatches, Quiescent
<1>3. Spec => [](TypeOK /\ HasItem /\ Known /\ RemovedIsOut /\ SavedOrDue)
  BY TypeInit, TypeStep, KnownStep, <1>1, RemovedStep, SavedStep, PTL DEF Spec
<1>. QED
  BY <1>2, <1>3, PTL

(***************************************************************************)
(* An item that waits has somebody who will look for it: a thread whose    *)
(* operation still ends in a call of ProcessQueueAsync, a swarm, whose end *)
(* does, or a call that has the item in its snapshot or starts another.    *)
(***************************************************************************)
WillSchedule(t) == pc[t] \in {"addSave", "removeRow", "removeActive", "snapshot",
                              "endSave", "endActive"}

LooksFor(t, i) ==
    \/ WillSchedule(t)
    \/ pc[t] \in {"begin", "beginSave", "launch"}
    \/ pc[t] = "next" /\ i \in pending[t]

WaitingIsSeen ==
    restarts = 0 /\ faults = 0 =>
        \A i \in items : status[i] = "Queued" =>
            \/ \E j \in Items : swarms[j] > 0
            \/ \E t \in Threads : LooksFor(t, i)

\* A call that gives up because a download is active leaves the item to the
\* end of that download.
LEMMA GivesUpRightly ==
  ASSUME TypeOK, ActiveIsAlive, faults = 0, NEW t \in Threads, LoopEnds(t),
         pending[t] # {}
  PROVE  \/ \E j \in Items : swarms[j] > 0
         \/ \E u \in Threads : u # t /\ WillSchedule(u)
<1>1. activeDownloads # {}
  BY FS_EmptySet DEF LoopEnds
<1>2. PICK j \in activeDownloads : Accounted(j)
  BY <1>1 DEF ActiveIsAlive
<1>. QED
  BY <1>2 DEF Accounted, Ending, WillSchedule, LoopEnds, TypeOK

LEMMA WaitingStep ==
  TypeOK /\ HasItem /\ ActiveIsAlive /\ WaitingIsSeen /\ [Next]_vars => WaitingIsSeen'
<1>. SUFFICES ASSUME TypeOK, HasItem, ActiveIsAlive, WaitingIsSeen, [Next]_vars,
                     restarts' = 0, faults' = 0,
                     NEW i \in items', status'[i] = "Queued"
              PROVE  \/ \E j \in Items : swarms'[j] > 0
                     \/ \E t \in Threads : LooksFor(t, i)'
  BY DEF WaitingIsSeen
<1>. USE QueueAssumption DEF TypeOK, HasItem, WithItem, WaitingIsSeen, LooksFor,
                             WillSchedule, queueVars, threadVars, history
<1>1. CASE UNCHANGED vars
  BY <1>1 DEF vars
<1>2. CASE SwarmOfRemovedFails
  BY <1>2 DEF SwarmOfRemovedFails, Fault
<1>3. CASE SwarmProgress
  BY <1>3 DEF SwarmProgress
<1>4. CASE Restart
  BY <1>4 DEF Restart
<1>5. ASSUME NEW t \in Threads, Request(t)
      PROVE  \/ \E j \in Items : swarms'[j] > 0
             \/ \E u \in Threads : LooksFor(u, i)'
  BY <1>5 DEF Request, AddToQueue, RemoveFromQueue, DiscoverPeer, Enter, Goto
<1>6. ASSUME NEW t \in Threads, SwarmEnds(t)
      PROVE  LooksFor(t, i)'
  BY <1>6 DEF SwarmEnds, SwarmCompletes, SwarmRequeues, SwarmOfRemoved, SwarmFails,
              Enter, Goto
<1>7. ASSUME NEW t \in Threads, Continue(t)
      PROVE  \/ \E j \in Items : swarms'[j] > 0
             \/ \E u \in Threads : LooksFor(u, i)'
  <2>1. CASE AddSave(t) \/ RemoveRow(t) \/ RemoveActive(t)
    BY <2>1 DEF AddSave, RemoveRow, RemoveActive, Goto
  <2>2. CASE EndSave(t) \/ EndActive(t)
    BY <2>2 DEF EndSave, EndActive, Goto
  <2>3. CASE DiscoverSave(t)
    BY <2>3 DEF DiscoverSave, Return
  <2>4. CASE Snapshot(t)
    BY <2>4 DEF Snapshot, NoteOverlap, Goto
  <2>5. CASE LoopEnds(t)
    BY <2>5, GivesUpRightly DEF LoopEnds, Return
  <2>6. CASE PickItem(t) \/ Begin(t) \/ BeginSave(t)
    BY <2>6 DEF PickItem, Begin, BeginSave, Goto
  <2>7. CASE Launch(t)
    BY <2>7 DEF Launch, Fault, Goto
  <2>. QED
    BY <1>7, <2>1, <2>2, <2>3, <2>4, <2>5, <2>6, <2>7 DEF Continue
<1>. QED
  BY <1>1, <1>2, <1>3, <1>4, <1>5, <1>6, <1>7 DEF Next

\* No wake-up is lost, also when calls of ProcessQueueAsync overlap
\* (DownloadManager.cs 299-321, 488-490, 615-626).
THEOREM NobodyForgotten == Spec => []NothingStalls
<1>1. Init => ActiveIsAlive /\ WaitingIsSeen
  BY DEF Init, ActiveIsAlive, WaitingIsSeen
<1>2. TypeOK /\ WaitingIsSeen => NothingStalls
  BY DEF TypeOK, WaitingIsSeen, LooksFor, WillSchedule, NothingStalls, Quiescent
<1>3. Spec => [](TypeOK /\ HasItem /\ ActiveIsAlive /\ WaitingIsSeen)
  BY TypeInit, TypeStep, ActiveStep, WaitingStep, <1>1, PTL DEF Spec
<1>. QED
  BY <1>2, <1>3, PTL

(***************************************************************************)
(* As long as no two calls of ProcessQueueAsync have overlapped, an item   *)
(* is in one hand at a time: a call's snapshot, the call that starts it,   *)
(* its one swarm, the thread that ends it.                                 *)
(***************************************************************************)
Handling(t, i) == pc[t] \in {"begin", "beginSave", "launch"} /\ cur[t] = i
Waits(t, i)    == Scheduling(t) /\ i \in pending[t]

OneScheduler == \A t, u \in Threads : Scheduling(t) /\ Scheduling(u) => t = u
OneSwarm     == \A i \in Items : swarms[i] <= 1
OneActive    == \A i, j \in activeDownloads : i = j

WaitersRest ==
    \A t \in Threads, i \in Items : Waits(t, i) =>
        swarms[i] = 0 /\ status[i] = "Queued"

HandledAlone ==
    \A t \in Threads, i \in Items : Handling(t, i) =>
        /\ swarms[i] = 0 /\ i \notin pending[t] /\ activeDownloads = {}
        /\ i \in items => \A u \in Threads : ~Ending(u, i)
        /\ status[i] = IF pc[t] = "begin" THEN "Queued" ELSE "Downloading"

RunningIsActive ==
    \A i \in items : swarms[i] > 0 =>
        status[i] = "Downloading" /\ i \in activeDownloads

EndingIsActive ==
    \A i \in items, t \in Threads : Ending(t, i) =>
        /\ swarms[i] = 0 /\ i \in activeDownloads /\ status[i] # "Downloading"
        /\ \A u \in Threads : Ending(u, i) => t = u

DownloadingIsHeld ==
    \A i \in items : status[i] = "Downloading" =>
        i \in activeDownloads \/ \E t \in Threads : Handling(t, i) /\ pc[t] # "begin"

OneHand == /\ OneSwarm /\ OneActive
           /\ WaitersRest /\ HandledAlone
           /\ RunningIsActive /\ EndingIsActive /\ DownloadingIsHeld

InTurn == ~overlapped => OneScheduler /\ OneHand

LEMMA InTurnInit == Init => InTurn
BY DEF Init, InTurn, OneHand, OneScheduler, OneSwarm, OneActive, WaitersRest, HandledAlone,
       RunningIsActive, EndingIsActive, DownloadingIsHeld, Scheduling, Waits, Handling, Ending

LEMMA AtMostOne ==
  ASSUME NEW S, \A x, y \in S : x = y
  PROVE  Cardinality(S) <= 1 /\ (Cardinality(S) < 1 => S = {})
<1>1. CASE S = {}
  BY <1>1, FS_EmptySet
<1>2. ASSUME NEW x \in S
      PROVE  Cardinality(S) = 1
  <2>1. S = {x}
    OBVIOUS
  <2>. QED
    BY <2>1, FS_Singleton
<1>. QED
  BY <1>1, <1>2

\* A call that begins beside another is an overlap.
LEMMA SchedulerStep ==
  TypeOK /\ OneScheduler /\ [Next]_vars /\ ~overlapped' => OneScheduler'
<1>. SUFFICES ASSUME TypeOK, OneScheduler, [Next]_vars, ~overlapped'
              PROVE  OneScheduler'
  OBVIOUS
<1>. USE DEF TypeOK, OneScheduler, Scheduling, queueVars, threadVars, history
<1>1. CASE UNCHANGED vars
  BY <1>1 DEF vars
<1>2. CASE SwarmOfRemovedFails \/ SwarmProgress \/ Restart
  BY <1>2 DEF SwarmOfRemovedFails, SwarmProgress, Restart
<1>3. ASSUME NEW t \in Threads, Request(t)
      PROVE  OneScheduler'
  BY <1>3 DEF Request, AddToQueue, RemoveFromQueue, DiscoverPeer, Enter, Goto
<1>4. ASSUME NEW t \in Threads, SwarmEnds(t)
      PROVE  OneScheduler'
  BY <1>4 DEF SwarmEnds, SwarmCompletes, SwarmRequeues, SwarmOfRemoved, SwarmFails,
              Enter, Goto
<1>5. ASSUME NEW t \in Threads, Continue(t)
      PROVE  OneScheduler'
  <2>1. CASE AddSave(t) \/ RemoveRow(t) \/ RemoveActive(t) \/ DiscoverSave(t)
    BY <2>1 DEF AddSave, RemoveRow, RemoveActive, DiscoverSave, Return, Goto
  <2>2. CASE Snapshot(t)
    BY <2>2 DEF Snapshot, NoteOverlap, Goto
  <2>3. CASE LoopEnds(t) \/ PickItem(t)
    BY <2>3 DEF LoopEnds, PickItem, Return, Goto
  <2>4. CASE Begin(t) \/ BeginSave(t) \/ Launch(t)
    BY <2>4 DEF Begin, BeginSave, Launch, Goto
  <2>5. CASE EndSave(t) \/ EndActive(t)
    BY <2>5 DEF EndSave, EndActive, Goto
  <2>. QED
    BY <1>5, <2>1, <2>2, <2>3, <2>4, <2>5 DEF Continue
<1>. QED
  BY <1>1, <1>2, <1>3, <1>4, <1>5 DEF Next

LEMMA OneHandStep ==
  TypeOK /\ HasItem /\ Known /\ RemovedIsOut /\ OneScheduler /\ OneHand
    /\ OneScheduler' /\ [Next]_vars => OneHand'
<1>. SUFFICES ASSUME TypeOK, HasItem, Known, RemovedIsOut, OneScheduler, OneHand,
                     OneScheduler', [Next]_vars
              PROVE  OneHand'
  OBVIOUS
<1>. USE QueueAssumption DEF TypeOK, HasItem, WithItem, OneHand, OneScheduler, OneSwarm, OneActive,
         WaitersRest, HandledAlone, RunningIsActive, EndingIsActive, DownloadingIsHeld,
         Scheduling, Waits, Handling, Ending, queueVars, threadVars, history
<1>1. CASE UNCHANGED vars
  BY <1>1 DEF vars
<1>2. CASE SwarmOfRemovedFails
  BY <1>2 DEF SwarmOfRemovedFails, SwarmOver
<1>3. CASE SwarmProgress
  BY <1>3 DEF SwarmProgress
<1>4. CASE Restart
  BY <1>4 DEF Restart, Restored
<1>5. ASSUME NEW t \in Threads, Request(t)
      PROVE  OneHand'
  <2>1. CASE AddToQueue(t)
    BY <2>1 DEF AddToQueue, Enter, Goto, Known
  <2>2. CASE RemoveFromQueue(t)
    BY <2>2 DEF RemoveFromQueue, Enter, Goto
  <2>3. CASE DiscoverPeer(t)
    BY <2>3 DEF DiscoverPeer, Enter, Goto
  <2>. QED
    BY <1>5, <2>1, <2>2, <2>3 DEF Request
<1>6. ASSUME NEW t \in Threads, SwarmEnds(t)
      PROVE  OneHand'
  <2>1. CASE SwarmCompletes(t)
    BY <2>1 DEF SwarmCompletes, SwarmOver, Enter, Goto
  <2>2. CASE SwarmRequeues(t)
    BY <2>2 DEF SwarmRequeues, SwarmOver, Enter, Goto
  <2>3. CASE SwarmOfRemoved(t)
    BY <2>3 DEF SwarmOfRemoved, SwarmOver, Enter, Goto
  <2>4. CASE SwarmFails(t)
    BY <2>4 DEF SwarmFails, SwarmOver, Enter, Goto
  <2>. QED
    BY <1>6, <2>1, <2>2, <2>3, <2>4 DEF SwarmEnds
<1>7. ASSUME NEW t \in Threads, Continue(t)
      PROVE  OneHand'
  <2>1. CASE AddSave(t) \/ EndSave(t)
    BY <2>1 DEF AddSave, EndSave, Goto
  <2>2. CASE RemoveRow(t)
    BY <2>2 DEF RemoveRow, Goto
  <2>3. CASE RemoveActive(t)
    BY <2>3 DEF RemoveActive, RemovedIsOut, Goto
  <2>4. CASE DiscoverSave(t)
    BY <2>4 DEF DiscoverSave, Return
  <2>5. CASE Snapshot(t)
    BY <2>5 DEF Snapshot, Goto
  <2>6. CASE LoopEnds(t)
    BY <2>6 DEF LoopEnds, Return
  <2>7. CASE PickItem(t)
    <3>1. activeDownloads = {}
      BY <2>7, AtMostOne DEF PickItem
    <3>. QED
      BY <2>7, <3>1 DEF PickItem, Goto
  <2>8. CASE Begin(t)
    BY <2>8 DEF Begin, Goto
  <2>9. CASE BeginSave(t)
    BY <2>9 DEF BeginSave, Goto
  <2>10. CASE Launch(t)
    BY <2>10 DEF Launch, Goto
  <2>11. CASE EndActive(t)
    BY <2>11 DEF EndActive, Goto
  <2>. QED
    BY <1>7, <2>1, <2>2, <2>3, <2>4, <2>5, <2>6, <2>7, <2>8, <2>9, <2>10, <2>11 DEF Continue
<1>. QED
  BY <1>1, <1>2, <1>3, <1>4, <1>5, <1>6, <1>7 DEF Next

LEMMA OverlapStays == [Next]_vars /\ overlapped => overlapped'
<1>. SUFFICES ASSUME [Next]_vars, overlapped PROVE overlapped'
  OBVIOUS
<1>. USE DEF queueVars, threadVars, history, NoteOverlap
<1>1. CASE UNCHANGED vars
  BY <1>1 DEF vars
<1>2. CASE SwarmOfRemovedFails \/ SwarmProgress \/ Restart
  BY <1>2 DEF SwarmOfRemovedFails, SwarmProgress, Restart
<1>3. ASSUME NEW t \in Threads, Request(t) \/ SwarmEnds(t) \/ Continue(t)
      PROVE  overlapped'
  BY <1>3 DEF Request, AddToQueue, RemoveFromQueue, DiscoverPeer,
              SwarmEnds, SwarmCompletes, SwarmRequeues, SwarmOfRemoved, SwarmFails,
              Continue, AddSave, RemoveRow, RemoveActive, DiscoverSave, Snapshot, LoopEnds,
              PickItem, Begin, BeginSave, Launch, EndSave, EndActive
<1>. QED
  BY <1>1, <1>2, <1>3 DEF Next

LEMMA InTurnStep ==
  TypeOK /\ HasItem /\ Known /\ RemovedIsOut /\ InTurn /\ [Next]_vars => InTurn'
BY OverlapStays, SchedulerStep, OneHandStep DEF InTurn

LEMMA InTurnHolds == Spec => [](TypeOK /\ InTurn)
<1>1. Init => Known /\ RemovedIsOut
  BY KnownInit DEF Init, RemovedIsOut
<1>2. Spec => [](TypeOK /\ HasItem /\ Known /\ RemovedIsOut /\ InTurn)
  BY TypeInit, TypeStep, KnownStep, RemovedStep, InTurnInit, InTurnStep, <1>1, PTL DEF Spec
<1>. QED
  BY <1>2, PTL

\* One item at most is downloading and none has two swarms, until two calls of
\* ProcessQueueAsync overlap (DownloadManager.cs 299-321, 343-347, 449-490).
THEOREM OneAtATime == Spec => []SerialQueue
<1>1. ASSUME TypeOK, InTurn, ~overlapped
      PROVE  /\ Cardinality({i \in items : status[i] = "Downloading"}) <= 1
             /\ \A i \in Items : swarms[i] <= 1
  <2>1. \A i, j \in items : status[i] = "Downloading" /\ status[j] = "Downloading" => i = j
    BY <1>1 DEF TypeOK, InTurn, OneScheduler, OneHand, OneActive, HandledAlone,
                DownloadingIsHeld, Scheduling, Handling
  <2>2. Cardinality({i \in items : status[i] = "Downloading"}) <= 1
    BY <2>1, AtMostOne
  <2>. QED
    BY <1>1, <2>2 DEF InTurn, OneHand, OneSwarm
<1>2. TypeOK /\ InTurn => SerialQueue
  BY <1>1 DEF SerialQueue
<1>. QED
  BY <1>2, InTurnHolds, PTL

\* What has been downloaded is not downloaded again, under the same condition
\* (DownloadManager.cs 301-309, 449-540).
THEOREM FinishedStays == Spec => FinishedIsFinal
<1>1. ASSUME TypeOK, InTurn, [Next]_vars, ~overlapped', ~overlapped, restarts' = restarts,
             NEW i \in Items, status[i] = "Finished"
      PROVE  status'[i] = "Finished"
  <2>. USE <1>1 DEF TypeOK, InTurn, OneHand
  <2>1. CASE UNCHANGED vars
    BY <2>1 DEF vars, queueVars
  <2>2. CASE SwarmOfRemovedFails \/ SwarmProgress \/ Restart
    BY <2>2 DEF SwarmOfRemovedFails, SwarmProgress, Restart
  <2>3. ASSUME NEW t \in Threads, Request(t)
        PROVE  status'[i] = status[i]
    BY <2>3 DEF Request, AddToQueue, RemoveFromQueue, DiscoverPeer, queueVars
  <2>4. ASSUME NEW t \in Threads, SwarmEnds(t)
        PROVE  status'[i] = "Finished"
    BY <2>4 DEF SwarmEnds, SwarmCompletes, SwarmRequeues, SwarmOfRemoved, SwarmFails,
                SwarmOver, RunningIsActive
  <2>5. ASSUME NEW t \in Threads, Continue(t)
        PROVE  status'[i] = "Finished"
    <3>1. CASE Begin(t)
      BY <3>1 DEF Begin, Goto, HandledAlone, Handling
    <3>2. CASE ~Begin(t)
      BY <2>5, <3>2 DEF Continue, AddSave, RemoveRow, RemoveActive, DiscoverSave, Snapshot,
                        LoopEnds, PickItem, BeginSave, Launch, EndSave, EndActive, queueVars
    <3>. QED
      BY <3>1, <3>2
  <2>. QED
    BY <2>1, <2>2, <2>3, <2>4, <2>5 DEF Next
<1>2. TypeOK /\ TypeOK' /\ InTurn /\ [Next]_vars /\ (overlapped => overlapped')
        => [\A i \in Items :
              status[i] = "Finished" /\ restarts' = restarts /\ ~overlapped'
                 => status'[i] = "Finished"]_vars
  BY <1>1
<1>. QED
  BY <1>2, InTurnHolds, OverlapStays, PTL DEF Spec, FinishedIsFinal
=============================================================================
