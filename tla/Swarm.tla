------------------------------- MODULE Swarm -------------------------------
(***************************************************************************)
(* The swarm that downloads one queued file: DownloadFileSwarmAsync and    *)
(* UpdateProgress of Transfarr.Node/Core/DownloadManager.cs, with the row  *)
(* that ShareDatabase keeps for the item and the file on disk.             *)
(*                                                                         *)
(* A step of a worker is the code between two points where another thread  *)
(* can observe or change what it uses: the segment lock, the two           *)
(* concurrent dictionaries, each field of the shared DownloadItem, the     *)
(* database lock and the awaited transfer.                                 *)
(*                                                                         *)
(* Sizes are sets of segments: BytesDownloaded is the sum of the lengths   *)
(* of the segments a scan of the bitfield found finished, so it is         *)
(* represented by that set, and "BytesDownloaded >= FileSize" is           *)
(* "the set is Segments".  (The scan is one step.  In the code it reads    *)
(* the segments one after the other, but segments finish one at a time and *)
(* never unfinish, so the number it finds is the number that were finished *)
(* at some instant of the scan.)                                           *)
(***************************************************************************)
EXTENDS Naturals, FiniteSets

CONSTANTS
    SegmentCount,   \* GetSegmentCount(item.FileSize)
    Workers,        \* the parallel workers of one swarm (maxParallel of them)
    Uploaders,      \* peers known to share the file
    TargetPeer,     \* item.TargetPeer, the uploader the user chose
    Folders,        \* values DownloadsFolder may take
    Unset,          \* item.Bitfield before the first swarm: the empty string
    ShortTails,     \* may the last read of a segment be shorter than the
                    \* buffer of the FileStream?
    DiskMayFail,    \* may opening the target file or saving a row throw?
    MaxCrashes      \* bound on the number of restarts

Segments == 0 .. (SegmentCount - 1)

ASSUME SwarmAssumption ==
    /\ SegmentCount \in Nat
    /\ Workers # {}
    /\ TargetPeer \in Uploaders
    /\ Folders # {}
    /\ \A S \in SUBSET Segments : Unset # S
    /\ ShortTails \in BOOLEAN
    /\ DiskMayFail \in BOOLEAN
    /\ MaxCrashes \in Nat

VARIABLES
    \* The DownloadItem shared by every thread of the node.
    inItems,         \* items.ContainsKey(item.Id)
    status,          \* item.Status
    bytesDownloaded, \* item.BytesDownloaded, as a set of segments
    itemBitfield,    \* item.Bitfield
    downloadsFolder, \* DownloadsFolder
    stopping,        \* shutdownCts is cancelled
    \* What survives the process.
    db,              \* the item's row of DownloadQueue: a set of at most one
    disk,            \* per folder, the segments wholly written to the file
    crashes,
    \* What happened to the file, which the node does not know.
    lost,            \* segments whose last bytes went with the buffer in a
                     \* crash, and which have not been fetched again
    moved,           \* a swarm has gone on in another folder
    \* The locals of the running DownloadFileSwarmAsync.
    phase,           \* where the method is
    target,          \* the folder of filePath
    uploaderPool,
    reachable,       \* uploaders of the pool whose address the node has
    bitfield,
    activeSegments,
    activeWorkers,   \* peers flagged as busy
    tail,            \* segments whose last bytes are in the FileStream buffer
    \* The locals of each worker task.
    pc, seg, peer, local

itemVars   == <<inItems, status, bytesDownloaded, itemBitfield>>
stableVars == <<db, disk, crashes, lost, moved>>
swarmVars  == <<phase, target, uploaderPool, reachable, bitfield,
                activeSegments, activeWorkers, tail>>
workerVars == <<pc, seg, peer, local>>
vars == <<itemVars, downloadsFolder, stopping, stableVars, swarmVars,
          workerVars>>

Statuses == {"Queued", "Downloading", "Finished", "Error"}
Phases   == {"none", "run", "complete", "requeue", "drop", "close", "failed"}
Pcs      == {"done", "faulted", "loop", "peer", "claim", "xfer", "mark",
             "total", "store", "hex", "assign", "persist", "finally"}
Bitfields == {Unset} \cup SUBSET Segments
Row == [status : Statuses, bytes : SUBSET Segments, bitfield : Bitfields]

-----------------------------------------------------------------------------
(* AddToQueue has just created the item and stored it. *)

Init ==
    /\ inItems = TRUE
    /\ status = "Queued"
    /\ bytesDownloaded = {}
    /\ itemBitfield = Unset
    /\ downloadsFolder \in Folders
    /\ stopping = FALSE
    /\ db = {[status |-> "Queued", bytes |-> {}, bitfield |-> Unset]}
    /\ disk = [f \in Folders |-> {}]
    /\ crashes = 0
    /\ lost = {}
    /\ moved = FALSE
    /\ phase = "none"
    /\ target = downloadsFolder
    /\ uploaderPool = {}
    /\ reachable = {}
    /\ bitfield = {}
    /\ activeSegments = {}
    /\ activeWorkers = {}
    /\ tail = {}
    /\ pc = [w \in Workers |-> "done"]
    /\ seg = [w \in Workers |-> 0]
    /\ peer = [w \in Workers |-> TargetPeer]
    /\ local = [w \in Workers |-> {}]

(* db.UpsertDownloadItem(item): the row takes the item's fields as they are. *)
Upsert(st) ==
    db' = {[status |-> st, bytes |-> bytesDownloaded, bitfield |-> itemBitfield]}

-----------------------------------------------------------------------------
(* Start and end of the swarm. *)

(* FileMode.Create would have emptied a file that is resumed. *)
OpenFileTruncated == disk' = [disk EXCEPT ![downloadsFolder] = {}]

(* new FileStream(filePath, FileMode.OpenOrCreate, ...), SetLength: what the *)
(* file holds stays.                                                         *)
OpenFile == UNCHANGED disk

(* ProcessQueueAsync picks the item and DownloadFileSwarmAsync runs up to    *)
(* Task.WhenAll.  Peers discovered earlier join the pool if they are online. *)
(* The TargetPeer of an item read from the database has no address: it can   *)
(* be reached only if it was discovered as well.                             *)
StartSwarm ==
    /\ phase = "none"
    /\ inItems
    /\ status = "Queued"
    /\ status' = "Downloading"
    /\ Upsert("Downloading")
    /\ LET fresh == itemBitfield = Unset IN
         /\ bitfield' = IF fresh THEN {} ELSE itemBitfield
         /\ itemBitfield' = bitfield'
         /\ bytesDownloaded' = IF fresh THEN {} ELSE bytesDownloaded
    /\ target' = downloadsFolder
    /\ moved' = (moved \/ (downloadsFolder # target /\ disk[target] # {}))
    /\ \E online \in SUBSET Uploaders :
         /\ uploaderPool' = online \cup {TargetPeer}
         /\ reachable' = IF crashes = 0 THEN uploaderPool' ELSE online
    /\ activeSegments' = {}
    /\ activeWorkers' = {}
    /\ phase' = "run"
    /\ pc' = [w \in Workers |-> "loop"]
    /\ OpenFile
    /\ UNCHANGED <<inItems, downloadsFolder, stopping, crashes, lost, tail,
                   seg, peer, local>>

(* The file cannot be opened or pre-allocated: the catch clause.             *)
StartFails ==
    /\ DiskMayFail
    /\ phase = "none"
    /\ inItems
    /\ status = "Queued"
    /\ status' = "Error"
    /\ Upsert("Downloading")
    /\ bytesDownloaded' = IF itemBitfield = Unset THEN {} ELSE bytesDownloaded
    /\ itemBitfield' = IF itemBitfield = Unset THEN {} ELSE itemBitfield
    /\ phase' = "failed"
    /\ UNCHANGED <<inItems, downloadsFolder, stopping, disk, crashes, lost,
                   moved, target, uploaderPool, reachable, bitfield,
                   activeSegments, activeWorkers, tail, workerVars>>

(* Task.WhenAll: every worker has run to its end or thrown.                  *)
AllEnded == \A w \in Workers : pc[w] \in {"done", "faulted"}

(* Without the test of BytesDownloaded: whoever is still queued is complete. *)
DecideUnchecked ==
    /\ phase = "run"
    /\ \A w \in Workers : pc[w] = "done"
    /\ phase' = IF inItems THEN "complete" ELSE "drop"
    /\ status' = IF inItems THEN "Finished" ELSE status
    /\ UNCHANGED <<inItems, bytesDownloaded, itemBitfield, downloadsFolder,
                   stopping, stableVars, target, uploaderPool, reachable,
                   bitfield, activeSegments, activeWorkers, tail,
                   workerVars>>

(* After Task.WhenAll: is the file complete, and is the item still queued? *)
Decide ==
    /\ phase = "run"
    /\ \A w \in Workers : pc[w] = "done"
    /\ \/ /\ bytesDownloaded = Segments
          /\ phase' = "complete"
          /\ status' = IF status = "Downloading" THEN "Finished" ELSE status
       \/ /\ bytesDownloaded # Segments
          /\ inItems
          /\ phase' = "requeue"
          /\ status' = "Queued"
       \/ /\ bytesDownloaded # Segments
          /\ ~inItems
          /\ phase' = "drop"
          /\ UNCHANGED status
    /\ UNCHANGED <<inItems, bytesDownloaded, itemBitfield, downloadsFolder,
                   stopping, stableVars, target, uploaderPool, reachable,
                   bitfield, activeSegments, activeWorkers, tail,
                   workerVars>>

(* The upsert of CompleteDownload, or of the branch that queues it again. *)
Save ==
    /\ phase \in {"complete", "requeue", "drop"}
    /\ IF phase = "drop" THEN UNCHANGED db ELSE Upsert(status)
    /\ phase' = "close"
    /\ UNCHANGED <<itemVars, downloadsFolder, stopping, disk, crashes, lost,
                   moved, target, uploaderPool, reachable, bitfield,
                   activeSegments, activeWorkers, tail, workerVars>>

SwarmLocalsGone ==
    /\ uploaderPool' = {}
    /\ reachable' = {}
    /\ bitfield' = {}
    /\ activeSegments' = {}
    /\ activeWorkers' = {}
    /\ tail' = {}

(* The bytes in the buffer of the FileStream reach the file. *)
FlushTail == disk' = [disk EXCEPT ![target] = @ \cup tail]

(* The method returns and "using var fs" closes the file. *)
Close ==
    /\ phase = "close"
    /\ phase' = "none"
    /\ FlushTail
    /\ SwarmLocalsGone
    /\ UNCHANGED <<itemVars, downloadsFolder, stopping, db, crashes, lost,
                   moved, target, workerVars>>

(* Something throws between the opening of the file and the end of the       *)
(* method: a worker, once all of them have ended, or the save of the row.    *)
(* The file is closed on the way to the catch clause, which saves the item   *)
(* with "Error" if it is still queued.                                       *)
SwarmFails ==
    /\ \/ phase = "run" /\ AllEnded /\ \E w \in Workers : pc[w] = "faulted"
       \/ phase \in {"complete", "requeue"} /\ DiskMayFail
    /\ status' = IF inItems THEN "Error" ELSE status
    /\ phase' = IF inItems THEN "failed" ELSE "none"
    /\ FlushTail
    /\ SwarmLocalsGone
    /\ pc' = [w \in Workers |-> "done"]
    /\ UNCHANGED <<inItems, bytesDownloaded, itemBitfield, downloadsFolder,
                   stopping, db, crashes, lost, moved, target, seg, peer,
                   local>>

(* The CompleteDownload of the catch clause, whose upsert may throw as well. *)
SaveError ==
    /\ phase = "failed"
    /\ phase' = "none"
    /\ Upsert(status) \/ (DiskMayFail /\ UNCHANGED db)
    /\ UNCHANGED <<itemVars, downloadsFolder, stopping, disk, crashes, lost,
                   moved, target, uploaderPool, reachable, bitfield,
                   activeSegments, activeWorkers, tail, workerVars>>

(* One parallel worker. *)

Goto(w, from, to) == pc[w] = from /\ pc' = [pc EXCEPT ![w] = to]

(* The variables declared in the loop body go out of scope.                  *)
Forget(w) ==
    /\ seg' = [seg EXCEPT ![w] = 0]
    /\ peer' = [peer EXCEPT ![w] = TargetPeer]
    /\ local' = [local EXCEPT ![w] = {}]

KeepGoing == inItems /\ ~stopping

(* The segment loop without its look at activeSegments, and with "<=". *)
UnclaimedUnchecked == Segments \ bitfield
UnclaimedOffByOne  == (0 .. SegmentCount) \ (bitfield \cup activeSegments)

Unclaimed == Segments \ (bitfield \cup activeSegments)

(* The loop condition, then, under segmentLock, the first segment that is    *)
(* neither finished nor being fetched.                                       *)
PickSegment(w) ==
    /\ KeepGoing
    /\ \E s \in Unclaimed :
         /\ \A t \in Unclaimed : s <= t
         /\ seg' = [seg EXCEPT ![w] = s]
         /\ activeSegments' = activeSegments \cup {s}
    /\ Goto(w, "loop", "peer")
    /\ UNCHANGED <<itemVars, downloadsFolder, stopping, stableVars, phase,
                   target, uploaderPool, reachable, bitfield, activeWorkers,
                   tail, peer, local>>

WorkerExits(w) ==
    /\ ~KeepGoing \/ Unclaimed = {}
    /\ Goto(w, "loop", "done")
    /\ UNCHANGED <<itemVars, downloadsFolder, stopping, stableVars,
                   swarmVars, seg, peer, local>>

(* uploaderPool.FirstOrDefault(p => !activeWorkers.ContainsKey(p.PeerId)):   *)
(* a ConcurrentBag has no fixed order.                                       *)
PickPeer(w) ==
    /\ Goto(w, "peer", "claim")
    /\ \E p \in uploaderPool \ activeWorkers : peer' = [peer EXCEPT ![w] = p]
    /\ UNCHANGED <<itemVars, downloadsFolder, stopping, stableVars,
                   swarmVars, seg, local>>

(* "continue" without TryRemove: the claim leaks. *)
NoFreePeerKeepsClaim(w) ==
    /\ uploaderPool \subseteq activeWorkers
    /\ Goto(w, "peer", "loop")
    /\ Forget(w)
    /\ UNCHANGED <<itemVars, downloadsFolder, stopping, stableVars,
                   swarmVars>>

(* Every uploader is busy: give the segment back, wait a second, try again.  *)
NoFreePeer(w) ==
    /\ uploaderPool \subseteq activeWorkers
    /\ Goto(w, "peer", "loop")
    /\ activeSegments' = activeSegments \ {seg[w]}
    /\ Forget(w)
    /\ UNCHANGED <<itemVars, downloadsFolder, stopping, stableVars, phase,
                   target, uploaderPool, reachable, bitfield, activeWorkers,
                   tail>>

(* activeWorkers[peer.PeerId] = true, whoever else has claimed it meanwhile. *)
ClaimPeer(w) ==
    /\ Goto(w, "claim", "xfer")
    /\ activeWorkers' = activeWorkers \cup {peer[w]}
    /\ UNCHANGED <<itemVars, downloadsFolder, stopping, stableVars, phase,
                   target, uploaderPool, reachable, bitfield, activeSegments,
                   tail, seg, peer, local>>

(* A chunk that is not the last: fs.Seek flushes what the buffer holds.      *)
TransferChunk(w) ==
    /\ pc[w] = "xfer"
    /\ tail # {}
    /\ FlushTail
    /\ tail' = {}
    /\ UNCHANGED <<itemVars, downloadsFolder, stopping, db, crashes, lost,
                   moved, phase, target, uploaderPool, reachable, bitfield,
                   activeSegments, activeWorkers, workerVars>>

(* DownloadSegmentAsync returns true: totalRead == length.  The last write   *)
(* stays in the buffer of the FileStream if it is shorter than the buffer.   *)
TransferOk(w) ==
    /\ Goto(w, "xfer", "mark")
    /\ peer[w] \in reachable
    /\ \/ /\ disk' = [disk EXCEPT ![target] = @ \cup tail \cup {seg[w]}]
          /\ tail' = {}
       \/ /\ ShortTails
          /\ FlushTail
          /\ tail' = {seg[w]}
    /\ lost' = lost \ {seg[w]}
    /\ UNCHANGED <<itemVars, downloadsFolder, stopping, db, crashes, moved,
                   phase, target, uploaderPool, reachable, bitfield,
                   activeSegments, activeWorkers, seg, peer, local>>

(* The result of DownloadSegmentAsync ignored, and the claim not returned. *)
TransferFailsUnnoticed(w) ==
    /\ Goto(w, "xfer", "mark")
    /\ UNCHANGED <<itemVars, downloadsFolder, stopping, stableVars,
                   swarmVars, seg, peer, local>>

(* It returns false, on any error, timeout, short read or shutdown, and the  *)
(* segment is given back.  The uploader stays busy for the cool-down.        *)
TransferFails(w) ==
    /\ Goto(w, "xfer", "finally")
    /\ activeSegments' = activeSegments \ {seg[w]}
    /\ UNCHANGED <<itemVars, downloadsFolder, stopping, stableVars, phase,
                   target, uploaderPool, reachable, bitfield, activeWorkers,
                   tail, seg, peer, local>>

(* lock (segmentLock) MarkSegmentFinished(bitfield, segIdx) *)
MarkSegmentFinished(w) ==
    /\ Goto(w, "mark", "total")
    /\ bitfield' = bitfield \cup {seg[w]}
    /\ UNCHANGED <<itemVars, downloadsFolder, stopping, stableVars, phase,
                   target, uploaderPool, reachable, activeSegments,
                   activeWorkers, tail, seg, peer, local>>

(* UpdateProgress, which no lock protects: scan the bitfield ...             *)
ScanTotal(w) ==
    /\ Goto(w, "total", "store")
    /\ local' = [local EXCEPT ![w] = bitfield]
    /\ UNCHANGED <<itemVars, downloadsFolder, stopping, stableVars,
                   swarmVars, seg, peer>>

(* ... store the total ...                                                   *)
StoreTotal(w) ==
    /\ Goto(w, "store", "hex")
    /\ bytesDownloaded' = local[w]
    /\ UNCHANGED <<inItems, status, itemBitfield, downloadsFolder, stopping,
                   stableVars, swarmVars, seg, peer, local>>

(* ... format the bitfield ...                                               *)
FormatBitfield(w) ==
    /\ Goto(w, "hex", "assign")
    /\ local' = [local EXCEPT ![w] = bitfield]
    /\ UNCHANGED <<itemVars, downloadsFolder, stopping, stableVars,
                   swarmVars, seg, peer>>

(* ... store it ...                                                          *)
StoreBitfield(w) ==
    /\ Goto(w, "assign", "persist")
    /\ itemBitfield' = local[w]
    /\ UNCHANGED <<inItems, status, bytesDownloaded, downloadsFolder,
                   stopping, stableVars, swarmVars, seg, peer, local>>

(* ... and save the item, unless it was saved in the last 500 ms.            *)
PersistProgress(w) ==
    /\ Goto(w, "persist", "finally")
    /\ Upsert(status) \/ UNCHANGED db
    /\ UNCHANGED <<itemVars, downloadsFolder, stopping, disk, crashes, lost,
                   moved, swarmVars, seg, peer, local>>

(* That save throws: the finally clause, and the worker's task has faulted.  *)
PersistFails(w) ==
    /\ DiskMayFail
    /\ Goto(w, "persist", "faulted")
    /\ activeWorkers' = activeWorkers \ {peer[w]}
    /\ Forget(w)
    /\ UNCHANGED <<itemVars, downloadsFolder, stopping, stableVars, phase,
                   target, uploaderPool, reachable, bitfield, activeSegments,
                   tail>>

(* The peer stays flagged. *)
ReleaseNothing(w) ==
    /\ Goto(w, "finally", "loop")
    /\ Forget(w)
    /\ UNCHANGED <<itemVars, downloadsFolder, stopping, stableVars,
                   swarmVars>>

(* finally { activeWorkers.TryRemove(peer.PeerId, out _); }                  *)
ReleasePeer(w) ==
    /\ Goto(w, "finally", "loop")
    /\ activeWorkers' = activeWorkers \ {peer[w]}
    /\ Forget(w)
    /\ UNCHANGED <<itemVars, downloadsFolder, stopping, stableVars, phase,
                   target, uploaderPool, reachable, bitfield, activeSegments,
                   tail>>

-----------------------------------------------------------------------------
(* The rest of the node and the user. *)

RemoveFromQueue ==
    /\ inItems
    /\ inItems' = FALSE
    /\ db' = {}
    /\ UNCHANGED <<status, bytesDownloaded, itemBitfield, downloadsFolder,
                   stopping, disk, crashes, lost, moved, swarmVars,
                   workerVars>>

SetDownloadsFolder ==
    /\ downloadsFolder' \in Folders \ {downloadsFolder}
    /\ UNCHANGED <<itemVars, stopping, stableVars, swarmVars, workerVars>>

Shutdown ==
    /\ ~stopping
    /\ stopping' = TRUE
    /\ UNCHANGED <<itemVars, downloadsFolder, stableVars, swarmVars,
                   workerVars>>

(* The process ends, at any point, and starts again: Initialize loads the    *)
(* row.  What the FileStream still buffered is lost.                         *)
Restart ==
    /\ crashes < MaxCrashes
    /\ crashes' = crashes + 1
    /\ inItems' = (db # {})
    /\ \/ /\ db = {}
          /\ UNCHANGED <<status, bytesDownloaded, itemBitfield>>
       \/ \E row \in db :
            /\ status' = IF row.status = "Downloading" THEN "Queued"
                         ELSE row.status
            /\ bytesDownloaded' = row.bytes
            /\ itemBitfield' = row.bitfield
    /\ stopping' = FALSE
    /\ lost' = lost \cup (tail \ disk[target])
    /\ phase' = "none"
    /\ SwarmLocalsGone
    /\ pc' = [w \in Workers |-> "done"]
    /\ seg' = [w \in Workers |-> 0]
    /\ peer' = [w \in Workers |-> TargetPeer]
    /\ local' = [w \in Workers |-> {}]
    /\ UNCHANGED <<db, disk, moved, downloadsFolder, target>>

-----------------------------------------------------------------------------

Transfer(w) == TransferChunk(w) \/ TransferOk(w) \/ TransferFails(w)

WorkerStep(w) ==
    \/ PickSegment(w) \/ WorkerExits(w)
    \/ PickPeer(w) \/ NoFreePeer(w) \/ ClaimPeer(w)
    \/ MarkSegmentFinished(w)
    \/ ScanTotal(w) \/ StoreTotal(w) \/ FormatBitfield(w) \/ StoreBitfield(w)
    \/ PersistProgress(w) \/ PersistFails(w)
    \/ ReleasePeer(w)

SwarmStep ==
    \/ StartSwarm \/ StartFails
    \/ Decide \/ Save \/ Close
    \/ SwarmFails \/ SaveError

Environment == RemoveFromQueue \/ SetDownloadsFolder \/ Shutdown \/ Restart

Next ==
    \/ SwarmStep
    \/ \E w \in Workers : WorkerStep(w) \/ Transfer(w)
    \/ Environment

Spec == Init /\ [][Next]_vars

(* The task scheduler runs every runnable continuation; an awaited transfer  *)
(* ends (it succeeds, fails or times out); a worker whose transfers are      *)
(* tried again and again sooner or later has one succeed, which is what      *)
(* "the peer comes back" means here.  Nothing is assumed of the user.        *)
Fairness ==
    /\ WF_vars(SwarmStep)
    /\ \A w \in Workers : WF_vars(WorkerStep(w)) /\ SF_vars(TransferOk(w))

FairSpec == Spec /\ Fairness

-----------------------------------------------------------------------------
(* Properties *)

TypeOK ==
    /\ inItems \in BOOLEAN
    /\ status \in Statuses
    /\ bytesDownloaded \in SUBSET Segments
    /\ itemBitfield \in Bitfields
    /\ downloadsFolder \in Folders
    /\ stopping \in BOOLEAN
    /\ db \in SUBSET Row
    /\ disk \in [Folders -> SUBSET Segments]
    /\ crashes \in 0 .. MaxCrashes
    /\ lost \in SUBSET Segments
    /\ moved \in BOOLEAN
    /\ phase \in Phases
    /\ target \in Folders
    /\ uploaderPool \in SUBSET Uploaders
    /\ reachable \in SUBSET Uploaders
    /\ bitfield \in SUBSET Segments
    /\ activeSegments \in SUBSET Segments
    /\ activeWorkers \in SUBSET Uploaders
    /\ tail \in SUBSET Segments
    /\ pc \in [Workers -> Pcs]
    /\ seg \in [Workers -> Nat]
    /\ peer \in [Workers -> Uploaders]
    /\ local \in [Workers -> SUBSET Segments]

(* The worker has claimed a segment and not yet marked it or given it back.  *)
Holding(w) == pc[w] \in {"peer", "claim", "xfer", "mark"}

(* Two workers never fetch the same segment, and none fetches a segment that *)
(* is already finished: the claim in activeSegments, taken under the lock    *)
(* and dropped outside it, is never taken twice.                             *)
SegmentsExclusive ==
    \A w \in Workers : Holding(w) =>
        /\ seg[w] \notin bitfield
        /\ \A v \in Workers \ {w} : Holding(v) => seg[v] # seg[w]

(* No claim is lost: when every worker has left, the segments still claimed  *)
(* are the finished ones.  A claim that leaked would leave its segment to    *)
(* nobody, and the file could never be completed by this swarm.              *)
ClaimsReturned == AllEnded => activeSegments \subseteq bitfield

(* Segments whose bytes the node has written to some copy of the file, or    *)
(* still has in the buffer of the open one.                                  *)
Written == (UNION {disk[f] : f \in Folders}) \cup tail

(* What counts as being in the file: its bytes, those in the buffer, and,    *)
(* once a swarm has gone on in another folder, those of the other copies.    *)
Held == IF moved THEN Written ELSE disk[target] \cup tail

(* A crash can take the buffer of the FileStream with it, and the buffer     *)
(* holds the end of one segment at most.                                     *)
Losses == IF ShortTails THEN crashes ELSE 0

(* What the node would resume from was really received: of the segments that *)
(* the saved bitfield (487) names, the file lacks at most one for each crash *)
(* (and none if the last read of a segment always bypasses the buffer).  It  *)
(* may lack that one: see ResumesWhereItLeftOff.                             *)
ResumeLosesLittle ==
    \A row \in db : row.bitfield # Unset =>
        Cardinality(row.bitfield \ Held) <= Losses

(* A download saved as Finished was received as a whole, whatever failed,    *)
(* was removed or queued again on the way (445-458): the file lacks at most  *)
(* one segment for each crash, and if no swarm has gone on in another folder *)
(* the rest is in the one file.                                              *)
FinishedLosesLittle ==
    \A row \in db : row.status = "Finished" =>
        Cardinality(Segments \ Held) <= Losses

(* "Interrupted downloads? No problem. Transfarr uses bitfield-based segment *)
(* tracking (20MB chunks) to resume exactly where it left off"               *)
(* (README.md:23): what a running swarm takes for finished is in the file it *)
(* writes.                                                                   *)
ResumesWhereItLeftOff ==
    phase = "run" => bitfield \subseteq disk[target] \cup tail

(* If the user and the disk let it, every segment of the file arrives: no    *)
(* claim or peer flag is held for ever, and no worker leaves too early.      *)
(* Stated for a node that has not been restarted: an uploader restored from  *)
(* the database has no address (ShareDatabase.cs:346).                       *)
EverySegmentArrives ==
    <>(\/ Segments \subseteq Written
       \/ ~inItems \/ stopping \/ status = "Error" \/ crashes > 0)

(* ... and then the download is reported as finished.                        *)
EventuallyFinished ==
    <>(status \in {"Finished", "Error"} \/ ~inItems \/ stopping)

-----------------------------------------------------------------------------
(* What makes the safety properties inductive. *)

(* Outside Task.WhenAll no worker runs.                                      *)
WorkersJoined == phase # "run" => \A w \in Workers : pc[w] = "done"

(* activeSegments is the finished segments fetched by this swarm and, for    *)
(* each worker that holds one, its own segment, held by nobody else.         *)
ClaimsExact ==
    /\ \A w \in Workers : Holding(w) => seg[w] \in activeSegments \ bitfield
    /\ \A v, w \in Workers :
           Holding(v) /\ Holding(w) /\ v # w => seg[v] # seg[w]
    /\ \A s \in activeSegments :
           s \in bitfield \/ \E w \in Workers : Holding(w) /\ seg[w] = s

(* A crash loses the end of one segment at most, and only a running swarm   *)
(* has a buffer to lose.                                                     *)
LossesBounded ==
    /\ Cardinality(lost) <= crashes
    /\ \A s, t \in tail : s = t
    /\ phase \in {"none", "failed"} => tail = {}
    /\ ~ShortTails => tail = {} /\ lost = {}

(* Received, and in the file unless a crash took it.                         *)
Covered(S) == S \subseteq Held \cup lost

(* Wherever a set of finished segments is kept (the bitfield, a worker's     *)
(* scan of it, the item, the row), they were received; so was a segment      *)
(* about to be marked; Finished is said of whole files.                      *)
NothingInvented ==
    /\ Covered(bitfield)
    /\ Covered(bytesDownloaded)
    /\ itemBitfield = Unset \/ Covered(itemBitfield)
    /\ \A w \in Workers : Covered(local[w])
    /\ \A w \in Workers : pc[w] = "mark" => Covered({seg[w]})
    /\ status = "Finished" => Covered(Segments)
    /\ \A row \in db : /\ row.bitfield = Unset \/ Covered(row.bitfield)
                       /\ Covered(row.bytes)
                       /\ row.status = "Finished" => Covered(Segments)

Inductive == WorkersJoined /\ ClaimsExact /\ LossesBounded /\ NothingInvented

-----------------------------------------------------------------------------
(* The abstract view of a download: see DurableDownload.                     *)
Copies  == [f \in Folders |-> IF f = target THEN disk[f] \cup tail ELSE disk[f]]
Record  == UNION {IF row.bitfield = Unset THEN {} ELSE row.bitfield : row \in db}
Verdict == IF db = {} THEN "absent"
           ELSE IF \E row \in db : row.status = "Finished" THEN "finished"
           ELSE "pending"

Durable == INSTANCE DurableDownload
             WITH copies <- Copies, folder <- target, record <- Record,
                  verdict <- Verdict

(* Whatever the workers, the user and crashes do, the row and the file are a *)
(* download as DurableDownload describes it: the record never runs ahead of  *)
(* what was received, a crash loses one segment at most, a change of folder  *)
(* is the only other way to miss one, and Finished is final.                 *)
ImplementsDurable == Durable!Spec

=============================================================================
