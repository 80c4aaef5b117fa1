---------------------------- MODULE DownloadQueue ----------------------------
(***************************************************************************)
(* The download queue of Transfarr.Node/Core/DownloadManager.cs: the       *)
(* operations of the user interface, the scheduler ProcessQueueAsync and   *)
(* the way a swarm ends, run by several threads at once.                   *)
(*                                                                         *)
(* ProcessQueueAsync awaits nothing, so it runs on whichever thread calls  *)
(* it: a request of a UI client, or the thread-pool thread on which a      *)
(* swarm ended.  No lock protects the scheduler; a step is the code        *)
(* between two accesses to what the threads share: `items',                *)
(* `activeDownloads', an item's Status, the database.                      *)
(*                                                                         *)
(* What a swarm does between its start and its end is module Swarm.        *)
(***************************************************************************)
EXTENDS Naturals, FiniteSets

CONSTANTS
    Items,       \* the downloads ever queued, each added at most once
    Threads,     \* threads that can run queue operations at the same time
    Nobody,      \* no item
    MaxSwarms,   \* bound: swarms running at once for one item
    MaxRestarts, \* bound on restarts of the node
    MaxFaults    \* bound on failures of the disk that no code handles

ASSUME QueueAssumption ==
    /\ Nobody \notin Items
    /\ MaxSwarms \in Nat
    /\ MaxRestarts \in Nat
    /\ MaxFaults \in Nat

VARIABLES
    used,            \* items the user has already added
    items,           \* the keys of DownloadManager.items
    status,          \* DownloadItem.Status
    activeDownloads, \* the keys of DownloadManager.activeDownloads
    swarms,          \* running DownloadFileSwarmAsync calls per item
    db,              \* Status in the item's row of DownloadQueue, or "absent"
    restarts,
    pc, cur, pending, \* per thread: where it is, its item, its pendingQueue
    \* History.
    overlapped,      \* two calls of ProcessQueueAsync have overlapped
    faults           \* failures of the disk that no code has handled

queueVars  == <<used, items, status, activeDownloads, swarms, db, restarts>>
threadVars == <<pc, cur, pending>>
history    == <<overlapped, faults>>
vars == <<queueVars, threadVars, history>>

Statuses == {"Queued", "Downloading", "Finished", "Error"}
Pcs == {"idle", "addSave", "removeRow", "removeActive", "matchSave",
        "snapshot", "next", "begin", "beginSave", "launch",
        "endSave", "endActive"}

Init ==
    /\ used = {}
    /\ items = {}
    /\ status = [i \in Items |-> "Queued"]
    /\ activeDownloads = {}
    /\ swarms = [i \in Items |-> 0]
    /\ db = [i \in Items |-> "absent"]
    /\ restarts = 0
    /\ pc = [t \in Threads |-> "idle"]
    /\ cur = [t \in Threads |-> Nobody]
    /\ pending = [t \in Threads |-> {}]
    /\ overlapped = FALSE
    /\ faults = 0

Goto(t, from, to) == pc[t] = from /\ pc' = [pc EXCEPT ![t] = to]

(* The operation is over and its locals are gone.                            *)
Return(t) ==
    /\ pc' = [pc EXCEPT ![t] = "idle"]
    /\ cur' = [cur EXCEPT ![t] = Nobody]
    /\ pending' = [pending EXCEPT ![t] = {}]

(* An idle thread takes up an operation on item i and goes on at `to'.       *)
Enter(t, i, to) ==
    /\ Goto(t, "idle", to)
    /\ cur' = [cur EXCEPT ![t] = i]
    /\ UNCHANGED pending

(* db.UpsertDownloadItem: the row takes the status the item has by then.     *)
Upsert(i) == db' = [db EXCEPT ![i] = status[i]]

-----------------------------------------------------------------------------
(* Operations of the user interface (LocalClientHub). *)

AddToQueue(t) ==
    \E i \in Items \ used :
        /\ Enter(t, i, "addSave")
        /\ used' = used \cup {i}
        /\ items' = items \cup {i}
        /\ UNCHANGED <<status, activeDownloads, swarms, db, restarts,
                       history>>

AddSave(t) ==
    /\ Goto(t, "addSave", "snapshot")
    /\ Upsert(cur[t])
    /\ UNCHANGED <<used, items, status, activeDownloads, swarms, restarts,
                   cur, pending, history>>

RemoveFromQueue(t) ==
    \E i \in items :
        /\ Enter(t, i, "removeRow")
        /\ items' = items \ {i}
        /\ UNCHANGED <<used, status, activeDownloads, swarms, db, restarts,
                       history>>

RemoveRow(t) ==
    /\ Goto(t, "removeRow", "removeActive")
    /\ db' = [db EXCEPT ![cur[t]] = "absent"]
    /\ UNCHANGED <<used, items, status, activeDownloads, swarms, restarts,
                   cur, pending, history>>

RemoveActive(t) ==
    /\ Goto(t, "removeActive", "snapshot")
    /\ activeDownloads' = activeDownloads \ {cur[t]}
    /\ UNCHANGED <<used, items, status, swarms, db, restarts, cur, pending,
                   history>>

(* RegisterDiscoveredPeer and MatchQueueWithPeer: an item of the queue gets  *)
(* another uploader and is saved.                                            *)
DiscoverPeer(t) ==
    /\ \E i \in items : Enter(t, i, "matchSave")
    /\ UNCHANGED <<queueVars, history>>

DiscoverSave(t) ==
    /\ pc[t] = "matchSave"
    /\ Upsert(cur[t])
    /\ Return(t)
    /\ UNCHANGED <<used, items, status, activeDownloads, swarms, restarts,
                   history>>

-----------------------------------------------------------------------------
(* ProcessQueueAsync *)

Scheduling(t) == pc[t] \in {"next", "begin", "beginSave", "launch"}

(* A call of ProcessQueueAsync begins, perhaps while another one runs.       *)
NoteOverlap(t) ==
    /\ overlapped' = (overlapped \/ \E u \in Threads \ {t} : Scheduling(u))
    /\ UNCHANGED faults

(* The snapshot without its Where clause. *)
SnapshotAll(t) ==
    /\ Goto(t, "snapshot", "next")
    /\ pending' = [pending EXCEPT ![t] = items]
    /\ NoteOverlap(t)
    /\ UNCHANGED <<queueVars, cur>>

(* var pendingQueue = items.Values.Where(q => q.Status == "Queued").ToList() *)
Snapshot(t) ==
    /\ Goto(t, "snapshot", "next")
    /\ pending' = [pending EXCEPT ![t] = {i \in items : status[i] = "Queued"}]
    /\ NoteOverlap(t)
    /\ UNCHANGED <<queueVars, cur>>

(* The loop ends: every item was looked at, or a download is active.         *)
LoopEnds(t) ==
    /\ pc[t] = "next"
    /\ pending[t] = {} \/ Cardinality(activeDownloads) >= 1
    /\ Return(t)
    /\ UNCHANGED <<queueVars, history>>

(* The next item: activeDownloads is empty, so it does not hold this one.    *)
PickItem(t) ==
    /\ Goto(t, "next", "begin")
    /\ Cardinality(activeDownloads) < 1
    /\ \E i \in pending[t] :
         /\ i \notin activeDownloads
         /\ cur' = [cur EXCEPT ![t] = i]
         /\ pending' = [pending EXCEPT ![t] = @ \ {i}]
    /\ UNCHANGED <<queueVars, history>>

(* item.Status = "Downloading", whatever happened to it since the snapshot.  *)
Begin(t) ==
    /\ Goto(t, "begin", "beginSave")
    /\ status' = [status EXCEPT ![cur[t]] = "Downloading"]
    /\ UNCHANGED <<used, items, activeDownloads, swarms, db, restarts, cur,
                   pending, history>>

BeginSave(t) ==
    /\ Goto(t, "beginSave", "launch")
    /\ Upsert(cur[t])
    /\ UNCHANGED <<used, items, status, activeDownloads, swarms, restarts,
                   cur, pending, history>>

Fault == faults < MaxFaults /\ faults' = faults + 1

(* activeDownloads.TryAdd, whose result is ignored, and the swarm starts.    *)
(* Directory.CreateDirectory is outside the swarm's try block: if it throws, *)
(* the swarm is over before it began and nothing is put right.               *)
Launch(t) ==
    /\ Goto(t, "launch", "next")
    /\ activeDownloads' = activeDownloads \cup {cur[t]}
    /\ \/ /\ swarms[cur[t]] < MaxSwarms
          /\ swarms' = [swarms EXCEPT ![cur[t]] = @ + 1]
          /\ UNCHANGED faults
       \/ Fault /\ UNCHANGED swarms
    /\ cur' = [cur EXCEPT ![t] = Nobody]
    /\ UNCHANGED <<used, items, status, db, restarts, pending, overlapped>>

-----------------------------------------------------------------------------
(* The end of DownloadFileSwarmAsync, on an idle thread of the pool. *)

SwarmOver(i) == swarms[i] > 0 /\ swarms' = [swarms EXCEPT ![i] = @ - 1]

(* BytesDownloaded >= FileSize: CompleteDownload.                            *)
SwarmCompletes(t) ==
    \E i \in Items :
        /\ SwarmOver(i)
        /\ Enter(t, i, "endSave")
        /\ status' = [status EXCEPT ![i] =
                        IF @ = "Downloading" THEN "Finished" ELSE @]
        /\ UNCHANGED <<used, items, activeDownloads, db, restarts, history>>

(* The item goes back to the queue before its workers have ended. *)
SwarmRequeuesEarly(t) ==
    /\ \E i \in items :
         /\ swarms[i] > 0
         /\ Enter(t, i, "endSave")
         /\ status' = [status EXCEPT ![i] = "Queued"]
    /\ UNCHANGED <<used, items, activeDownloads, swarms, db, restarts,
                   history>>

(* Otherwise an item still queued goes back to "Queued" and is saved ...     *)
SwarmRequeues(t) ==
    /\ \E i \in items :
         /\ SwarmOver(i)
         /\ Enter(t, i, "endSave")
         /\ status' = [status EXCEPT ![i] = "Queued"]
    /\ UNCHANGED <<used, items, activeDownloads, db, restarts, history>>

(* The TryRemove moved into the branch for items that are still queued. *)
SwarmOfRemovedForgets(t) ==
    \E i \in Items \ items :
        /\ SwarmOver(i)
        /\ Enter(t, i, "snapshot")
        /\ UNCHANGED <<used, items, status, activeDownloads, db, restarts,
                       history>>

(* ... and one removed meanwhile is only taken off the active downloads.     *)
SwarmOfRemoved(t) ==
    \E i \in Items \ items :
        /\ SwarmOver(i)
        /\ Enter(t, i, "endActive")
        /\ UNCHANGED <<used, items, status, activeDownloads, db, restarts,
                       history>>

(* The catch clause with a status that neither the queue view nor the search *)
(* for further uploaders knows. *)
SwarmFailsUnnamed(t) ==
    /\ \E i \in items :
         /\ SwarmOver(i)
         /\ Enter(t, i, "endSave")
         /\ status' = [status EXCEPT ![i] = "Failed"]
    /\ UNCHANGED <<used, items, activeDownloads, db, restarts, history>>

(* The catch clause, for an item still queued ...                            *)
SwarmFails(t) ==
    /\ \E i \in items :
         /\ SwarmOver(i)
         /\ Enter(t, i, "endSave")
         /\ status' = [status EXCEPT ![i] = "Error"]
    /\ UNCHANGED <<used, items, activeDownloads, db, restarts, history>>

(* ... and for one removed meanwhile: nothing at all.                        *)
SwarmOfRemovedFails ==
    /\ Fault
    /\ \E i \in Items \ items : SwarmOver(i)
    /\ UNCHANGED <<used, items, status, activeDownloads, db, restarts,
                   threadVars, overlapped>>

(* The end without its upsert, and without the call of ProcessQueueAsync. *)
EndSaveSkipped(t) ==
    /\ Goto(t, "endSave", "endActive")
    /\ UNCHANGED <<queueVars, cur, pending, history>>

EndActiveSilent(t) ==
    /\ pc[t] = "endActive"
    /\ activeDownloads' = activeDownloads \ {cur[t]}
    /\ Return(t)
    /\ UNCHANGED <<used, items, status, swarms, db, restarts, history>>

EndSave(t) ==
    /\ Goto(t, "endSave", "endActive")
    /\ Upsert(cur[t])
    /\ UNCHANGED <<used, items, status, activeDownloads, swarms, restarts,
                   cur, pending, history>>

EndActive(t) ==
    /\ Goto(t, "endActive", "snapshot")
    /\ activeDownloads' = activeDownloads \ {cur[t]}
    /\ UNCHANGED <<used, items, status, swarms, db, restarts, cur, pending,
                   history>>

(* UpdateProgress saves the item of a running swarm from time to time.       *)
SwarmProgress ==
    /\ \E i \in Items : swarms[i] > 0 /\ Upsert(i)
    /\ UNCHANGED <<used, items, status, activeDownloads, swarms, restarts,
                   threadVars, history>>

-----------------------------------------------------------------------------
(* The status an item is restored with when nobody thinks of the downloads   *)
(* the restart broke off. *)
RestoredAsSaved(saved) == IF saved = "absent" THEN "Queued" ELSE saved

(* The status an item is restored with; an item without a row is none.       *)
Restored(saved) == IF saved \in {"absent", "Downloading"} THEN "Queued" ELSE saved

(* The node stops at any point and starts again: Initialize.  It fills       *)
(* `items' from the table and does not call ProcessQueueAsync.               *)
Restart ==
    /\ restarts < MaxRestarts
    /\ restarts' = restarts + 1
    /\ items' = {i \in Items : db[i] # "absent"}
    /\ status' = [i \in Items |-> Restored(db[i])]
    /\ activeDownloads' = {}
    /\ swarms' = [i \in Items |-> 0]
    /\ pc' = [t \in Threads |-> "idle"]
    /\ cur' = [t \in Threads |-> Nobody]
    /\ pending' = [t \in Threads |-> {}]
    /\ UNCHANGED <<used, db, history>>

-----------------------------------------------------------------------------

Request(t) == AddToQueue(t) \/ RemoveFromQueue(t) \/ DiscoverPeer(t)

(* A thread goes on with the operation it is in.                             *)
Continue(t) ==
    \/ AddSave(t) \/ RemoveRow(t) \/ RemoveActive(t) \/ DiscoverSave(t)
    \/ Snapshot(t) \/ LoopEnds(t) \/ PickItem(t)
    \/ Begin(t) \/ BeginSave(t) \/ Launch(t)
    \/ EndSave(t) \/ EndActive(t)

SwarmEnds(t) ==
    \/ SwarmCompletes(t) \/ SwarmRequeues(t) \/ SwarmOfRemoved(t)
    \/ SwarmFails(t)

Next ==
    \/ \E t \in Threads : Request(t) \/ Continue(t) \/ SwarmEnds(t)
    \/ SwarmOfRemovedFails
    \/ SwarmProgress
    \/ Restart

Spec == Init /\ [][Next]_vars

-----------------------------------------------------------------------------
(* Properties *)

TypeOK ==
    /\ used \subseteq Items
    /\ items \subseteq Items
    /\ status \in [Items -> Statuses]
    /\ activeDownloads \subseteq Items
    /\ swarms \in [Items -> Nat]
    /\ db \in [Items -> Statuses \cup {"absent"}]
    /\ restarts \in 0 .. MaxRestarts
    /\ pc \in [Threads -> Pcs]
    /\ cur \in [Threads -> Items \cup {Nobody}]
    /\ pending \in [Threads -> SUBSET Items]
    /\ overlapped \in BOOLEAN
    /\ faults \in 0 .. MaxFaults

Quiescent ==
    /\ \A t \in Threads : pc[t] = "idle"
    /\ \A i \in Items : swarms[i] = 0

(* No wake-up is lost: when nothing runs, nothing waits.  Every operation    *)
(* that could have let an item start calls ProcessQueueAsync after it, and   *)
(* a call that gave up because of an active download is made good by the     *)
(* call that follows the end of that download.  (Until a restart, or a       *)
(* failure of the disk that nobody handles.)                                 *)
NothingStalls ==
    Quiescent /\ restarts = 0 /\ faults = 0 =>
        \A i \in items : status[i] # "Queued"

(* When nothing runs, activeDownloads holds no download that has ended: such *)
(* an entry would keep every other item waiting for ever; and no item is     *)
(* left "Downloading", which no call would ever start: neither by swarms     *)
(* that ended in whatever order, nor by a restart in the middle of one.      *)
NoGhostDownload ==
    Quiescent /\ faults = 0 =>
        /\ activeDownloads = {}
        /\ \A i \in items : status[i] # "Downloading"

(* When nothing runs, the table says of each queued item what memory says:   *)
(* whatever the order in which threads wrote Status and saved the item.      *)
SavedMatches ==
    Quiescent => \A i \in items : db[i] \in {status[i]} \cup
        (IF status[i] = "Queued" /\ restarts > 0 THEN {"Downloading"} ELSE {})

(* As long as no two calls of ProcessQueueAsync have overlapped, whatever    *)
(* else runs beside them, one item at most is downloading and none has two   *)
(* swarms, which would write the same file and row: a swarm is over before   *)
(* its item can be found queued again ...                                    *)
SerialQueue ==
    ~overlapped =>
        /\ Cardinality({i \in items : status[i] = "Downloading"}) <= 1
        /\ \A i \in Items : swarms[i] <= 1

(* ... and an item that has been downloaded is not downloaded again.         *)
FinishedIsFinal ==
    [][\A i \in Items :
         status[i] = "Finished" /\ restarts' = restarts /\ ~overlapped'
            => status'[i] = "Finished"]_vars

=============================================================================
