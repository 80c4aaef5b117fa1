-------------------------- MODULE DurableDownload --------------------------
(***************************************************************************)
(* What a resumable download promises, whatever its threads do: bytes are  *)
(* only ever added to a copy of the file, but that a crash may take one    *)
(* segment out of it; the saved record names nothing that was not          *)
(* received; the download is saved as finished only when all of it was     *)
(* received, and is never reopened by the node itself.                     *)
(***************************************************************************)
EXTENDS Naturals

CONSTANTS Segments,
          Folders    \* places that may hold a copy of the file

VARIABLES copies,    \* the segments each copy holds
          folder,    \* where the download goes on
          moved,     \* it has left a copy behind
          lost,      \* segments a crash has taken
          crashes,
          record,    \* segments the saved state says are finished
          verdict    \* the saved state: "absent", "pending" or "finished"

vars == <<copies, folder, moved, lost, crashes, record, verdict>>

Init ==
    /\ copies = [f \in Folders |-> {}]
    /\ folder \in Folders
    /\ moved = FALSE
    /\ lost = {}
    /\ crashes = 0
    /\ record = {}
    /\ verdict = "pending"

(* Received, and in the file (in all copies together, once one was left      *)
(* behind) unless a crash took it.                                           *)
Covered(S) ==
    S \subseteq lost \cup (IF moved THEN UNION {copies[f] : f \in Folders}
                           ELSE copies[folder])

(* Some bytes arrive, perhaps ones that were lost.                           *)
Receive ==
    /\ \E S \in SUBSET Segments :
         /\ copies' = [copies EXCEPT ![folder] = @ \cup S]
         /\ lost' = lost \ S
    /\ UNCHANGED <<folder, moved, crashes, record, verdict>>

(* The process dies, and may take the end of one segment with it.            *)
Crash ==
    /\ crashes' = crashes + 1
    /\ \/ UNCHANGED <<copies, lost>>
       \/ \E s \in Segments :
            /\ copies' = [copies EXCEPT ![folder] = @ \ {s}]
            /\ lost' = lost \cup {s}
    /\ UNCHANGED <<folder, moved, record, verdict>>

(* The progress made so far is saved, in whole or in part.                   *)
Save ==
    /\ verdict # "finished"
    /\ record' \in SUBSET Segments
    /\ Covered(record')
    /\ verdict' = "pending"

SaveProgress == Save /\ UNCHANGED <<copies, folder, moved, lost, crashes>>

(* The download goes on, where the user now wants it.                        *)
Resume ==
    /\ Save
    /\ folder' \in Folders
    /\ moved' = (moved \/ (folder' # folder /\ copies[folder] # {}))
    /\ UNCHANGED <<copies, lost, crashes>>

(* All of it was received, and is saved as such.                             *)
Finish ==
    /\ Covered(Segments)
    /\ record' \in SUBSET Segments
    /\ verdict' = "finished"
    /\ UNCHANGED <<copies, folder, moved, lost, crashes>>

(* The user drops the download; the bytes stay.                              *)
Drop ==
    /\ record' = {}
    /\ verdict' = "absent"
    /\ UNCHANGED <<copies, folder, moved, lost, crashes>>

Next == Receive \/ Crash \/ SaveProgress \/ Resume \/ Finish \/ Drop

Spec == Init /\ [][Next]_vars

=============================================================================
