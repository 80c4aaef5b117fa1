----------------------------- MODULE SharedFetch -----------------------------
(***************************************************************************)
(* What the calls for one list promise together, however they overlap: one *)
(* of them fetches at a time, and completes its task once before another   *)
(* begins; whoever joins a fetch leaves when that task is completed, not   *)
(* before; and what is shown of the list only ever moves forward, by the   *)
(* hand of the call that fetches.                                          *)
(***************************************************************************)
EXTENDS Naturals

CONSTANTS Callers, Calls  \* who calls, and the numbers of the calls

VARIABLES version,   \* the list, by its version
          shown,     \* the last version shown, or 0
          fetching,  \* the call that fetches, or 0
          tasks,     \* of each call: "none", "open" or "ended"
          joined     \* the call whose fetch each caller has joined, or 0

vars == <<version, shown, fetching, tasks, joined>>

Init ==
    /\ version = 1
    /\ shown = 0
    /\ fetching = 0
    /\ tasks = [r \in Calls |-> "none"]
    /\ joined = [c \in Callers |-> 0]

(* A call that has not fetched yet begins to. *)
Begin(r) ==
    /\ fetching = 0
    /\ tasks[r] = "none"
    /\ fetching' = r
    /\ tasks' = [tasks EXCEPT ![r] = "open"]
    /\ UNCHANGED <<version, shown, joined>>

Fetching == fetching # 0 /\ tasks[fetching] = "open"

Show ==
    /\ Fetching
    /\ shown' \in shown .. version
    /\ UNCHANGED <<version, fetching, tasks, joined>>

Complete ==
    /\ Fetching
    /\ tasks' = [tasks EXCEPT ![fetching] = "ended"]
    /\ UNCHANGED <<version, shown, fetching, joined>>

End ==
    /\ fetching # 0 /\ tasks[fetching] = "ended"
    /\ fetching' = 0
    /\ UNCHANGED <<version, shown, tasks, joined>>

Join(c) ==
    /\ joined[c] = 0 /\ fetching # 0
    /\ joined' = [joined EXCEPT ![c] = fetching]
    /\ UNCHANGED <<version, shown, fetching, tasks>>

Leave(c) ==
    /\ joined[c] # 0 /\ tasks[joined[c]] = "ended"
    /\ joined' = [joined EXCEPT ![c] = 0]
    /\ UNCHANGED <<version, shown, fetching, tasks>>

Change ==
    /\ version' = version + 1
    /\ UNCHANGED <<shown, fetching, tasks, joined>>

Next ==
    \/ \E r \in Calls : Begin(r)
    \/ \E c \in Callers : Join(c) \/ Leave(c)
    \/ Show \/ Complete \/ End \/ Change

Spec == Init /\ [][Next]_vars

=============================================================================
