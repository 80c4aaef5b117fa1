--------------------------- MODULE FileListRequests ---------------------------
(***************************************************************************)
(* Requests for the file list of one remote peer: RequestRemoteFileListTcp *)
(* in Transfarr.Node/Core/NodeConnectionManager.cs.                        *)
(*                                                                         *)
(* Several UI requests may ask for the same list.  The first one puts its  *)
(* task into pendingFileListRequests and fetches the list: it shows what   *)
(* is cached, negotiates addresses through the hub (or asks to be called   *)
(* back), dials, asks and reads; the others await its task.  Calls are     *)
(* numbered, and the number of a call stands for its task and for the GUID *)
(* of its negotiation.                                                     *)
(*                                                                         *)
(* The list of the peer is a version number.                               *)
(***************************************************************************)
EXTENDS Naturals

CONSTANTS
    Callers,      \* UI requests that run at the same time
    MaxRequests,  \* bound on the requests made
    MaxVersions   \* bound on changes of the peer's list

ASSUME RequestAssumption == MaxRequests \in Nat /\ MaxVersions \in Nat

VARIABLES
    online,       \* the peer is in OnlinePeers
    remote,       \* the peer's list
    cache,        \* fileListCache: a version, or NoList
    shown,        \* the last list given to OnFilelistReceived, or NoList
    pending,      \* pendingFileListRequests: a call, or 0
    requests,     \* the number of calls that were made
    task,         \* of each call, its TaskCompletionSource: "open", or "ended" with
                  \* a result or an exception
    negotiations, \* pendingNegotiations
    asked,        \* negotiations the hub has passed on and nobody has answered
    at,           \* per caller, where it is
    my,           \* the number of its call
    awaits,       \* the call whose task it awaits
    got,          \* the list it has read
    hubFault      \* history: a call of the hub has thrown

peerVars == <<online, remote>>
listVars == <<cache, shown>>
taskVars == <<pending, requests, task>>
negVars  == <<negotiations, asked, hubFault>>
callVars == <<my, awaits, got>>
vars == <<peerVars, listVars, taskVars, negVars, at, callVars>>

Requests == 1 .. MaxRequests
Lists    == 1 .. MaxVersions + 1
NoList   == 0

Places == {"idle", "check", "await", "add", "index", "cached", "peer",
           "register", "negotiate", "answer", "dial", "callback", "ask", "read",
           "store", "show", "complete", "fail", "forget"}

(* Between TryAdd and TryRemove.                                             *)
Working(c) == at[c] \notin {"idle", "check", "await", "add", "index"}

Init ==
    /\ online \in BOOLEAN
    /\ remote = 1
    /\ cache = NoList
    /\ shown = NoList
    /\ pending = 0
    /\ requests = 0
    /\ task = [r \in Requests |-> "none"]
    /\ negotiations = {}
    /\ asked = {}
    /\ at = [c \in Callers |-> "idle"]
    /\ my = [c \in Callers |-> 0]
    /\ awaits = [c \in Callers |-> 0]
    /\ got = [c \in Callers |-> NoList]
    /\ hubFault = FALSE

Goto(c, from, to) == at[c] = from /\ at' = [at EXCEPT ![c] = to]

-----------------------------------------------------------------------------
(* One request at a time. *)

RequestRemoteFileList(c) ==
    /\ Goto(c, "idle", "check")
    /\ requests < MaxRequests
    /\ requests' = requests + 1
    /\ my' = [my EXCEPT ![c] = requests']
    /\ UNCHANGED <<peerVars, listVars, pending, task, negVars, awaits, got>>

Await(c, from) ==
    /\ pending # 0
    /\ Goto(c, from, "await")
    /\ awaits' = [awaits EXCEPT ![c] = pending]
    /\ UNCHANGED <<peerVars, listVars, taskVars, negVars, my, got>>

(* TryGetValue                                                               *)
CheckPending(c) ==
    \/ Await(c, "check")
    \/ /\ pending = 0
       /\ Goto(c, "check", "add")
       /\ UNCHANGED <<peerVars, listVars, taskVars, negVars, callVars>>

(* pendingFileListRequests[...] = tcs.Task: whoever is there is replaced. *)
AddOver(c) ==
    /\ Goto(c, "add", "cached")
    /\ pending' = my[c]
    /\ task' = [task EXCEPT ![my[c]] = "open"]
    /\ UNCHANGED <<peerVars, listVars, requests, negVars, callVars>>

(* TryAdd: another caller may have been faster.                              *)
AddPending(c) ==
    \/ /\ pending = 0
       /\ Goto(c, "add", "cached")
       /\ pending' = my[c]
       /\ task' = [task EXCEPT ![my[c]] = "open"]
       /\ UNCHANGED <<peerVars, listVars, requests, negVars, callVars>>
    \/ /\ pending # 0
       /\ Goto(c, "add", "index")
       /\ UNCHANGED <<peerVars, listVars, taskVars, negVars, callVars>>

(* pendingFileListRequests[targetPeerId] throws if the other has gone.       *)
IndexPending(c) ==
    \/ Await(c, "index")
    \/ /\ pending = 0
       /\ Goto(c, "index", "idle")
       /\ UNCHANGED <<peerVars, listVars, taskVars, negVars, callVars>>

(* The awaited task has a result or an exception.                            *)
AwaitPending(c) ==
    /\ Goto(c, "await", "idle")
    /\ task[awaits[c]] # "open"
    /\ UNCHANGED <<peerVars, listVars, taskVars, negVars, callVars>>

-----------------------------------------------------------------------------
(* Finding the peer. *)

(* "Provide cached data immediately for UI responsiveness"                   *)
ShowCached(c) ==
    /\ Goto(c, "cached", "peer")
    /\ shown' = IF cache # NoList THEN cache ELSE shown
    /\ UNCHANGED <<peerVars, cache, taskVars, negVars, callVars>>

(* return, without SetResult. *)
PeerIsGoneSilent(c) ==
    /\ ~online
    /\ Goto(c, "peer", "forget")
    /\ UNCHANGED <<peerVars, listVars, taskVars, negVars, callVars>>

PeerIsGone(c) ==
    /\ ~online
    /\ Goto(c, "peer", "forget")
    /\ task' = [task EXCEPT ![my[c]] = "ended"]
    /\ UNCHANGED <<peerVars, listVars, pending, requests, negVars, callVars>>

FindPeer(c) ==
    /\ online
    /\ \/ Goto(c, "peer", "callback")   \* targetPeer.IsPassive
       \/ Goto(c, "peer", "register")
    /\ UNCHANGED <<peerVars, listVars, taskVars, negVars, callVars>>

(* OnlinePeers is a List: a handler of the hub may change it in between.     *)
SearchFails(c) ==
    /\ Goto(c, "peer", "fail")
    /\ UNCHANGED <<peerVars, listVars, taskVars, negVars, callVars>>

(* The connect-back arrives, or the hub's method or the timer ends it.       *)
AwaitConnectBack(c) ==
    /\ \/ Goto(c, "callback", "ask")
       \/ Goto(c, "callback", "fail")
    /\ UNCHANGED <<peerVars, listVars, taskVars, negVars, callVars>>

(* One identifier for the negotiations of all requests. *)
RegisterShared(c) ==
    /\ Goto(c, "register", "negotiate")
    /\ negotiations' = negotiations \cup {0}
    /\ UNCHANGED <<peerVars, listVars, taskVars, asked, hubFault, callVars>>

RegisterNegotiation(c) ==
    /\ Goto(c, "register", "negotiate")
    /\ negotiations' = negotiations \cup {my[c]}
    /\ UNCHANGED <<peerVars, listVars, taskVars, asked, hubFault, callVars>>

(* InitiateConnectionNegotiation: passed on, or not (no hub, no such peer);  *)
(* or the call throws, and the entry stays.                                  *)
InitiateConnectionNegotiation(c) ==
    /\ \/ /\ Goto(c, "negotiate", "answer")
          /\ UNCHANGED hubFault
       \/ /\ Goto(c, "negotiate", "fail")
          /\ hubFault' = TRUE
    /\ asked' \in {asked, asked \cup {my[c]}}
    /\ UNCHANGED <<peerVars, listVars, taskVars, negotiations, callVars>>

(* OnIceCandidatesReceived, whenever the peer answers.                       *)
ReceiveCandidates(r) ==
    /\ r \in asked
    /\ asked' = asked \ {r}
    /\ negotiations' = negotiations \ {r}
    /\ UNCHANGED <<peerVars, listVars, taskVars, hubFault, at, callVars>>

(* The timer fires, and the entry is left where it is. *)
AwaitCandidatesOnly(c) ==
    /\ Goto(c, "answer", "dial")
    /\ UNCHANGED <<peerVars, listVars, taskVars, negVars, callVars>>

(* The candidates are there, or the timer fires: the entry goes either way.  *)
AwaitCandidates(c) ==
    /\ Goto(c, "answer", "dial")
    /\ negotiations' = negotiations \ {my[c]}
    /\ UNCHANGED <<peerVars, listVars, taskVars, asked, hubFault, callVars>>

(* One of the candidates can be reached (and TLS succeeds), or none.         *)
Dial(c) ==
    /\ \/ Goto(c, "dial", "ask")
       \/ Goto(c, "dial", "fail")
    /\ UNCHANGED <<peerVars, listVars, taskVars, negVars, callVars>>

-----------------------------------------------------------------------------
(* Reading the list. *)

(* SendFullFileListAsync on the other side: the list as it is by then.       *)
SendFullFileList(c) ==
    /\ Goto(c, "ask", "read")
    /\ got' = [got EXCEPT ![c] = remote]
    /\ UNCHANGED <<peerVars, listVars, taskVars, negVars, my, awaits>>

ReadList(c) ==
    /\ Goto(c, "read", "store")
    /\ UNCHANGED <<peerVars, listVars, taskVars, negVars, callVars>>

(* "Connection closed while reading ..."                                     *)
ConnectionCloses(c) ==
    /\ Goto(c, "ask", "fail") \/ Goto(c, "read", "fail")
    /\ UNCHANGED <<peerVars, listVars, taskVars, negVars, callVars>>

(* TryAdd: the first list is kept. *)
StoreListOnce(c) ==
    /\ Goto(c, "store", "show")
    /\ cache' = IF cache = NoList THEN got[c] ELSE cache
    /\ UNCHANGED <<peerVars, shown, taskVars, negVars, callVars>>

StoreList(c) ==
    /\ Goto(c, "store", "show")
    /\ cache' = got[c]
    /\ UNCHANGED <<peerVars, shown, taskVars, negVars, callVars>>

(* OnFilelistReceived, after the queue was matched with the list.            *)
ShowList(c) ==
    /\ Goto(c, "show", "complete")
    /\ shown' = got[c]
    /\ UNCHANGED <<peerVars, cache, taskVars, negVars, callVars>>

(* tcs.SetResult                                                             *)
Complete(c) ==
    /\ Goto(c, "complete", "forget")
    /\ task' = [task EXCEPT ![my[c]] = "ended"]
    /\ UNCHANGED <<peerVars, listVars, pending, requests, negVars, callVars>>

(* The catch clause, without TrySetException. *)
FailSilently(c) ==
    /\ Goto(c, "fail", "forget")
    /\ UNCHANGED <<peerVars, listVars, taskVars, negVars, callVars>>

(* The catch clause: tcs.TrySetException                                     *)
Fail(c) ==
    /\ Goto(c, "fail", "forget")
    /\ task' = [task EXCEPT ![my[c]] = "ended"]
    /\ UNCHANGED <<peerVars, listVars, pending, requests, negVars, callVars>>

(* The finally clause: the entry of the peer goes, whosever it is.           *)
ForgetPending(c) ==
    /\ Goto(c, "forget", "idle")
    /\ pending' = 0
    /\ UNCHANGED <<peerVars, listVars, requests, task, negVars, callVars>>

-----------------------------------------------------------------------------
(* The peer. *)

PeerJoined ==
    /\ ~online
    /\ online' = TRUE
    /\ UNCHANGED <<remote, listVars, taskVars, negVars, at, callVars>>

PeerLeft ==
    /\ online
    /\ online' = FALSE
    /\ cache' = NoList
    /\ UNCHANGED <<remote, shown, taskVars, negVars, at, callVars>>

(* PeerList: the hub's list replaces the node's, the cache stays.            *)
PeerList ==
    /\ online' \in BOOLEAN
    /\ UNCHANGED <<remote, listVars, taskVars, negVars, at, callVars>>

ListChanges ==
    /\ remote <= MaxVersions
    /\ remote' = remote + 1
    /\ UNCHANGED <<online, listVars, taskVars, negVars, at, callVars>>

-----------------------------------------------------------------------------

(* What the node does by itself, its timers included.                        *)
NodeStep(c) ==
    \/ CheckPending(c) \/ AddPending(c) \/ IndexPending(c) \/ AwaitPending(c)
    \/ ShowCached(c) \/ PeerIsGone(c) \/ FindPeer(c) \/ SearchFails(c)
    \/ AwaitConnectBack(c) \/ RegisterNegotiation(c) \/ InitiateConnectionNegotiation(c)
    \/ AwaitCandidates(c) \/ Dial(c)
    \/ StoreList(c) \/ ShowList(c) \/ Complete(c) \/ Fail(c)
    \/ ForgetPending(c)

(* What the other end of the connection does.                                *)
PeerStep(c) == SendFullFileList(c) \/ ReadList(c) \/ ConnectionCloses(c)

Next ==
    \/ \E c \in Callers :
         RequestRemoteFileList(c) \/ NodeStep(c) \/ PeerStep(c)
    \/ \E r \in Requests : ReceiveCandidates(r)
    \/ PeerJoined \/ PeerLeft \/ PeerList \/ ListChanges

Spec == Init /\ [][Next]_vars

(* The scheduler runs every continuation, timers fire and calls of the hub   *)
(* return.  Of the peer it is assumed that a connection it has accepted is   *)
(* served or closed at last: the reads of the list have no timeout.          *)
Fairness == \A c \in Callers : WF_vars(NodeStep(c)) /\ WF_vars(PeerStep(c))

FairSpec == Spec /\ Fairness

-----------------------------------------------------------------------------
(* Properties *)

TypeOK ==
    /\ online \in BOOLEAN
    /\ remote \in Lists
    /\ cache \in Lists \cup {NoList}
    /\ shown \in Lists \cup {NoList}
    /\ pending \in 0 .. MaxRequests
    /\ requests \in 0 .. MaxRequests
    /\ task \in [Requests -> {"none", "open", "ended"}]
    /\ negotiations \subseteq Requests
    /\ asked \subseteq Requests
    /\ at \in [Callers -> Places]
    /\ my \in [Callers -> 0 .. MaxRequests]
    /\ awaits \in [Callers -> 0 .. MaxRequests]
    /\ got \in [Callers -> Lists \cup {NoList}]
    /\ hubFault \in BOOLEAN

(* "Deduplicate inflight requests": the list is fetched by one caller at a   *)
(* time, it is the one the dictionary names, and so the finally clause,      *)
(* which asks nobody, only ever removes the entry of its own caller.         *)
OneRequestAtATime ==
    \A c \in Callers : Working(c) => pending = my[c]

(* Nobody awaits a task that no one is going to complete.                    *)
NobodyIsStranded ==
    \A c \in Callers : at[c] = "await" /\ task[awaits[c]] = "open" =>
        \E d \in Callers : Working(d) /\ at[d] # "forget" /\ my[d] = awaits[c]

(* The user never sees a list replaced by an older one, be it cached or read *)
(* by a request that was overtaken.                                          *)
ListsNeverGoBack == [][shown' >= shown]_vars

(* A negotiation is forgotten as soon as it is answered or its timer fires,  *)
(* as long as no call of the hub throws.                                     *)
Negotiating(c) == at[c] \in {"negotiate", "answer"}

NegotiationsCleared ==
    ~hubFault => \A r \in negotiations :
                     \E c \in Callers : Negotiating(c) /\ my[c] = r

(* Every request for a list ends, for those who wait for another's as well.  *)
RequestsEnd == \A c \in Callers : at[c] # "idle" ~> at[c] = "idle"

-----------------------------------------------------------------------------
(* What makes the safety properties inductive. *)

(* The numbers of running calls are their own, and the entry of the peer is  *)
(* there only as long as the call that made it.                              *)
CallsApart ==
    /\ \A c \in Callers : at[c] # "idle" => my[c] \in 1 .. requests
    /\ \A c, d \in Callers :
           at[c] # "idle" /\ at[d] # "idle" /\ c # d => my[c] # my[d]
    /\ OneRequestAtATime
    /\ pending # 0 => \E c \in Callers : Working(c)

(* A call that is about to give up its entry has completed its task.         *)
TasksCompleted ==
    /\ NobodyIsStranded
    /\ \A c \in Callers : at[c] = "await" => awaits[c] \in Requests
    /\ \A c \in Callers : at[c] = "forget" => task[my[c]] # "open"

(* The task of a call is open from the time its entry is in the dictionary   *)
(* until it is about to take it out; that of a call to come is not made, and *)
(* nobody awaits it.                                                         *)
TaskOf(c) == IF ~Working(c) THEN "none" ELSE IF at[c] = "forget" THEN "ended" ELSE "open"

TasksInPhase ==
    /\ \A r \in Requests : r > requests => task[r] = "none"
    /\ \A c \in Callers : at[c] # "idle" => task[my[c]] = TaskOf(c)
    /\ \A c \in Callers : at[c] = "await" => task[awaits[c]] # "none"

(* What was shown is never newer than what may be shown next.                *)
ListsOrdered ==
    /\ cache <= remote /\ shown <= remote
    /\ cache # NoList => shown <= cache
    /\ \A c \in Callers :
           at[c] \in {"read", "store", "show"} =>
               shown <= got[c] /\ got[c] <= remote
    /\ \A c \in Callers : at[c] = "show" => cache \in {NoList, got[c]}

Inductive ==
    CallsApart /\ TasksCompleted /\ TasksInPhase /\ ListsOrdered /\ NegotiationsCleared

-----------------------------------------------------------------------------
(* The abstract view of these calls: see SharedFetch.                        *)
Joined == [c \in Callers |-> IF at[c] = "await" THEN awaits[c] ELSE 0]

Shared == INSTANCE SharedFetch
          WITH Calls <- Requests, version <- remote, fetching <- pending,
               tasks <- task, joined <- Joined

(* "Deduplicate inflight requests": every step of the calls, of the hub and  *)
(* of the peer is one of SharedFetch: calls that overlap share one fetch,    *)
(* none returns before the fetch it has joined is completed, no two fetches  *)
(* overlap, and the user never sees a list replaced by an older one, be it   *)
(* cached or read by a request that was overtaken.                           *)
ImplementsShared == Shared!Spec

=============================================================================
