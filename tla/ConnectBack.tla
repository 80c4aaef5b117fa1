----------------------------- MODULE ConnectBack -----------------------------
(***************************************************************************)
(* Downloading from a passive peer.  The downloader (DownloadManager and   *)
(* NodeConnectionManager) leaves a waiter in pendingReverseConnections,    *)
(* asks the peer through the hub to connect back, and waits for a limited  *)
(* time.  The uploader (OnConnectBackRequested, HandlePreConnectedClient)  *)
(* connects, says CB_READY and waits for the request.  The downloader's    *)
(* TransferServer receives CB_READY and raises OnReverseConnectionReceived.*)
(*                                                                         *)
(* One connection belongs to each attempt: it is named after the attempt   *)
(* whose request made the uploader open it, and may be handed to another.  *)
(***************************************************************************)
EXTENDS Naturals, Sequences, SequencesExt

CONSTANTS
    Attempts,    \* calls that wait for a connection of the peer
    Want,        \* what each asks for: a segment [kind |-> "SW", offset |-> o]
                 \* or the file list [kind |-> "LIST"]
    None,        \* no attempt, no connection
    Shared,      \* hashes of the files the uploader shares
    Public,      \* does the connection cross a public address?
    MaxConnects  \* bound on calls of ConnectToGlobalHub

(* reqId = $"SW_{item.Tth}_{offset}", fileListHash = "ADL_LIST_" + peer: the *)
(* identifier an attempt waits under names what it wants.                    *)
ReqId(a) == Want[a]
ReqIds == {Want[a] : a \in Attempts}

ASSUME ConnectBackAssumption ==
    /\ None \notin Attempts
    /\ Public \in BOOLEAN
    /\ MaxConnects \in Nat

VARIABLES
    connected,   \* hub.State == Connected at the downloader
    subscribed,  \* handlers on OnReverseConnectionReceived
    pending,     \* pendingReverseConnections: id -> waiter
    at,          \* per attempt, where it is
    tcs,         \* per attempt, the result of its TaskCompletionSource
    sock,        \* per connection, the downloader's TcpClient
    handlers,    \* per connection, event handlers still to run
    inbox,       \* hub messages the uploader has not yet taken up
    up,          \* per connection, where the uploader's handler is
    request,     \* per connection, the request line on its way to the uploader
    late         \* history: some timer has fired before what it waited for

downVars == <<connected, subscribed, pending, at, tcs>>
vars == <<downVars, sock, handlers, inbox, up, request, late>>

Init ==
    /\ connected = FALSE
    /\ subscribed = 0
    /\ pending = [id \in ReqIds |-> None]
    /\ at = [a \in Attempts |-> "idle"]
    /\ tcs = [a \in Attempts |-> None]
    /\ sock = [c \in Attempts |-> "none"]
    /\ handlers = [c \in Attempts |-> 0]
    /\ inbox = <<>>
    /\ up = [c \in Attempts |-> "idle"]
    /\ request = [c \in Attempts |-> None]
    /\ late = FALSE

Goto(a, from, to) == at[a] = from /\ at' = [at EXCEPT ![a] = to]
Over(a) == at[a] \in {"served", "failed", "timedout", "refused"}

-----------------------------------------------------------------------------
(* The downloader's hub connection. *)

(* ConnectToGlobalHub: SetupHubEvents subscribes to the transfer server,     *)
(* every time.                                                               *)
ConnectToGlobalHub ==
    /\ subscribed < MaxConnects
    /\ connected' = TRUE
    /\ subscribed' = subscribed + 1
    /\ UNCHANGED <<pending, at, tcs, sock, handlers, inbox, up, request,
                   late>>

DisconnectFromGlobalHub ==
    /\ connected
    /\ connected' = FALSE
    /\ UNCHANGED <<subscribed, pending, at, tcs, sock, handlers, inbox, up,
                   request, late>>

-----------------------------------------------------------------------------
(* An attempt of the downloader. *)

(* The waiter is registered.  Nobody asks twice at once for the same thing:  *)
(* segments are claimed (Swarm!SegmentsExclusive), and                       *)
(* pendingFileListRequests lets one file list request through.               *)
Register(a) ==
    /\ \A b \in Attempts : Want[b] = Want[a] => at[b] = "idle" \/ Over(b)
    /\ Goto(a, "idle", "ask")
    /\ pending' = [pending EXCEPT ![ReqId(a)] = a]
    /\ UNCHANGED <<connected, subscribed, tcs, sock, handlers, inbox, up,
                   request, late>>

(* RequestConnectBack, if there is a connection to the hub.  The hub relays  *)
(* it, unless it does not know the peer or the node.                         *)
Ask(a) ==
    /\ Goto(a, "ask", "waiting")
    /\ \/ connected /\ inbox' = Append(inbox, a)
       \/ UNCHANGED inbox
    /\ UNCHANGED <<connected, subscribed, pending, tcs, sock, handlers, up,
                   request, late>>

(* The awaited call of the hub throws, perhaps after the hub has relayed the *)
(* request: the attempt is over at once.  Its waiter stays registered.       *)
AskThrows(a) ==
    /\ connected
    /\ Goto(a, "ask", "refused")
    /\ inbox' \in {inbox, Append(inbox, a)}
    /\ UNCHANGED <<connected, subscribed, pending, tcs, sock, handlers, up,
                   request, late>>

(* Task.WhenAny returns the connection ...                                   *)
Win(a) ==
    /\ tcs[a] # None
    /\ Goto(a, "waiting", "won")
    /\ UNCHANGED <<connected, subscribed, pending, tcs, sock, handlers,
                   inbox, up, request, late>>

(* ... or the delay: the attempt is given up.  Its waiter stays registered.  *)
Timeout(a) ==
    /\ tcs[a] = None
    /\ Goto(a, "waiting", "timedout")
    /\ late' = TRUE
    /\ UNCHANGED <<connected, subscribed, pending, tcs, sock, handlers,
                   inbox, up, request>>

(* The request line names the byte after the first one of the segment. *)
SendRequestOffByOne(a) ==
    /\ Goto(a, "won", "reading")
    /\ sock[tcs[a]] = "open"
    /\ request' = [request EXCEPT ![tcs[a]] =
                     IF Want[a].kind = "LIST" THEN Want[a]
                     ELSE [Want[a] EXCEPT !.offset = @ + 1]]
    /\ UNCHANGED <<connected, subscribed, pending, tcs, sock, handlers,
                   inbox, up, late>>

(* The request line is written to the connection, if it is still open.       *)
SendRequest(a) ==
    /\ at[a] = "won"
    /\ \/ /\ sock[tcs[a]] = "open"
          /\ Goto(a, "won", "reading")
          /\ request' = [request EXCEPT ![tcs[a]] = Want[a]]
       \/ /\ sock[tcs[a]] # "open"
          /\ Goto(a, "won", "failed")
          /\ UNCHANGED request
    /\ UNCHANGED <<connected, subscribed, pending, tcs, sock, handlers,
                   inbox, up, late>>

(* The answer, or the end of the stream; "using (client)" closes the socket. *)
ReadAnswer(a) ==
    /\ at[a] = "reading"
    /\ \/ up[tcs[a]] = "answered" /\ Goto(a, "reading", "served")
       \/ up[tcs[a]] = "closed" /\ Goto(a, "reading", "failed")
       \/ sock[tcs[a]] # "open" /\ Goto(a, "reading", "failed")
    /\ sock' = [sock EXCEPT ![tcs[a]] = "disposed"]
    /\ UNCHANGED <<connected, subscribed, pending, tcs, handlers, inbox, up,
                   request, late>>

-----------------------------------------------------------------------------
(* The uploader.  The hub client dispatches one message at a time and awaits *)
(* its handler, so a connect-back that is being served holds up the next.    *)

UploaderFree == \A c \in Attempts : up[c] \in {"idle", "closed", "answered"}

(* A candidate address can be reached: the connection is open ...            *)
ConnectBack ==
    /\ inbox # <<>>
    /\ UploaderFree
    /\ sock' = [sock EXCEPT ![Head(inbox)] = "accepted"]
    /\ up' = [up EXCEPT ![Head(inbox)] = "secure"]
    /\ inbox' = Tail(inbox)
    /\ UNCHANGED <<downVars, handlers, request, late>>

(* ... or none can.                                                          *)
CandidatesFail ==
    /\ inbox # <<>>
    /\ UploaderFree
    /\ inbox' = Tail(inbox)
    /\ late' = TRUE
    /\ UNCHANGED <<downVars, sock, handlers, up, request>>

(* AuthenticateAs... at either end when the other end's address is public.   *)
UploaderRole   == IF Public THEN "server" ELSE "plain"
DownloaderRole == IF Public THEN "server" ELSE "plain"

HandshakeCompletes ==
    <<UploaderRole, DownloaderRole>> \in
        {<<"plain", "plain">>, <<"server", "client">>, <<"client", "server">>}

SendCbReady(c) ==
    /\ up[c] = "secure"
    /\ HandshakeCompletes
    /\ up' = [up EXCEPT ![c] = "await"]
    /\ UNCHANGED <<downVars, sock, handlers, inbox, request, late>>

(* GetLocalPathsByTth(fileHash): fileHash is the identifier of the           *)
(* connect-back request, not the hash in the request line.                   *)
FileFound(c) == ReqId(c) \in Shared

(* Only a file that is found is answered, and nothing else closes. *)
HandleRequestSilent(c) ==
    /\ up[c] = "await"
    /\ request[c] # None
    /\ FileFound(c)
    /\ up' = [up EXCEPT ![c] = "answered"]
    /\ UNCHANGED <<downVars, sock, handlers, inbox, request, late>>

(* The request line arrives and is answered, or nothing is sent; either way  *)
(* the connection is closed.                                                 *)
HandleRequest(c) ==
    /\ up[c] = "await"
    /\ request[c] # None
    /\ up' = [up EXCEPT ![c] =
                IF request[c].kind = "LIST" \/ FileFound(c)
                THEN "answered" ELSE "closed"]
    /\ UNCHANGED <<downVars, sock, handlers, inbox, request, late>>

(* reqLine == null: the downloader has closed the connection.                *)
SeeEndOfStream(c) ==
    /\ up[c] = "await"
    /\ request[c] = None
    /\ sock[c] = "disposed"
    /\ up' = [up EXCEPT ![c] = "closed"]
    /\ UNCHANGED <<downVars, sock, handlers, inbox, request, late>>

-----------------------------------------------------------------------------
(* The downloader's transfer server. *)

(* The finally block of HandleClientAsync disposes what was handed off. *)
ReadCbReadyDisposes(c) ==
    /\ sock[c] = "accepted"
    /\ up[c] = "await"
    /\ sock' = [sock EXCEPT ![c] = "disposed"]
    /\ handlers' = [handlers EXCEPT ![c] = subscribed]
    /\ UNCHANGED <<downVars, inbox, up, request, late>>

(* CB_READY is read: the event is raised, and every handler will run.        *)
ReadCbReady(c) ==
    /\ sock[c] = "accepted"
    /\ up[c] = "await"
    /\ sock' = [sock EXCEPT ![c] = "open"]
    /\ handlers' = [handlers EXCEPT ![c] = subscribed]
    /\ UNCHANGED <<downVars, inbox, up, request, late>>

(* HandleReverseConnection, once per handler.                                *)
HandleReverseConnection(c) ==
    /\ handlers[c] > 0
    /\ handlers' = [handlers EXCEPT ![c] = @ - 1]
    /\ LET waiter == pending[ReqId(c)] IN
         \/ /\ waiter # None
            /\ pending' = [pending EXCEPT ![ReqId(c)] = None]
            /\ tcs' = [tcs EXCEPT ![waiter] = c]
            /\ UNCHANGED sock
         \/ /\ waiter = None
            /\ sock' = [sock EXCEPT ![c] = "disposed"]
            /\ UNCHANGED <<pending, tcs>>
    /\ UNCHANGED <<connected, subscribed, at, inbox, up, request, late>>

(* The collector may close a socket that nothing refers to any more.         *)
Unreachable(c) ==
    /\ sock[c] = "open"
    /\ handlers[c] = 0
    /\ \A a \in Attempts : tcs[a] = c => Over(a)

Finalize(c) ==
    /\ Unreachable(c)
    /\ sock' = [sock EXCEPT ![c] = "disposed"]
    /\ UNCHANGED <<downVars, handlers, inbox, up, request, late>>

-----------------------------------------------------------------------------

AttemptStep(a) ==
    \/ Ask(a) \/ AskThrows(a)
    \/ Win(a) \/ Timeout(a)
    \/ SendRequest(a) \/ ReadAnswer(a)

ConnectionStep(c) ==
    \/ SendCbReady(c) \/ HandleRequest(c) \/ SeeEndOfStream(c)
    \/ ReadCbReady(c) \/ HandleReverseConnection(c)

Next ==
    \/ ConnectToGlobalHub
    \/ DisconnectFromGlobalHub
    \/ \E a \in Attempts :
         Register(a) \/ AttemptStep(a) \/ ConnectionStep(a) \/ Finalize(a)
    \/ ConnectBack
    \/ CandidatesFail

Spec == Init /\ [][Next]_vars

(* Every awaited operation that can complete does, and the timers fire.      *)
(* Nobody is obliged to begin an attempt, nor the collector to collect.      *)
Fairness ==
    /\ \A a \in Attempts : WF_vars(AttemptStep(a)) /\ WF_vars(ConnectionStep(a))
    /\ WF_vars(ConnectBack \/ CandidatesFail)

FairSpec == Spec /\ Fairness

-----------------------------------------------------------------------------
(* Properties *)

TypeOK ==
    /\ connected \in BOOLEAN
    /\ subscribed \in 0 .. MaxConnects
    /\ pending \in [ReqIds -> Attempts \cup {None}]
    /\ at \in [Attempts -> {"idle", "ask", "waiting", "won", "reading",
                            "served", "failed", "timedout", "refused"}]
    /\ tcs \in [Attempts -> Attempts \cup {None}]
    /\ sock \in [Attempts -> {"none", "accepted", "open", "disposed"}]
    /\ handlers \in [Attempts -> 0 .. MaxConnects]
    /\ inbox \in Seq(Attempts)
    /\ up \in [Attempts -> {"idle", "secure", "await", "answered", "closed"}]
    /\ request \in [Attempts -> {None} \cup ReqIds]
    /\ late \in BOOLEAN

(* A connection that was handed off is open when its waiter takes it over:   *)
(* "DO NOT DISPOSE. Handed off."  It is, however attempts, timers and late   *)
(* connections interleave, as long as the node has connected to a hub only   *)
(* once: every further call subscribes one more handler to the event.        *)
HandedIsOpen ==
    subscribed <= 1 =>
        \A a \in Attempts : at[a] = "won" => sock[tcs[a]] = "open"

(* What the hub has relayed is served, unless a timer fires, the event has   *)
(* two handlers, or the call of the hub that relayed it threw afterwards.    *)
Served(kind) ==
    \A a \in {b \in Attempts : Want[b].kind = kind} :
        (\E i \in DOMAIN inbox : inbox[i] = a) ~>
            (at[a] \in {"served", "refused"} \/ late \/ subscribed > 1)

ListsAreServed    == Served("LIST")
SegmentsAreServed == Served("SW")

(* An uploader that took up a connect-back is free again some day, and can   *)
(* take up the next message of the hub: late connections, repeated connects  *)
(* and calls of the hub that throw included.  One thing alone can hold it up *)
(* (266): a connection taken over by a waiter that had given up, which       *)
(* nobody closes but the collector.                                          *)
UploaderComesFree == []<>(UploaderFree \/ \E c \in Attempts : Unreachable(c))

(* Every attempt ends: no waiter waits for ever.                             *)
AttemptsEnd == \A a \in Attempts : at[a] # "idle" ~> Over(a)

=============================================================================
