----------------------------- MODULE PeerRegistry -----------------------------
(***************************************************************************)
(* Who is online: the registry of the signaling hub                        *)
(* (Transfarr.Signaling: SignalingHub, NetworkStateService) and the list   *)
(* OnlinePeers each node keeps (Transfarr.Node: NodeConnectionManager).    *)
(*                                                                         *)
(* The hub runs the calls of one connection one after the other, and those *)
(* of different connections in parallel.  What the hub sends over one      *)
(* connection arrives in the order it was sent.  The order in which a list *)
(* names the peers matters to nobody, so a list of peers is a bag.         *)
(***************************************************************************)
EXTENDS Naturals, Sequences, FiniteSets, Functions, BagsExt, Bags

CONSTANTS
    Nodes,      \* the peers, by PeerId
    Conns,      \* connection ids, each used once
    None,       \* no node, no connection, no entry
    MaxUpdates  \* bound on changes of parameters, of all nodes together

PeerInfo == [id : Nodes, version : 0 .. MaxUpdates]

ASSUME RegistryAssumption ==
    /\ None \notin Nodes \cup Conns \cup PeerInfo
    /\ IsFiniteSet(Conns)
    /\ MaxUpdates \in Nat

VARIABLES
    owner,    \* per connection, the node that opened it
    state,    \* per connection: "free", "open", "lost" (the node has left it
              \* and the hub does not know yet) or "gone"
    joinDue,  \* per connection, JoinAsNode is still to be called
    current,  \* per node, its connection to the hub, if any
    updates,  \* changes of parameters so far
    version,  \* per node, its parameters (name, address, mode): the change that
              \* gave them, 0 for those it started with
    registry, \* NetworkStateService.peers: connection -> PeerInfo
    pc,       \* per connection, where its running hub call is
    list,     \* per connection, the snapshot JoinAsNode is about to send
    chan,     \* per connection, messages on their way to the node
    online    \* per node, OnlinePeers

connVars == <<owner, state, joinDue, current, updates, version>>
hubVars  == <<registry, pc, list>>
vars == <<connVars, hubVars, chan, online>>

InfoOf(n) == [id |-> n, version |-> version[n]]

Init ==
    /\ owner = [c \in Conns |-> None]
    /\ state = [c \in Conns |-> "free"]
    /\ joinDue = [c \in Conns |-> FALSE]
    /\ current = [n \in Nodes |-> None]
    /\ updates = 0
    /\ version = [n \in Nodes |-> 0]
    /\ registry = [c \in Conns |-> None]
    /\ pc = [c \in Conns |-> "idle"]
    /\ list = [c \in Conns |-> EmptyBag]
    /\ chan = [c \in Conns |-> <<>>]
    /\ online = [n \in Nodes |-> EmptyBag]

-----------------------------------------------------------------------------
(* The node's side of the connection. *)

(* Node n leaves its connection, if it has one, and what was on its way is   *)
(* lost; it goes on with connection c, or with none.                         *)
Switch(n, c) ==
    LET old == current[n] IN
      /\ state' = [d \in Conns |-> IF d = c THEN "open"
                                   ELSE IF d = old THEN "lost" ELSE state[d]]
      /\ chan' = [d \in Conns |-> IF d = old THEN <<>> ELSE chan[d]]
      /\ current' = [current EXCEPT ![n] = c]

Open(n, c) == state[c] = "free" /\ owner' = [owner EXCEPT ![c] = n] /\ Switch(n, c)

(* ConnectToGlobalHub: dispose of the old connection, start a new one, join. *)
ConnectToGlobalHub(n) ==
    /\ \E c \in Conns : Open(n, c) /\ joinDue' = [joinDue EXCEPT ![c] = TRUE]
    /\ UNCHANGED <<updates, version, hubVars, online>>

(* The connection breaks and WithAutomaticReconnect opens another.  The      *)
(* Reconnected handler tells the UI and nothing else.                        *)
Reconnect(n) ==
    /\ current[n] # None
    /\ \E c \in Conns : Open(n, c)
    /\ UNCHANGED <<joinDue, updates, version, hubVars, online>>

(* DisconnectFromGlobalHub, the end of the process, or a connection that     *)
(* breaks and stays broken.  OnlinePeers keeps what it had.                  *)
Disconnect(n) ==
    /\ current[n] # None
    /\ Switch(n, None)
    /\ UNCHANGED <<owner, joinDue, updates, version, hubVars, online>>

-----------------------------------------------------------------------------
(* The hub's methods. *)

Goto(c, from, to) == pc[c] = from /\ pc' = [pc EXCEPT ![c] = to]

(* Clients.Others.SendAsync                                                  *)
SendOthers(c, msg) ==
    chan' = [d \in Conns |-> IF d # c /\ state[d] = "open"
                             THEN Append(chan[d], msg) ELSE chan[d]]

(* JoinAsNode: AddOrUpdatePeer ...  The call may reach the hub before the    *)
(* news that the node has left.                                              *)
JoinAsNode(c) ==
    /\ state[c] \in {"open", "lost"}
    /\ joinDue[c]
    /\ Goto(c, "idle", "list")
    /\ joinDue' = [joinDue EXCEPT ![c] = FALSE]
    /\ registry' = [registry EXCEPT ![c] = InfoOf(owner[c])]
    /\ UNCHANGED <<owner, state, current, updates, version, list, chan, online>>

(* A copy of each entry for every connection that holds it. *)
Copies(entries) == [p \in entries |-> Cardinality({d \in Conns : registry[d] = p})]

(* The list as the enumeration of a dictionary with a stale, empty entry.    *)
TakeListAll(c) ==
    /\ Goto(c, "list", "sendList")
    /\ list' = [list EXCEPT ![c] = Copies(Range(registry))]
    /\ UNCHANGED <<connVars, registry, chan, online>>

(* ... networkState.ActivePeers ...                                          *)
TakeList(c) ==
    /\ Goto(c, "list", "sendList")
    /\ list' = [list EXCEPT ![c] = Copies(Range(registry) \ {None})]
    /\ UNCHANGED <<connVars, registry, chan, online>>

(* ... Clients.Caller.SendAsync("PeerList", ...) ...                         *)
SendList(c) ==
    /\ Goto(c, "sendList", "announce")
    /\ chan' = IF state[c] = "open"
               THEN [chan EXCEPT ![c] =
                       Append(@, [type |-> "PeerList", peers |-> list[c]])]
               ELSE chan
    /\ list' = [list EXCEPT ![c] = EmptyBag]
    /\ UNCHANGED <<connVars, registry, online>>

(* ... Clients.Others.SendAsync("PeerJoined", actualPeer).                   *)
Announce(c) ==
    /\ Goto(c, "announce", "idle")
    /\ SendOthers(c, [type |-> "PeerJoined", peer |-> registry[c]])
    /\ UNCHANGED <<connVars, registry, list, online>>

(* A node's name, address or mode changes: UpdateNodeParams stores it, under *)
(* a connection that may not have joined ...                                 *)
UpdateNodeParams(n) ==
    LET c == current[n] IN
      /\ updates < MaxUpdates
      /\ c # None
      /\ updates' = updates + 1
      /\ version' = [version EXCEPT ![n] = updates']
      /\ Goto(c, "idle", "updated")
      /\ registry' = [registry EXCEPT ![c] = [id |-> n, version |-> version'[n]]]
      /\ UNCHANGED <<owner, state, joinDue, current, list, chan, online>>

(* ... and tells the others.                                                 *)
SendUpdated(c) ==
    /\ Goto(c, "updated", "idle")
    /\ SendOthers(c, [type |-> "PeerUpdated", peer |-> registry[c]])
    /\ UNCHANGED <<connVars, registry, list, online>>

(* OnDisconnectedAsync, which SignalR runs after the calls of that           *)
(* connection: the entry of the connection is removed ...                    *)
HubDisconnected(c) ==
    /\ state[c] = "lost"
    /\ registry[c] # None
    /\ Goto(c, "idle", "left")
    /\ registry' = [registry EXCEPT ![c] = None]
    /\ UNCHANGED <<connVars, list, chan, online>>

(* ... and the others are told the PeerId of its owner.                      *)
SendLeft(c) ==
    /\ Goto(c, "left", "idle")
    /\ SendOthers(c, [type |-> "PeerLeft", id |-> owner[c]])
    /\ state' = [state EXCEPT ![c] = "gone"]
    /\ UNCHANGED <<owner, joinDue, current, updates, version, registry, list, online>>

(* The entry of a lost connection is left behind. *)
HubForgetsEntry(c) ==
    /\ state[c] = "lost"
    /\ pc[c] = "idle"
    /\ state' = [state EXCEPT ![c] = "gone"]
    /\ UNCHANGED <<owner, joinDue, current, updates, version, hubVars, chan, online>>

(* A connection that never joined goes silently.                             *)
HubForgets(c) ==
    /\ state[c] = "lost"
    /\ pc[c] = "idle"
    /\ registry[c] = None
    /\ state' = [state EXCEPT ![c] = "gone"]
    /\ UNCHANGED <<owner, joinDue, current, updates, version, hubVars, chan, online>>

-----------------------------------------------------------------------------
(* The node's handlers for the messages of the hub. *)

Named(peers, id) == {p \in BagToSet(peers) : p.id = id}

(* The handlers with a test forgotten: no look for a duplicate, the old      *)
(* entry removed and the new one not inserted, whoever comes first removed.  *)
PeerJoinedUnchecked(peers, p) == {BagAdd(peers, p)}
PeerUpdatedDrops(peers, p) ==
    {BagRemove(peers, old) : old \in Named(peers, p.id)}
PeerLeftUnchecked(peers, id) ==
    {BagRemove(peers, p) : p \in BagToSet(peers)}

(* What each may make of OnlinePeers; a handler that finds nobody of that id *)
(* leaves the list alone.                                                    *)
PeerJoined(peers, p) ==
    {IF Named(peers, p.id) = {} THEN BagAdd(peers, p) ELSE peers}

PeerUpdated(peers, p) ==
    {BagAdd(BagRemove(peers, old), p) : old \in Named(peers, p.id)}

PeerLeft(peers, id) == {BagRemove(peers, p) : p \in Named(peers, id)}

Handle(peers, msg) ==
    CASE msg.type = "PeerList"    -> {msg.peers}
      [] msg.type = "PeerJoined"  -> PeerJoined(peers, msg.peer)
      [] msg.type = "PeerUpdated" -> PeerUpdated(peers, msg.peer)
      [] msg.type = "PeerLeft"    -> PeerLeft(peers, msg.id)

Receive(n) ==
    LET c == current[n] IN
      /\ c # None
      /\ chan[c] # <<>>
      /\ LET after == Handle(online[n], Head(chan[c])) IN
           IF after = {} THEN UNCHANGED online
           ELSE \E peers \in after : online' = [online EXCEPT ![n] = peers]
      /\ chan' = [chan EXCEPT ![c] = Tail(@)]
      /\ UNCHANGED <<connVars, hubVars>>

-----------------------------------------------------------------------------

HubStep(c) ==
    \/ JoinAsNode(c) \/ TakeList(c) \/ SendList(c) \/ Announce(c)
    \/ SendUpdated(c)
    \/ HubDisconnected(c) \/ SendLeft(c) \/ HubForgets(c)

NodeStep(n) ==
    \/ ConnectToGlobalHub(n) \/ Reconnect(n) \/ Disconnect(n)
    \/ UpdateNodeParams(n) \/ Receive(n)

Next == (\E c \in Conns : HubStep(c)) \/ (\E n \in Nodes : NodeStep(n))

Spec == Init /\ [][Next]_vars

-----------------------------------------------------------------------------
(* Properties *)

(* A list of peers, and a message of the hub. *)
IsPeerList(peers) == IsABag(peers) /\ BagToSet(peers) \subseteq PeerInfo
IsMessage(msg) ==
    \/ msg.type = "PeerList" /\ IsPeerList(msg.peers)
    \/ msg.type \in {"PeerJoined", "PeerUpdated"} /\ msg.peer \in PeerInfo
    \/ msg.type = "PeerLeft" /\ msg.id \in Nodes

TypeOK ==
    /\ owner \in [Conns -> Nodes \cup {None}]
    /\ state \in [Conns -> {"free", "open", "lost", "gone"}]
    /\ joinDue \in [Conns -> BOOLEAN]
    /\ current \in [Nodes -> Conns \cup {None}]
    /\ updates \in 0 .. MaxUpdates
    /\ version \in [Nodes -> 0 .. MaxUpdates]
    /\ registry \in [Conns -> PeerInfo \cup {None}]
    /\ pc \in [Conns -> {"idle", "list", "sendList", "announce", "updated", "left"}]
    /\ \A c \in Conns : IsPeerList(list[c])
    /\ \A c \in Conns : \A msg \in Range(chan[c]) : IsMessage(msg)
    /\ \A n \in Nodes : IsPeerList(online[n])

Registered == {registry[c].id : c \in {d \in Conns : registry[d] # None}}
Seen(n)    == {p.id : p \in BagToSet(online[n])}

(* Nothing is on its way: the hub has finished its calls and noticed every   *)
(* lost connection, and each node has handled what it was sent.              *)
Settled ==
    \A c \in Conns :
        /\ pc[c] = "idle"
        /\ state[c] # "lost"
        /\ chan[c] = <<>>
        /\ state[c] = "open" => ~joinDue[c]

(* No node has come back on a second connection.                             *)
NobodyReturned ==
    \A c, d \in Conns : owner[c] # None /\ owner[c] = owner[d] => c = d

Joined(n) == current[n] # None /\ registry[current[n]] # None

(* However joins and departures overlap, of two nodes that have joined at    *)
(* least one knows the other once things have settled: the one whose         *)
(* AddOrUpdatePeer came later finds the other in its snapshot.               *)
OneSeesTheOther ==
    Settled /\ NobodyReturned =>
        \A m, n \in Nodes : Joined(m) /\ Joined(n) => m \in Seen(n) \/ n \in Seen(m)

(* The bag names nobody twice. *)
Distinct(peers) ==
    \A p, q \in BagToSet(peers) : p.id = q.id => p = q /\ peers[p] = 1

(* A node lists another once, although it may find it in the snapshot and    *)
(* have it announced as well.  (NobodyReturned leaves out the snapshot that  *)
(* itself names a node twice, because the hub has not yet noticed that one   *)
(* of its two connections is lost: such a list does name it twice.)          *)
ListedOnce ==
    NobodyReturned => \A n \in Nodes : Distinct(online[n])

(* The registry forgets dead connections: whatever entry a connection has,   *)
(* made or replaced by JoinAsNode or UpdateNodeParams after its node had     *)
(* gone, OnDisconnectedAsync removes it.  (SignalR runs it after the calls   *)
(* of the connection: the code relies on that and so does the model.)        *)
NoDeadEntry ==
    \A c \in Conns : registry[c] # None /\ pc[c] = "idle" =>
        state[c] \in {"open", "lost"}

(* A node connected to the hub is known to it: "Automatic connection         *)
(* management and retry logic for the global discovery network".             *)
ConnectedIsRegistered ==
    Settled => \A n \in Nodes : current[n] # None => n \in Registered

=============================================================================
