------------------------- MODULE PeerRegistryProofs -------------------------
(***************************************************************************)
(* Theorems about PeerRegistry, for any number of nodes, connections and   *)
(* changes of parameters.                                                  *)
(***************************************************************************)
EXTENDS PeerRegistry, FiniteSetTheorems, SequenceTheorems, TLAPS

(***************************************************************************)
(* Bags of peers, and what the handlers of a node make of them.            *)
(***************************************************************************)
PeerBags == UNION {[S -> {k \in Nat : k > 0}] : S \in SUBSET PeerInfo}

LEMMA BagsArePeerLists == \A peers : peers \in PeerBags <=> IsPeerList(peers)
<1>1. ASSUME NEW peers, peers \in PeerBags PROVE IsPeerList(peers)
  BY <1>1 DEF PeerBags, IsPeerList, IsABag, BagToSet
<1>2. ASSUME NEW peers, IsPeerList(peers) PROVE peers \in PeerBags
  BY <1>2 DEF PeerBags, IsPeerList, IsABag, BagToSet
<1>. QED
  BY <1>1, <1>2

LEMMA EmptyBagIsPeerBag == EmptyBag \in PeerBags /\ DOMAIN EmptyBag = {}
<1>1. EmptyBag = [e \in {} |-> 1]
  BY DEF EmptyBag, SetToBag
<1>2. DOMAIN EmptyBag = {} /\ EmptyBag \in [{} -> {k \in Nat : k > 0}]
  BY <1>1
<1>. QED
  BY <1>2 DEF PeerBags

LEMMA AddedBag ==
  ASSUME NEW peers \in PeerBags, NEW p \in PeerInfo
  PROVE  /\ BagAdd(peers, p) \in PeerBags
         /\ DOMAIN BagAdd(peers, p) = DOMAIN peers \cup {p}
         /\ \A q \in DOMAIN peers : q # p => BagAdd(peers, p)[q] = peers[q]
         /\ p \notin DOMAIN peers => BagAdd(peers, p)[p] = 1
<1>. DEFINE S == DOMAIN peers
<1>1. S \in SUBSET PeerInfo /\ peers \in [S -> {k \in Nat : k > 0}]
  BY DEF PeerBags
<1>2. CASE p \in S
  <2>1. BagAdd(peers, p) = [e \in S |-> IF e = p THEN peers[e] + 1 ELSE peers[e]]
    BY <1>2 DEF BagAdd
  <2>2. BagAdd(peers, p) \in [S -> {k \in Nat : k > 0}]
    BY <2>1, <1>1
  <2>. QED
    BY <2>1, <2>2, <1>1, <1>2 DEF PeerBags
<1>3. CASE p \notin S
  <2>1. BagAdd(peers, p) = [e \in S \cup {p} |-> IF e = p THEN 1 ELSE peers[e]]
    BY <1>3 DEF BagAdd
  <2>2. BagAdd(peers, p) \in [S \cup {p} -> {k \in Nat : k > 0}]
    BY <2>1, <1>1
  <2>3. S \cup {p} \in SUBSET PeerInfo
    BY <1>1
  <2>. QED
    BY <2>1, <2>2, <2>3, <1>1, <1>3 DEF PeerBags
<1>. QED
  BY <1>2, <1>3

LEMMA RemovedBag ==
  ASSUME NEW peers \in PeerBags, NEW p \in DOMAIN peers
  PROVE  /\ BagRemove(peers, p) \in PeerBags
         /\ DOMAIN peers \ {p} \subseteq DOMAIN BagRemove(peers, p)
         /\ DOMAIN BagRemove(peers, p) \subseteq DOMAIN peers
         /\ \A q \in DOMAIN peers : q # p => BagRemove(peers, p)[q] = peers[q]
         /\ peers[p] = 1 => p \notin DOMAIN BagRemove(peers, p)
<1>. DEFINE S == DOMAIN peers
<1>1. S \in SUBSET PeerInfo /\ peers \in [S -> {k \in Nat : k > 0}]
  BY DEF PeerBags
<1>2. CASE peers[p] = 1
  <2>1. BagRemove(peers, p) = [e \in S \ {p} |-> peers[e]]
    BY <1>2 DEF BagRemove
  <2>2. BagRemove(peers, p) \in [S \ {p} -> {k \in Nat : k > 0}]
    BY <2>1, <1>1
  <2>3. S \ {p} \in SUBSET PeerInfo
    BY <1>1
  <2>. QED
    BY <2>1, <2>2, <2>3, <1>1 DEF PeerBags
<1>3. CASE peers[p] # 1
  <2>1. BagRemove(peers, p) = [e \in S |-> IF e = p THEN peers[e] - 1 ELSE peers[e]]
    BY <1>3 DEF BagRemove
  <2>2. peers[p] \in Nat /\ peers[p] > 1
    BY <1>1, <1>3
  <2>3. BagRemove(peers, p) \in [S -> {k \in Nat : k > 0}]
    BY <2>1, <2>2, <1>1
  <2>. QED
    BY <2>1, <2>3, <1>1, <1>3 DEF PeerBags
<1>. QED
  BY <1>2, <1>3

LEMMA SnapshotBag ==
  ASSUME registry \in [Conns -> PeerInfo \cup {None}]
  PROVE  Copies(Range(registry) \ {None}) \in PeerBags
<1>. DEFINE S == Range(registry) \ {None}
            In(p) == {d \in Conns : registry[d] = p}
<1>1. S \in SUBSET PeerInfo
  BY DEF Range
<1>2. ASSUME NEW p \in S PROVE Cardinality(In(p)) \in Nat /\ Cardinality(In(p)) > 0
  <2>1. IsFiniteSet(In(p))
    BY RegistryAssumption, FS_Subset
  <2>2. In(p) # {}
    BY DEF Range
  <2>. QED
    BY <2>1, <2>2, FS_CardinalityType, FS_EmptySet
<1>3. Copies(S) = [p \in S |-> Cardinality(In(p))]
  BY DEF Copies
<1>4. Copies(S) \in [S -> {k \in Nat : k > 0}]
  BY <1>2, <1>3
<1>. QED
  BY <1>1, <1>4 DEF PeerBags

(* The bag has a peer of that id.                                          *)
Names(peers, id) == \E p \in BagToSet(peers) : p.id = id

Messages ==
    [type : {"PeerList"}, peers : PeerBags]
        \cup [type : {"PeerJoined", "PeerUpdated"}, peer : PeerInfo]
        \cup [type : {"PeerLeft"}, id : Nodes]

IsList(msg) == msg.type = "PeerList"

LEMMA MessagesAre ==
  ASSUME NEW msg \in Messages
  PROVE  /\ IsMessage(msg)
         /\ \/ msg.type = "PeerList" /\ msg.peers \in PeerBags
            \/ msg.type = "PeerJoined" /\ msg.peer \in PeerInfo
            \/ msg.type = "PeerUpdated" /\ msg.peer \in PeerInfo
            \/ msg.type = "PeerLeft" /\ msg.id \in Nodes
<1>1. \/ msg.type = "PeerList" /\ msg.peers \in PeerBags
      \/ msg.type = "PeerJoined" /\ msg.peer \in PeerInfo
      \/ msg.type = "PeerUpdated" /\ msg.peer \in PeerInfo
      \/ msg.type = "PeerLeft" /\ msg.id \in Nodes
  BY DEF Messages
<1>. QED
  BY <1>1, BagsArePeerLists DEF IsMessage

LEMMA HandledAre ==
  ASSUME NEW peers, NEW msg \in Messages
  PROVE  /\ msg.type = "PeerList" => Handle(peers, msg) = {msg.peers}
         /\ msg.type = "PeerJoined" => Handle(peers, msg) = PeerJoined(peers, msg.peer)
         /\ msg.type = "PeerUpdated" => Handle(peers, msg) = PeerUpdated(peers, msg.peer)
         /\ msg.type = "PeerLeft" => Handle(peers, msg) = PeerLeft(peers, msg.id)
BY DEF Handle

LEMMA HandledIsTyped ==
  ASSUME NEW peers \in PeerBags, NEW msg \in Messages, NEW after \in Handle(peers, msg)
  PROVE  after \in PeerBags
<1>1. CASE msg.type = "PeerList"
  BY <1>1, HandledAre, MessagesAre
<1>2. CASE msg.type = "PeerJoined"
  <2>1. after \in {peers, BagAdd(peers, msg.peer)}
    BY <1>2, HandledAre DEF PeerJoined
  <2>. QED
    BY <1>2, <2>1, MessagesAre, AddedBag
<1>3. CASE msg.type = "PeerUpdated"
  <2>1. PICK old \in DOMAIN peers : after = BagAdd(BagRemove(peers, old), msg.peer)
    BY <1>3, HandledAre DEF PeerUpdated, Named, BagToSet
  <2>2. BagRemove(peers, old) \in PeerBags /\ msg.peer \in PeerInfo
    BY <1>3, RemovedBag, MessagesAre
  <2>. QED
    BY <2>1, <2>2, AddedBag
<1>4. CASE msg.type = "PeerLeft"
  <2>1. PICK p \in DOMAIN peers : after = BagRemove(peers, p)
    BY <1>4, HandledAre DEF PeerLeft, Named, BagToSet
  <2>. QED
    BY <2>1, RemovedBag
<1>. QED
  BY <1>1, <1>2, <1>3, <1>4, MessagesAre

(* No handler puts a second entry of a peer into a list that had one.      *)
LEMMA HandledIsDistinct ==
  ASSUME NEW peers \in PeerBags, Distinct(peers),
         NEW msg \in Messages, IsList(msg) => Distinct(msg.peers),
         NEW after \in Handle(peers, msg)
  PROVE  Distinct(after)
<1>. USE DEF BagToSet, Named
<1>1. CASE msg.type = "PeerList"
  BY <1>1, HandledAre DEF IsList
<1>2. CASE msg.type = "PeerJoined"
  <2>. DEFINE p == msg.peer
  <2>1. CASE Named(peers, p.id) = {}
    <3>1. after = BagAdd(peers, p) /\ p \in PeerInfo
      BY <1>2, <2>1, HandledAre, MessagesAre DEF PeerJoined
    <3>2. \A q \in DOMAIN peers : q.id # p.id
      BY <2>1
    <3>3. p \notin DOMAIN peers
      BY <3>2
    <3>4. /\ DOMAIN after = DOMAIN peers \cup {p}
          /\ after[p] = 1
          /\ \A q \in DOMAIN peers : after[q] = peers[q]
      BY <3>1, <3>3, AddedBag
    <3>. HIDE DEF p
    <3>. QED
      BY <3>2, <3>4 DEF Distinct
  <2>2. CASE Named(peers, p.id) # {}
    BY <1>2, <2>2, HandledAre DEF PeerJoined
  <2>. QED
    BY <2>1, <2>2
<1>3. CASE msg.type = "PeerUpdated"
  <2>. DEFINE p == msg.peer
  <2>1. PICK old \in DOMAIN peers :
               old.id = p.id /\ after = BagAdd(BagRemove(peers, old), p)
    BY <1>3, HandledAre DEF PeerUpdated
  <2>. DEFINE rest == BagRemove(peers, old)
  <2>2. p \in PeerInfo
    BY <1>3, MessagesAre
  <2>3. peers[old] = 1 /\ \A q \in DOMAIN peers : q.id = p.id => q = old
    BY <2>1 DEF Distinct
  <2>4. rest \in PeerBags
    BY <2>1, RemovedBag
  <2>5. DOMAIN rest = DOMAIN peers \ {old} /\ \A q \in DOMAIN rest : rest[q] = peers[q]
    <3>1. /\ DOMAIN peers \ {old} \subseteq DOMAIN rest
          /\ DOMAIN rest \subseteq DOMAIN peers
          /\ \A q \in DOMAIN peers : q # old => rest[q] = peers[q]
          /\ peers[old] = 1 => old \notin DOMAIN rest
      BY <2>1, RemovedBag
    <3>. HIDE DEF rest
    <3>. QED
      BY <2>3, <3>1
  <2>6. p \notin DOMAIN rest
    <3>. HIDE DEF rest
    <3>. QED
      BY <2>3, <2>5
  <2>7. after = BagAdd(rest, p)
    BY <2>1
  <2>. HIDE DEF rest, p
  <2>8. /\ DOMAIN after = DOMAIN rest \cup {p}
        /\ after[p] = 1
        /\ \A q \in DOMAIN rest : after[q] = rest[q]
    BY <2>2, <2>4, <2>6, <2>7, AddedBag
  <2>9. \A q \in DOMAIN rest : q \in DOMAIN peers /\ q.id # p.id /\ after[q] = peers[q]
    BY <2>3, <2>5, <2>8
  <2>. QED
    BY <2>8, <2>9 DEF Distinct
<1>4. CASE msg.type = "PeerLeft"
  <2>1. PICK p \in DOMAIN peers : after = BagRemove(peers, p)
    BY <1>4, HandledAre DEF PeerLeft
  <2>2. peers[p] = 1
    BY DEF Distinct
  <2>3. /\ DOMAIN after = DOMAIN peers \ {p}
        /\ \A q \in DOMAIN after : after[q] = peers[q]
    BY <2>1, <2>2, RemovedBag
  <2>. QED
    BY <2>3 DEF Distinct
<1>. QED
  BY <1>1, <1>2, <1>3, <1>4, MessagesAre

(* Only a new list, or the news that a peer has left, takes it out.        *)
LEMMA HandledKeeps ==
  ASSUME NEW peers \in PeerBags, NEW id, Names(peers, id),
         NEW msg \in Messages, ~IsList(msg), msg.type = "PeerLeft" => msg.id # id,
         NEW after \in Handle(peers, msg)
  PROVE  Names(after, id)
<1>. USE DEF BagToSet, Named, Names, IsList
<1>1. PICK q \in DOMAIN peers : q.id = id
  OBVIOUS
<1>2. CASE msg.type = "PeerJoined"
  <2>1. after \in {peers, BagAdd(peers, msg.peer)} /\ msg.peer \in PeerInfo
    BY <1>2, HandledAre, MessagesAre DEF PeerJoined
  <2>2. q \in DOMAIN after
    BY <2>1, AddedBag
  <2>. QED
    BY <1>1, <2>2
<1>3. CASE msg.type = "PeerUpdated"
  <2>. DEFINE p == msg.peer
  <2>1. PICK old \in DOMAIN peers :
               old.id = p.id /\ after = BagAdd(BagRemove(peers, old), p)
    BY <1>3, HandledAre DEF PeerUpdated
  <2>. DEFINE rest == BagRemove(peers, old)
  <2>2. p \in PeerInfo /\ rest \in PeerBags /\ DOMAIN peers \ {old} \subseteq DOMAIN rest
    BY <1>3, RemovedBag, MessagesAre
  <2>3. after = BagAdd(rest, p)
    BY <2>1
  <2>. HIDE DEF rest, p
  <2>4. DOMAIN after = DOMAIN rest \cup {p}
    BY <2>2, <2>3, AddedBag
  <2>. QED
    BY <1>1, <2>1, <2>2, <2>4
<1>4. CASE msg.type = "PeerLeft"
  <2>1. PICK p \in DOMAIN peers : p.id = msg.id /\ after = BagRemove(peers, p)
    BY <1>4, HandledAre DEF PeerLeft
  <2>2. DOMAIN peers \ {p} \subseteq DOMAIN after
    BY <2>1, RemovedBag
  <2>. QED
    BY <1>1, <1>4, <2>1, <2>2
<1>. QED
  BY <1>2, <1>3, <1>4, MessagesAre

(***************************************************************************)
(* Types, and which connection is whose.                                   *)
(***************************************************************************)
Typed ==
    /\ owner \in [Conns -> Nodes \cup {None}]
    /\ state \in [Conns -> {"free", "open", "lost", "gone"}]
    /\ joinDue \in [Conns -> BOOLEAN]
    /\ current \in [Nodes -> Conns \cup {None}]
    /\ updates \in 0 .. MaxUpdates
    /\ version \in [Nodes -> 0 .. MaxUpdates]
    /\ registry \in [Conns -> PeerInfo \cup {None}]
    /\ pc \in [Conns -> {"idle", "list", "sendList", "announce", "updated", "left"}]
    /\ list \in [Conns -> PeerBags]
    /\ chan \in [Conns -> Seq(Messages)]
    /\ online \in [Nodes -> PeerBags]

LEMMA TypedIsTypeOK == Typed => TypeOK
<1>. SUFFICES ASSUME Typed PROVE TypeOK
  OBVIOUS
<1>1. ASSUME NEW c \in Conns, NEW msg \in Range(chan[c]) PROVE IsMessage(msg)
  <2>1. msg \in Messages
    BY DEF Typed, Range
  <2>. QED
    BY <2>1, MessagesAre
<1>2. /\ \A c \in Conns : IsPeerList(list[c])
      /\ \A n \in Nodes : IsPeerList(online[n])
  BY BagsArePeerLists DEF Typed
<1>. QED
  BY <1>1, <1>2 DEF Typed, TypeOK

(* A node's connection is the open one among those it has opened; only open  *)
(* connections carry messages.                                               *)
ConnectionsApart ==
    /\ \A c \in Conns :
         /\ state[c] = "free" <=> owner[c] = None
         /\ state[c] = "free" => ~joinDue[c]
         /\ state[c] = "open" => current[owner[c]] = c
         /\ state[c] # "open" => chan[c] = <<>>
    /\ \A n \in Nodes : current[n] # None =>
         state[current[n]] = "open" /\ owner[current[n]] = n

(* A connection has an entry while the hub is at work on a call of it, until *)
(* OnDisconnectedAsync removes it; the entry is that of its owner.           *)
EntriesInUse ==
    \A c \in Conns :
        /\ state[c] \in {"free", "gone"} => pc[c] = "idle" /\ registry[c] = None
        /\ pc[c] \in {"list", "sendList", "announce", "updated"} => registry[c] # None
        /\ pc[c] = "left" => registry[c] = None /\ state[c] = "lost"
        /\ registry[c] # None => registry[c].id = owner[c]

Basis == Typed /\ ConnectionsApart /\ EntriesInUse

LEMMA SendingToOthers ==
  ASSUME NEW c \in Conns, NEW msg \in Messages,
         chan \in [Conns -> Seq(Messages)], SendOthers(c, msg)
  PROVE  /\ chan' \in [Conns -> Seq(Messages)]
         /\ \A d \in Conns : \/ chan'[d] = chan[d]
                             \/ state[d] = "open" /\ d # c /\ chan'[d] = Append(chan[d], msg)
BY AppendProperties DEF SendOthers

LEMMA Switching ==
  ASSUME Basis, NEW n \in Nodes, NEW c \in Conns \cup {None}, Switch(n, c),
         c # None => state[c] = "free"
  PROVE  /\ state' \in [Conns -> {"free", "open", "lost", "gone"}]
         /\ chan' \in [Conns -> Seq(Messages)]
         /\ current' \in [Nodes -> Conns \cup {None}]
         /\ current'[n] = c /\ \A m \in Nodes : m # n => current'[m] = current[m]
         /\ c # None => state'[c] = "open" /\ chan'[c] = <<>>
         /\ \A d \in Conns : d # c =>
              IF d = current[n] THEN state'[d] = "lost" /\ chan'[d] = <<>>
                                ELSE state'[d] = state[d] /\ chan'[d] = chan[d]
<1>1. None \notin Conns
  BY RegistryAssumption
<1>2. c # None => c # current[n] /\ chan[c] = <<>>
  BY <1>1 DEF Basis, ConnectionsApart
<1>3. <<>> \in Seq(Messages)
  BY EmptySeq
<1>. QED
  BY <1>1, <1>2, <1>3 DEF Switch, Basis, Typed

LEMMA OpeningKeepsBasis ==
  ASSUME Basis, NEW n \in Nodes, NEW c \in Conns, Open(n, c),
         joinDue' \in [Conns -> BOOLEAN], \A d \in Conns : d # c => joinDue'[d] = joinDue[d],
         UNCHANGED <<updates, version, hubVars, online>>
  PROVE  Basis'
<1>1. None \notin Conns /\ None \notin Nodes
  BY RegistryAssumption
<1>2. state[c] = "free" /\ Switch(n, c) /\ owner' = [owner EXCEPT ![c] = n]
  BY DEF Open
<1>3. /\ state' \in [Conns -> {"free", "open", "lost", "gone"}]
      /\ chan' \in [Conns -> Seq(Messages)]
      /\ current' \in [Nodes -> Conns \cup {None}]
      /\ current'[n] = c /\ \A m \in Nodes : m # n => current'[m] = current[m]
      /\ state'[c] = "open" /\ chan'[c] = <<>>
      /\ \A d \in Conns : d # c =>
           IF d = current[n] THEN state'[d] = "lost" /\ chan'[d] = <<>>
                             ELSE state'[d] = state[d] /\ chan'[d] = chan[d]
  BY <1>1, <1>2, Switching
<1>4. owner' \in [Conns -> Nodes \cup {None}] /\ owner'[c] = n
      /\ \A d \in Conns : d # c => owner'[d] = owner[d]
  BY <1>2 DEF Basis, Typed
<1>5. Typed'
  BY <1>3, <1>4 DEF Basis, Typed, hubVars
<1>6. ConnectionsApart'
  <2>1. ASSUME NEW d \in Conns
        PROVE  /\ state'[d] = "free" <=> owner'[d] = None
               /\ state'[d] = "free" => ~joinDue'[d]
               /\ state'[d] = "open" => current'[owner'[d]] = d
               /\ state'[d] # "open" => chan'[d] = <<>>
    BY <1>1, <1>3, <1>4 DEF Basis, Typed, ConnectionsApart
  <2>2. ASSUME NEW m \in Nodes, current'[m] # None
        PROVE  state'[current'[m]] = "open" /\ owner'[current'[m]] = m
    <3>1. CASE m = n
      BY <3>1, <1>3, <1>4
    <3>2. CASE m # n
      <4>. DEFINE d == current[m]
      <4>1. current'[m] = d /\ d \in Conns
        BY <2>2, <3>2, <1>3 DEF Basis, Typed
      <4>2. state[d] = "open" /\ owner[d] = m
        BY <4>1, <1>1 DEF Basis, ConnectionsApart
      <4>3. d # c /\ d # current[n]
        BY <4>1, <4>2, <3>2, <1>1, <1>2 DEF Basis, ConnectionsApart
      <4>. QED
        BY <4>1, <4>2, <4>3, <1>3, <1>4
    <3>. QED
      BY <3>1, <3>2
  <2>. QED
    BY <2>1, <2>2 DEF ConnectionsApart
<1>7. EntriesInUse'
  <2>1. \A d \in Conns : state'[d] \in {"free", "gone"} => state[d] \in {"free", "gone"}
    BY <1>3 DEF Basis, Typed
  <2>2. \A d \in Conns : state[d] = "lost" => state'[d] = "lost"
    <3>. SUFFICES ASSUME NEW d \in Conns, state[d] = "lost" PROVE state'[d] = "lost"
      OBVIOUS
    <3>1. d # c
      BY <1>2
    <3>. QED
      BY <1>3, <3>1
  <2>3. registry[c] = None
    BY <1>2 DEF Basis, EntriesInUse
  <2>. QED
    BY <1>4, <2>1, <2>2, <2>3 DEF Basis, EntriesInUse, hubVars
<1>. QED
  BY <1>5, <1>6, <1>7 DEF Basis

LEMMA HubStepKeepsBasis ==
  ASSUME Basis, NEW c \in Conns, HubStep(c)
  PROVE  Basis'
<1>0. None \notin Conns /\ None \notin Nodes /\ None \notin PeerInfo
  BY RegistryAssumption
<1>. USE DEF Basis
<1>1. CASE JoinAsNode(c)
  <2>1. owner[c] \in Nodes /\ state[c] \in {"open", "lost"} /\ pc[c] = "idle"
    BY <1>1 DEF JoinAsNode, Goto, Typed, ConnectionsApart
  <2>2. InfoOf(owner[c]) \in PeerInfo /\ InfoOf(owner[c]).id = owner[c]
    BY <2>1 DEF InfoOf, PeerInfo, Typed
  <2>3. Typed'
    BY <1>1, <2>2 DEF Typed, JoinAsNode, Goto
  <2>4. ConnectionsApart'
    BY <1>1, <2>1 DEF Typed, ConnectionsApart, JoinAsNode
  <2>5. EntriesInUse'
    BY <1>0, <1>1, <2>1, <2>2 DEF Typed, EntriesInUse, JoinAsNode, Goto
  <2>. QED
    BY <2>3, <2>4, <2>5
<1>2. CASE TakeList(c)
  <2>1. Typed'
    BY <1>2, SnapshotBag DEF Typed, TakeList, Goto, connVars
  <2>2. ConnectionsApart'
    BY <1>2 DEF ConnectionsApart, TakeList, connVars
  <2>3. EntriesInUse'
    BY <1>2 DEF Typed, EntriesInUse, TakeList, Goto, connVars
  <2>. QED
    BY <2>1, <2>2, <2>3
<1>3. CASE SendList(c)
  <2>. DEFINE msg == [type |-> "PeerList", peers |-> list[c]]
  <2>1. msg \in Messages
    BY DEF Typed, Messages
  <2>2. /\ chan' \in [Conns -> Seq(Messages)]
        /\ \A d \in Conns : state[d] # "open" => chan'[d] = chan[d]
    BY <1>3, <2>1, AppendProperties DEF SendList, Typed
  <2>3. Typed'
    BY <1>3, <2>2, EmptyBagIsPeerBag DEF Typed, SendList, Goto, connVars
  <2>4. ConnectionsApart'
    BY <1>3, <2>2 DEF ConnectionsApart, SendList, connVars
  <2>5. EntriesInUse'
    BY <1>3 DEF Typed, EntriesInUse, SendList, Goto, connVars
  <2>. QED
    BY <2>3, <2>4, <2>5
<1>4. CASE Announce(c) \/ SendUpdated(c)
  <2>1. PICK kind \in {"PeerJoined", "PeerUpdated"} :
               SendOthers(c, [type |-> kind, peer |-> registry[c]])
    BY <1>4 DEF Announce, SendUpdated
  <2>. DEFINE msg == [type |-> kind, peer |-> registry[c]]
  <2>2. registry[c] \in PeerInfo
    BY <1>4 DEF Announce, SendUpdated, Goto, EntriesInUse, Typed
  <2>3. msg \in Messages
    BY <2>2 DEF Messages
  <2>4. /\ chan' \in [Conns -> Seq(Messages)]
        /\ \A d \in Conns : state[d] # "open" => chan'[d] = chan[d]
    BY <2>1, <2>3, SendingToOthers DEF Typed
  <2>5. /\ UNCHANGED <<connVars, registry, list, online>>
        /\ pc' = [pc EXCEPT ![c] = "idle"]
    BY <1>4 DEF Announce, SendUpdated, Goto
  <2>6. Typed'
    BY <2>4, <2>5 DEF Typed, connVars
  <2>7. ConnectionsApart'
    BY <2>4, <2>5 DEF ConnectionsApart, connVars
  <2>8. EntriesInUse'
    BY <1>4, <2>5 DEF Typed, EntriesInUse, connVars, Announce, SendUpdated, Goto
  <2>. QED
    BY <2>6, <2>7, <2>8
<1>5. CASE HubDisconnected(c)
  <2>1. Typed'
    BY <1>5 DEF Typed, HubDisconnected, Goto, connVars
  <2>2. ConnectionsApart'
    BY <1>5 DEF ConnectionsApart, HubDisconnected, connVars
  <2>3. EntriesInUse'
    BY <1>5 DEF Typed, EntriesInUse, HubDisconnected, Goto, connVars
  <2>. QED
    BY <2>1, <2>2, <2>3
<1>6. CASE SendLeft(c)
  <2>. DEFINE msg == [type |-> "PeerLeft", id |-> owner[c]]
  <2>1. state[c] = "lost" /\ registry[c] = None /\ owner[c] \in Nodes
    BY <1>6 DEF SendLeft, Goto, EntriesInUse, ConnectionsApart, Typed
  <2>2. msg \in Messages
    BY <2>1 DEF Messages
  <2>3. /\ chan' \in [Conns -> Seq(Messages)]
        /\ \A d \in Conns : state[d] # "open" => chan'[d] = chan[d]
    BY <1>6, <2>2, SendingToOthers DEF Typed, SendLeft
  <2>4. Typed'
    BY <1>6, <2>3 DEF Typed, SendLeft, Goto
  <2>5. ConnectionsApart'
    BY <1>6, <2>1, <2>3 DEF Typed, ConnectionsApart, SendLeft
  <2>6. EntriesInUse'
    BY <1>6, <2>1 DEF Typed, EntriesInUse, SendLeft, Goto
  <2>. QED
    BY <2>4, <2>5, <2>6
<1>7. CASE HubForgets(c)
  <2>1. Typed'
    BY <1>7 DEF Typed, HubForgets, hubVars
  <2>2. ConnectionsApart'
    BY <1>7 DEF Typed, ConnectionsApart, HubForgets
  <2>3. EntriesInUse'
    BY <1>7 DEF Typed, EntriesInUse, HubForgets, hubVars
  <2>. QED
    BY <2>1, <2>2, <2>3
<1>. QED
  BY <1>1, <1>2, <1>3, <1>4, <1>5, <1>6, <1>7 DEF HubStep

LEMMA NodeStepKeepsBasis ==
  ASSUME Basis, NEW n \in Nodes, NodeStep(n)
  PROVE  Basis'
<1>0. None \notin Conns /\ None \notin Nodes /\ None \notin PeerInfo
  BY RegistryAssumption
<1>1. CASE ConnectToGlobalHub(n)
  <2>1. PICK c \in Conns : Open(n, c) /\ joinDue' = [joinDue EXCEPT ![c] = TRUE]
    BY <1>1 DEF ConnectToGlobalHub
  <2>2. /\ joinDue' \in [Conns -> BOOLEAN]
        /\ \A d \in Conns : d # c => joinDue'[d] = joinDue[d]
    BY <2>1 DEF Basis, Typed
  <2>. QED
    BY <1>1, <2>1, <2>2, OpeningKeepsBasis DEF ConnectToGlobalHub
<1>2. CASE Reconnect(n)
  <2>1. PICK c \in Conns : Open(n, c)
    BY <1>2 DEF Reconnect
  <2>2. joinDue' = joinDue /\ joinDue' \in [Conns -> BOOLEAN]
    BY <1>2 DEF Basis, Typed, Reconnect
  <2>. QED
    BY <1>2, <2>1, <2>2, OpeningKeepsBasis DEF Reconnect
<1>3. CASE Disconnect(n)
  <2>1. /\ current[n] # None /\ Switch(n, None)
        /\ UNCHANGED <<owner, joinDue, updates, version, hubVars, online>>
    BY <1>3 DEF Disconnect
  <2>2. /\ state' \in [Conns -> {"free", "open", "lost", "gone"}]
        /\ chan' \in [Conns -> Seq(Messages)]
        /\ current' \in [Nodes -> Conns \cup {None}]
        /\ current'[n] = None /\ \A m \in Nodes : m # n => current'[m] = current[m]
        /\ \A d \in Conns :
             IF d = current[n] THEN state'[d] = "lost" /\ chan'[d] = <<>>
                               ELSE state'[d] = state[d] /\ chan'[d] = chan[d]
    BY <1>0, <2>1, Switching
  <2>3. Typed'
    BY <2>1, <2>2 DEF Basis, Typed, hubVars
  <2>4. ConnectionsApart'
    <3>1. ASSUME NEW d \in Conns
          PROVE  /\ state'[d] = "free" <=> owner'[d] = None
                 /\ state'[d] = "free" => ~joinDue'[d]
                 /\ state'[d] = "open" => current'[owner'[d]] = d
                 /\ state'[d] # "open" => chan'[d] = <<>>
      BY <1>0, <2>1, <2>2 DEF Basis, Typed, ConnectionsApart
    <3>2. ASSUME NEW m \in Nodes, current'[m] # None
          PROVE  state'[current'[m]] = "open" /\ owner'[current'[m]] = m
      <4>. DEFINE d == current[m]
      <4>1. m # n /\ current'[m] = d /\ d \in Conns
        BY <3>2, <2>2 DEF Basis, Typed
      <4>2. state[d] = "open" /\ owner[d] = m
        BY <4>1, <1>0 DEF Basis, ConnectionsApart
      <4>3. d # current[n]
        BY <4>1, <4>2, <1>0, <2>1 DEF Basis, ConnectionsApart
      <4>. QED
        BY <4>1, <4>2, <4>3, <2>1, <2>2
    <3>. QED
      BY <3>1, <3>2 DEF ConnectionsApart
  <2>5. EntriesInUse'
    <3>1. \A d \in Conns :
            /\ state'[d] \in {"free", "gone"} => state[d] \in {"free", "gone"}
            /\ state[d] = "lost" => state'[d] = "lost"
      BY <2>2
    <3>. QED
      BY <2>1, <3>1 DEF Basis, EntriesInUse, hubVars
  <2>. QED
    BY <2>3, <2>4, <2>5 DEF Basis
<1>4. CASE UpdateNodeParams(n)
  <2>. DEFINE c == current[n]
              info == [id |-> n, version |-> updates + 1]
  <2>1. c \in Conns /\ state[c] = "open" /\ owner[c] = n /\ pc[c] = "idle"
    BY <1>4 DEF UpdateNodeParams, Goto, Basis, Typed, ConnectionsApart
  <2>2. /\ updates < MaxUpdates /\ updates' = updates + 1
        /\ version' = [version EXCEPT ![n] = updates + 1]
        /\ registry' = [registry EXCEPT ![c] = [id |-> n, version |-> version'[n]]]
        /\ pc' = [pc EXCEPT ![c] = "updated"]
        /\ UNCHANGED <<owner, state, joinDue, current, list, chan, online>>
    BY <1>4 DEF UpdateNodeParams, Goto
  <2>3. updates' \in 0 .. MaxUpdates /\ version'[n] = updates + 1
    BY <2>2, RegistryAssumption DEF Basis, Typed
  <2>4. info \in PeerInfo /\ registry' = [registry EXCEPT ![c] = info]
    BY <2>2, <2>3 DEF PeerInfo
  <2>5. Typed'
    BY <2>1, <2>2, <2>3, <2>4 DEF Basis, Typed
  <2>6. ConnectionsApart'
    BY <2>2 DEF Basis, ConnectionsApart
  <2>7. EntriesInUse'
    <3>1. info # None /\ info.id = owner[c]
      BY <1>0, <2>1, <2>4
    <3>. HIDE DEF c, info
    <3>. QED
      BY <2>1, <2>2, <2>4, <3>1 DEF Basis, Typed, EntriesInUse
  <2>. QED
    BY <2>5, <2>6, <2>7 DEF Basis
<1>5. CASE Receive(n)
  <2>. DEFINE c == current[n]
              msg == Head(chan[c])
  <2>1. /\ c # None /\ chan[c] # <<>>
        /\ \/ UNCHANGED online
           \/ \E peers \in Handle(online[n], msg) : online' = [online EXCEPT ![n] = peers]
        /\ chan' = [chan EXCEPT ![c] = Tail(@)]
        /\ UNCHANGED <<connVars, hubVars>>
    BY <1>5 DEF Receive
  <2>2. c \in Conns /\ state[c] = "open" /\ chan[c] \in Seq(Messages)
    BY <2>1 DEF Basis, Typed, ConnectionsApart
  <2>3. msg \in Messages /\ Tail(chan[c]) \in Seq(Messages)
    BY <2>1, <2>2, HeadTailProperties
  <2>4. online' \in [Nodes -> PeerBags]
    <3>1. online[n] \in PeerBags
      BY DEF Basis, Typed
    <3>. HIDE DEF msg
    <3>2. \A peers \in Handle(online[n], msg) : peers \in PeerBags
      BY <3>1, <2>3, HandledIsTyped
    <3>. QED
      BY <2>1, <3>2 DEF Basis, Typed
  <2>5. Typed'
    BY <2>1, <2>2, <2>3, <2>4 DEF Basis, Typed, connVars, hubVars
  <2>6. ConnectionsApart'
    BY <2>1, <2>2 DEF Basis, Typed, ConnectionsApart, connVars
  <2>7. EntriesInUse'
    BY <2>1 DEF Basis, EntriesInUse, connVars, hubVars
  <2>. QED
    BY <2>5, <2>6, <2>7 DEF Basis
<1>. QED
  BY <1>1, <1>2, <1>3, <1>4, <1>5 DEF NodeStep

LEMMA BasisStarts == Init => Basis
<1>. SUFFICES ASSUME Init PROVE Basis
  OBVIOUS
<1>1. <<>> \in Seq(Messages) /\ EmptyBag \in PeerBags /\ None \notin Conns
  BY EmptySeq, EmptyBagIsPeerBag, RegistryAssumption
<1>2. Typed
  BY <1>1, RegistryAssumption DEF Init, Typed
<1>. QED
  BY <1>2 DEF Init, Basis, ConnectionsApart, EntriesInUse

LEMMA BasisSteps == Basis /\ [Next]_vars => Basis'
<1>. SUFFICES ASSUME Basis, [Next]_vars PROVE Basis'
  OBVIOUS
<1>1. CASE UNCHANGED vars
  BY <1>1 DEF vars, connVars, hubVars, Basis, Typed, ConnectionsApart, EntriesInUse
<1>. QED
  BY <1>1, HubStepKeepsBasis, NodeStepKeepsBasis DEF Next

LEMMA BasisHolds == Spec => []Basis
BY BasisStarts, BasisSteps, PTL DEF Spec

(* Nodes, connections, entries and messages are of the kinds the hub and the *)
(* nodes handle, for any number of them.                                     *)
THEOREM TypesHold == Spec => []TypeOK
<1>1. Basis => TypeOK
  BY TypedIsTypeOK DEF Basis
<1>. QED
  BY <1>1, BasisHolds, PTL

(* OnDisconnectedAsync finds and removes whatever entry its connection has,  *)
(* also one that a late call put there.                                      *)
THEOREM NoneLeftBehind == Spec => []NoDeadEntry
<1>1. Basis => NoDeadEntry
  BY DEF Basis, Typed, EntriesInUse, NoDeadEntry
<1>. QED
  BY <1>1, BasisHolds, PTL

(***************************************************************************)
(* What is on its way.                                                     *)
(***************************************************************************)
LEMMA MessagesOnTheWay ==
  ASSUME NEW s \in Seq(Messages)
  PROVE  /\ Range(s) = {s[i] : i \in 1 .. Len(s)} /\ Range(s) \subseteq Messages
         /\ \A msg \in Messages : Range(Append(s, msg)) = Range(s) \cup {msg}
         /\ s # <<>> => /\ Head(s) = s[1] /\ 1 \in 1 .. Len(s) /\ Head(s) \in Range(s)
                        /\ Range(Tail(s)) \subseteq Range(s)
                        /\ Range(s) \subseteq Range(Tail(s)) \cup {Head(s)}
<1>1. Range(s) = {s[i] : i \in 1 .. Len(s)} /\ Range(s) \subseteq Messages
  BY DEF Range
<1>2. ASSUME NEW msg \in Messages PROVE Range(Append(s, msg)) = Range(s) \cup {msg}
  <2>1. /\ Append(s, msg) \in Seq(Messages) /\ Len(Append(s, msg)) = Len(s) + 1
        /\ \A i \in 1 .. Len(s) : Append(s, msg)[i] = s[i]
        /\ Append(s, msg)[Len(s) + 1] = msg
    BY AppendProperties
  <2>2. Range(Append(s, msg)) = {Append(s, msg)[i] : i \in 1 .. Len(s) + 1}
    BY <2>1 DEF Range
  <2>. QED
    BY <1>1, <2>1, <2>2
<1>3. ASSUME s # <<>>
      PROVE  /\ Head(s) = s[1] /\ 1 \in 1 .. Len(s) /\ Head(s) \in Range(s)
             /\ Range(Tail(s)) \subseteq Range(s)
             /\ Range(s) \subseteq Range(Tail(s)) \cup {Head(s)}
  <2>1. /\ Head(s) = s[1] /\ Tail(s) \in Seq(Messages) /\ Len(Tail(s)) = Len(s) - 1
        /\ \A i \in 1 .. Len(Tail(s)) : Tail(s)[i] = s[i + 1]
    BY <1>3, HeadTailProperties
  <2>2. Len(s) \in Nat /\ Len(s) > 0
    BY <1>3
  <2>3. Range(Tail(s)) = {s[i + 1] : i \in 1 .. Len(s) - 1}
    <3>1. DOMAIN Tail(s) = 1 .. Len(s) - 1
      BY <2>1
    <3>2. \A i \in 1 .. Len(s) - 1 : Tail(s)[i] = s[i + 1]
      BY <2>1
    <3>. QED
      BY <3>1, <3>2 DEF Range
  <2>4. ASSUME NEW i \in 1 .. Len(s), i # 1 PROVE s[i] \in Range(Tail(s))
    <3>1. i - 1 \in 1 .. Len(s) - 1 /\ s[i] = s[(i - 1) + 1]
      BY <2>4, <2>2
    <3>. QED
      BY <3>1, <2>3
  <2>. QED
    BY <1>1, <2>1, <2>2, <2>3, <2>4
<1>. QED
  BY <1>1, <1>2, <1>3

LEMMA NothingOnTheWay == Range(<<>>) = {}
BY DEF Range

(* One message at most is a list.                                          *)
OneList(s) == \A i, j \in 1 .. Len(s) : IsList(s[i]) /\ IsList(s[j]) => i = j
NoList(s)  == \A msg \in Range(s) : ~IsList(msg)

LEMMA ListsOnTheWay ==
  ASSUME NEW s \in Seq(Messages), OneList(s)
  PROVE  /\ \A msg \in Messages : ~IsList(msg) \/ NoList(s) => OneList(Append(s, msg))
         /\ s # <<>> => OneList(Tail(s)) /\ (IsList(Head(s)) => NoList(Tail(s)))
<1>1. ASSUME NEW msg \in Messages, ~IsList(msg) \/ NoList(s) PROVE OneList(Append(s, msg))
  <2>1. /\ Len(Append(s, msg)) = Len(s) + 1
        /\ \A i \in 1 .. Len(s) : Append(s, msg)[i] = s[i] /\ s[i] \in Range(s)
        /\ Append(s, msg)[Len(s) + 1] = msg
    BY AppendProperties, MessagesOnTheWay
  <2>2. ASSUME NEW i \in 1 .. Len(s) + 1, NEW j \in 1 .. Len(s) + 1,
               IsList(Append(s, msg)[i]), IsList(Append(s, msg)[j])
        PROVE  i = j
    <3>1. CASE i \in 1 .. Len(s) /\ j \in 1 .. Len(s)
      BY <3>1, <2>1, <2>2 DEF OneList
    <3>2. CASE i = Len(s) + 1 /\ j \in 1 .. Len(s)
      BY <3>2, <1>1, <2>1, <2>2 DEF NoList
    <3>3. CASE j = Len(s) + 1 /\ i \in 1 .. Len(s)
      BY <3>3, <1>1, <2>1, <2>2 DEF NoList
    <3>. QED
      BY <3>1, <3>2, <3>3
  <2>. QED
    BY <2>1, <2>2 DEF OneList
<1>2. ASSUME s # <<>> PROVE OneList(Tail(s)) /\ (IsList(Head(s)) => NoList(Tail(s)))
  <2>1. /\ Head(s) = s[1] /\ Tail(s) \in Seq(Messages) /\ Len(Tail(s)) = Len(s) - 1
        /\ \A i \in 1 .. Len(Tail(s)) : Tail(s)[i] = s[i + 1]
    BY <1>2, HeadTailProperties
  <2>2. Len(s) \in Nat /\ Len(s) > 0
    BY <1>2
  <2>3. ASSUME NEW i \in 1 .. Len(Tail(s)), NEW j \in 1 .. Len(Tail(s)),
               IsList(Tail(s)[i]), IsList(Tail(s)[j])
        PROVE  i = j
    <3>1. i + 1 \in 1 .. Len(s) /\ j + 1 \in 1 .. Len(s) /\ IsList(s[i + 1]) /\ IsList(s[j + 1])
      BY <2>1, <2>2, <2>3
    <3>2. i + 1 = j + 1
      BY <3>1 DEF OneList
    <3>. QED
      BY <3>2
  <2>4. ASSUME IsList(Head(s)), NEW msg \in Range(Tail(s)), IsList(msg) PROVE FALSE
    <3>1. PICK i \in 1 .. Len(Tail(s)) : msg = Tail(s)[i]
      BY <2>1, <2>4 DEF Range
    <3>2. i + 1 \in 1 .. Len(s) /\ IsList(s[i + 1]) /\ IsList(s[1]) /\ 1 \in 1 .. Len(s)
      BY <2>1, <2>2, <2>4, <3>1
    <3>3. i + 1 = 1
      BY <3>2 DEF OneList
    <3>. QED
      BY <3>3
  <2>. QED
    BY <2>3, <2>4 DEF OneList, NoList
<1>. QED
  BY <1>1, <1>2

(* What a step sends over a connection: its list to the caller, and the news *)
(* that a node has left only when the hub has done with its connection.      *)
Sent(c, msg) ==
    /\ IsList(msg) => pc[c] = "sendList" /\ msg.peers = list[c] /\ pc'[c] = "announce"
    /\ msg.type = "PeerLeft" => \E d \in Conns : state'[d] = "gone" /\ owner'[d] = msg.id

LEMMA HubSends ==
  ASSUME Basis, NEW d \in Conns, HubStep(d), NEW c \in Conns
  PROVE  \/ chan'[c] = chan[c]
         \/ \E msg \in Messages : Sent(c, msg) /\ chan'[c] = Append(chan[c], msg)
<1>0. None \notin Conns /\ chan \in [Conns -> Seq(Messages)]
  BY RegistryAssumption DEF Basis, Typed
<1>1. CASE SendList(d)
  <2>. DEFINE msg == [type |-> "PeerList", peers |-> list[d]]
  <2>1. msg \in Messages
    BY DEF Messages, Basis, Typed
  <2>2. CASE c # d \/ state[d] # "open"
    BY <1>0, <1>1, <2>2 DEF SendList
  <2>3. CASE c = d /\ state[d] = "open"
    <3>1. chan'[c] = Append(chan[c], msg)
      BY <1>0, <1>1, <2>3 DEF SendList
    <3>2. Sent(c, msg)
      BY <1>1, <2>3 DEF SendList, Goto, Sent, Basis, Typed
    <3>. QED
      BY <2>1, <3>1, <3>2
  <2>. QED
    BY <2>2, <2>3
<1>2. CASE Announce(d) \/ SendUpdated(d)
  <2>1. PICK kind \in {"PeerJoined", "PeerUpdated"} :
               SendOthers(d, [type |-> kind, peer |-> registry[d]])
    BY <1>2 DEF Announce, SendUpdated
  <2>. DEFINE msg == [type |-> kind, peer |-> registry[d]]
  <2>2. registry[d] \in PeerInfo
    BY <1>2 DEF Announce, SendUpdated, Goto, Basis, EntriesInUse, Typed
  <2>3. msg \in Messages /\ Sent(c, msg)
    BY <2>2 DEF Messages, Sent, IsList
  <2>4. chan'[c] = chan[c] \/ chan'[c] = Append(chan[c], msg)
    BY <1>0, <2>1, <2>3, SendingToOthers
  <2>. QED
    BY <2>3, <2>4
<1>3. CASE SendLeft(d)
  <2>. DEFINE msg == [type |-> "PeerLeft", id |-> owner[d]]
  <2>1. state[d] = "lost" /\ owner[d] \in Nodes
    BY <1>3 DEF SendLeft, Goto, Basis, EntriesInUse, ConnectionsApart, Typed
  <2>2. state'[d] = "gone" /\ owner'[d] = owner[d] /\ SendOthers(d, msg)
    BY <1>3 DEF SendLeft, Basis, Typed
  <2>3. msg \in Messages /\ Sent(c, msg)
    BY <2>1, <2>2 DEF Messages, Sent, IsList
  <2>4. chan'[c] = chan[c] \/ chan'[c] = Append(chan[c], msg)
    BY <1>0, <2>2, <2>3, SendingToOthers
  <2>. QED
    BY <2>3, <2>4
<1>4. CASE JoinAsNode(d) \/ TakeList(d) \/ HubDisconnected(d) \/ HubForgets(d)
  BY <1>4 DEF JoinAsNode, TakeList, HubDisconnected, HubForgets
<1>. QED
  BY <1>1, <1>2, <1>3, <1>4 DEF HubStep

LEMMA ChannelSteps ==
  ASSUME Basis, [Next]_vars, NEW c \in Conns
  PROVE  \/ chan'[c] = chan[c]
         \/ chan'[c] = <<>>
         \/ chan[c] # <<>> /\ chan'[c] = Tail(chan[c])
         \/ \E msg \in Messages : Sent(c, msg) /\ chan'[c] = Append(chan[c], msg)
<1>0. None \notin Conns /\ chan \in [Conns -> Seq(Messages)]
  BY RegistryAssumption DEF Basis, Typed
<1>1. CASE UNCHANGED vars
  BY <1>1 DEF vars
<1>2. ASSUME NEW n \in Nodes, ConnectToGlobalHub(n) \/ Reconnect(n) \/ Disconnect(n)
      PROVE  chan'[c] = chan[c] \/ chan'[c] = <<>>
  <2>1. PICK e : Switch(n, e)
    BY <1>2 DEF ConnectToGlobalHub, Reconnect, Disconnect, Open
  <2>. QED
    BY <2>1 DEF Switch
<1>3. ASSUME NEW n \in Nodes, UpdateNodeParams(n) PROVE chan'[c] = chan[c]
  BY <1>3 DEF UpdateNodeParams
<1>4. ASSUME NEW n \in Nodes, Receive(n)
      PROVE  chan'[c] = chan[c] \/ (chan[c] # <<>> /\ chan'[c] = Tail(chan[c]))
  BY <1>0, <1>4 DEF Receive
<1>. QED
  BY <1>1, <1>2, <1>3, <1>4, HubSends DEF Next, NodeStep

LEMMA NewOnTheWay ==
  ASSUME Basis, [Next]_vars, NEW c \in Conns, NEW msg \in Range(chan'[c])
  PROVE  msg \in Range(chan[c]) \/ (msg \in Messages /\ Sent(c, msg))
<1>1. chan[c] \in Seq(Messages)
  BY DEF Basis, Typed
<1>2. CASE chan'[c] = chan[c]
  BY <1>2
<1>3. CASE chan'[c] = <<>>
  BY <1>3, NothingOnTheWay
<1>4. CASE chan[c] # <<>> /\ chan'[c] = Tail(chan[c])
  BY <1>1, <1>4, MessagesOnTheWay
<1>5. CASE \E new \in Messages : Sent(c, new) /\ chan'[c] = Append(chan[c], new)
  <2>1. PICK new \in Messages : Sent(c, new) /\ chan'[c] = Append(chan[c], new)
    BY <1>5
  <2>2. Range(chan'[c]) = Range(chan[c]) \cup {new}
    BY <1>1, <2>1, MessagesOnTheWay
  <2>. QED
    BY <2>1, <2>2
<1>. QED
  BY <1>2, <1>3, <1>4, <1>5, ChannelSteps

(* A connection keeps its owner, and one that is gone does not come back.    *)
LEMMA OwnersStay ==
  ASSUME Basis, [Next]_vars
  PROVE  /\ \A c \in Conns : owner[c] # None => owner'[c] = owner[c]
         /\ \A c \in Conns : state[c] = "gone" => state'[c] = "gone"
         /\ NobodyReturned' => NobodyReturned
<1>0. None \notin Conns /\ owner \in [Conns -> Nodes \cup {None}]
  BY RegistryAssumption DEF Basis, Typed
<1>1. ASSUME NEW c \in Conns, HubStep(c)
      PROVE  owner' = owner /\ \A d \in Conns : state[d] = "gone" => state'[d] = "gone"
  BY <1>1 DEF HubStep, JoinAsNode, TakeList, SendList, Announce, SendUpdated,
              HubDisconnected, SendLeft, HubForgets, connVars, Basis, Typed
<1>2. ASSUME NEW n \in Nodes, ConnectToGlobalHub(n) \/ Reconnect(n)
      PROVE  \A c \in Conns : /\ owner[c] # None => owner'[c] = owner[c]
                              /\ state[c] = "gone" => state'[c] = "gone"
  <2>1. PICK e \in Conns : Open(n, e)
    BY <1>2 DEF ConnectToGlobalHub, Reconnect
  <2>2. state[e] = "free" /\ owner[e] = None
    BY <2>1 DEF Open, Basis, ConnectionsApart
  <2>3. \A c \in Conns : state[c] = "gone" => c # e /\ c # current[n]
    BY <1>0, <2>2 DEF Basis, ConnectionsApart
  <2>. QED
    BY <1>0, <2>1, <2>2, <2>3 DEF Open, Switch
<1>3. ASSUME NEW n \in Nodes, Disconnect(n)
      PROVE  owner' = owner /\ \A c \in Conns : state[c] = "gone" => state'[c] = "gone"
  <2>1. \A c \in Conns : state[c] = "gone" => c # None /\ c # current[n]
    BY <1>0 DEF Basis, ConnectionsApart
  <2>. QED
    BY <1>3, <2>1 DEF Disconnect, Switch
<1>4. ASSUME NEW n \in Nodes, UpdateNodeParams(n) \/ Receive(n)
      PROVE  owner' = owner /\ state' = state
  BY <1>4 DEF UpdateNodeParams, Receive, connVars
<1>5. CASE UNCHANGED vars
  BY <1>5 DEF vars, connVars, NobodyReturned
<1>6. /\ \A c \in Conns : owner[c] # None => owner'[c] = owner[c]
      /\ \A c \in Conns : state[c] = "gone" => state'[c] = "gone"
  BY <1>1, <1>2, <1>3, <1>4, <1>5 DEF Next, NodeStep, vars, connVars
<1>7. NobodyReturned' => NobodyReturned
  BY <1>6 DEF NobodyReturned
<1>. QED
  BY <1>6, <1>7

(***************************************************************************)
(* Nobody is listed twice.                                                 *)
(***************************************************************************)
ListsDistinct ==
    NobodyReturned =>
        /\ \A c \in Conns : Distinct(list[c])
        /\ \A c \in Conns : \A msg \in Range(chan[c]) : IsList(msg) => Distinct(msg.peers)
        /\ \A n \in Nodes : Distinct(online[n])

LEMMA SnapshotIsDistinct ==
  ASSUME Basis, NobodyReturned
  PROVE  Distinct(Copies(Range(registry) \ {None}))
<1>. DEFINE S == Range(registry) \ {None}
            In(p) == {d \in Conns : registry[d] = p}
<1>1. ASSUME NEW c \in Conns, NEW d \in Conns, registry[c] # None, registry[d] # None,
             registry[c].id = registry[d].id
      PROVE  c = d
  <2>1. state[c] # "free" /\ owner[c] # None /\ owner[c] = owner[d]
    BY <1>1 DEF Basis, EntriesInUse, ConnectionsApart
  <2>. QED
    BY <2>1 DEF NobodyReturned
<1>2. Copies(S) = [p \in S |-> Cardinality(In(p))]
  BY DEF Copies
<1>3. ASSUME NEW p \in S, NEW q \in S, p.id = q.id PROVE p = q /\ Copies(S)[p] = 1
  <2>1. PICK c \in Conns : registry[c] = p
    BY DEF Range, Basis, Typed
  <2>2. PICK d \in Conns : registry[d] = q
    BY DEF Range, Basis, Typed
  <2>3. p = q
    BY <1>1, <1>3, <2>1, <2>2
  <2>4. In(p) = {c}
    BY <1>1, <2>1
  <2>5. Cardinality(In(p)) = 1
    BY <2>4, FS_Singleton
  <2>6. Copies(S)[p] = Cardinality(In(p))
    BY <1>2
  <2>. QED
    BY <2>3, <2>5, <2>6
<1>. QED
  BY <1>2, <1>3 DEF Distinct, BagToSet

LEMMA ListSteps ==
  ASSUME Basis, [Next]_vars, NEW c \in Conns
  PROVE  list'[c] \in {list[c], EmptyBag, Copies(Range(registry) \ {None})}
<1>1. CASE UNCHANGED vars
  BY <1>1 DEF vars, hubVars
<1>2. ASSUME NEW d \in Conns, HubStep(d)
      PROVE  list'[c] \in {list[c], EmptyBag, Copies(Range(registry) \ {None})}
  BY <1>2 DEF HubStep, JoinAsNode, TakeList, SendList, Announce, SendUpdated,
              HubDisconnected, SendLeft, HubForgets, hubVars, Goto, Basis, Typed
<1>3. ASSUME NEW n \in Nodes, NodeStep(n) PROVE list' = list
  BY <1>3 DEF NodeStep, ConnectToGlobalHub, Reconnect, Disconnect, UpdateNodeParams,
              Receive, hubVars
<1>. QED
  BY <1>1, <1>2, <1>3 DEF Next

LEMMA OnlineSteps ==
  ASSUME Basis, [Next]_vars, NEW n \in Nodes
  PROVE  \/ online'[n] = online[n]
         \/ /\ current[n] \in Conns /\ chan[current[n]] # <<>>
            /\ online'[n] \in Handle(online[n], Head(chan[current[n]]))
<1>1. CASE UNCHANGED vars
  BY <1>1 DEF vars
<1>2. ASSUME NEW d \in Conns, HubStep(d) PROVE online' = online
  BY <1>2 DEF HubStep, JoinAsNode, TakeList, SendList, Announce, SendUpdated,
              HubDisconnected, SendLeft, HubForgets
<1>3. ASSUME NEW m \in Nodes, ConnectToGlobalHub(m) \/ Reconnect(m) \/ Disconnect(m)
                               \/ UpdateNodeParams(m)
      PROVE  online' = online
  BY <1>3 DEF ConnectToGlobalHub, Reconnect, Disconnect, UpdateNodeParams
<1>4. ASSUME NEW m \in Nodes, Receive(m)
      PROVE  \/ online'[n] = online[n]
             \/ /\ current[n] \in Conns /\ chan[current[n]] # <<>>
                /\ online'[n] \in Handle(online[n], Head(chan[current[n]]))
  <2>1. CASE online' = online
    BY <2>1
  <2>2. CASE \E peers \in Handle(online[m], Head(chan[current[m]])) :
                online' = [online EXCEPT ![m] = peers]
    BY <1>4, <2>2 DEF Receive, Basis, Typed
  <2>. QED
    BY <1>4, <2>1, <2>2 DEF Receive
<1>. QED
  BY <1>1, <1>2, <1>3, <1>4 DEF Next, NodeStep

LEMMA DistinctStep == Basis /\ ListsDistinct /\ [Next]_vars => ListsDistinct'
<1>. SUFFICES ASSUME Basis, ListsDistinct, [Next]_vars, NobodyReturned'
              PROVE  /\ \A c \in Conns : Distinct(list'[c])
                     /\ \A c \in Conns : \A msg \in Range(chan'[c]) :
                          IsList(msg) => Distinct(msg.peers)
                     /\ \A n \in Nodes : Distinct(online'[n])
  BY DEF ListsDistinct, Distinct
<1>0. /\ NobodyReturned
      /\ \A c \in Conns : Distinct(list[c])
      /\ \A c \in Conns : \A msg \in Range(chan[c]) : IsList(msg) => Distinct(msg.peers)
      /\ \A n \in Nodes : Distinct(online[n])
      /\ chan \in [Conns -> Seq(Messages)] /\ online \in [Nodes -> PeerBags]
  BY OwnersStay DEF ListsDistinct, Basis, Typed
<1>1. ASSUME NEW c \in Conns PROVE Distinct(list'[c])
  <2>1. Distinct(EmptyBag)
    BY EmptyBagIsPeerBag DEF Distinct, BagToSet
  <2>. QED
    BY <1>0, <2>1, ListSteps, SnapshotIsDistinct
<1>2. ASSUME NEW c \in Conns, NEW msg \in Range(chan'[c]), IsList(msg)
      PROVE  Distinct(msg.peers)
  <2>1. msg \in Range(chan[c]) \/ Sent(c, msg)
    BY NewOnTheWay
  <2>. QED
    BY <1>0, <1>2, <2>1 DEF Sent
<1>3. ASSUME NEW n \in Nodes PROVE Distinct(online'[n])
  <2>1. CASE online'[n] = online[n]
    BY <1>0, <2>1
  <2>2. CASE /\ current[n] \in Conns /\ chan[current[n]] # <<>>
             /\ online'[n] \in Handle(online[n], Head(chan[current[n]]))
    <3>. DEFINE msg == Head(chan[current[n]])
    <3>1. msg \in Messages /\ (IsList(msg) => Distinct(msg.peers))
      BY <1>0, <2>2, MessagesOnTheWay
    <3>2. online[n] \in PeerBags /\ Distinct(online[n]) /\ online'[n] \in Handle(online[n], msg)
      BY <1>0, <2>2
    <3>. HIDE DEF msg
    <3>. QED
      BY <3>1, <3>2, HandledIsDistinct
  <2>. QED
    BY <2>1, <2>2, OnlineSteps
<1>. QED
  BY <1>1, <1>2, <1>3

(* A node lists another once, although it may find it in the snapshot and    *)
(* have it announced as well, for any number of nodes, none of which returns.*)
THEOREM NobodyTwice == Spec => []ListedOnce
<1>1. Init => ListsDistinct
  <2>1. Distinct(EmptyBag)
    BY EmptyBagIsPeerBag DEF Distinct, BagToSet
  <2>. QED
    BY <2>1, NothingOnTheWay DEF Init, ListsDistinct
<1>2. Basis /\ ListsDistinct /\ [Next]_vars => ListsDistinct'
  BY DistinctStep
<1>3. ListsDistinct => ListedOnce
  BY DEF ListsDistinct, ListedOnce
<1>. QED
  BY <1>1, <1>2, <1>3, BasisHolds, PTL DEF Spec

(***************************************************************************)
(* Of two nodes that have joined, one knows the other.                     *)
(*                                                                         *)
(* The list of a connection is sent once, and whoever is reported to have  *)
(* left has left for good.                                                 *)
(***************************************************************************)
Joining(c) == pc[c] \in {"list", "sendList"}

ListSentOnce ==
    \A c \in Conns :
        /\ joinDue[c] => ~Joining(c)
        /\ joinDue[c] \/ Joining(c) => NoList(chan[c])
        /\ OneList(chan[c])

LeftAreGone ==
    \A c \in Conns : \A msg \in Range(chan[c]) : msg.type = "PeerLeft" =>
        \E d \in Conns : state[d] = "gone" /\ owner[d] = msg.id

LEMMA JoinSteps ==
  ASSUME Basis, [Next]_vars, NEW c \in Conns
  PROVE  /\ joinDue'[c] => joinDue[c] \/ (chan'[c] = <<>> /\ pc'[c] = "idle")
         /\ Joining(c)' => \/ Joining(c) /\ joinDue'[c] = joinDue[c]
                           \/ joinDue[c] /\ ~joinDue'[c]
<1>0. None \notin Conns
  BY RegistryAssumption
<1>1. CASE UNCHANGED vars
  BY <1>1 DEF vars, connVars, hubVars, Joining
<1>2. ASSUME NEW d \in Conns, JoinAsNode(d)
      PROVE  /\ joinDue'[c] => joinDue[c]
             /\ Joining(c)' => \/ Joining(c) /\ joinDue'[c] = joinDue[c]
                               \/ joinDue[c] /\ ~joinDue'[c]
  BY <1>2 DEF JoinAsNode, Goto, Joining, Basis, Typed
<1>3. ASSUME NEW d \in Conns, HubStep(d), ~JoinAsNode(d)
      PROVE  joinDue' = joinDue /\ (Joining(c)' => Joining(c))
  BY <1>3 DEF HubStep, TakeList, SendList, Announce, SendUpdated, HubDisconnected,
              SendLeft, HubForgets, connVars, hubVars, Goto, Joining, Basis, Typed
<1>4. ASSUME NEW n \in Nodes, ConnectToGlobalHub(n)
      PROVE  /\ pc' = pc
             /\ joinDue'[c] # joinDue[c] => chan'[c] = <<>> /\ pc'[c] = "idle"
  <2>1. PICK e \in Conns : Open(n, e) /\ joinDue' = [joinDue EXCEPT ![e] = TRUE]
    BY <1>4 DEF ConnectToGlobalHub
  <2>2. state[e] = "free" /\ Switch(n, e)
    BY <2>1 DEF Open
  <2>3. chan'[e] = <<>> /\ pc[e] = "idle"
    BY <1>0, <2>2, Switching DEF Basis, EntriesInUse
  <2>4. pc' = pc
    BY <1>4 DEF ConnectToGlobalHub, hubVars
  <2>. QED
    BY <2>1, <2>3, <2>4 DEF Basis, Typed
<1>5. ASSUME NEW n \in Nodes, Reconnect(n) \/ Disconnect(n) \/ Receive(n)
      PROVE  pc' = pc /\ joinDue' = joinDue
  BY <1>5 DEF Reconnect, Disconnect, Receive, connVars, hubVars
<1>6. ASSUME NEW n \in Nodes, UpdateNodeParams(n)
      PROVE  joinDue' = joinDue /\ (Joining(c)' => Joining(c))
  BY <1>6 DEF UpdateNodeParams, Goto, Joining, Basis, Typed
<1>. QED
  BY <1>1, <1>2, <1>3, <1>4, <1>5, <1>6 DEF Next, NodeStep, Joining

LEMMA ListSentOnceStep == Basis /\ ListSentOnce /\ [Next]_vars => ListSentOnce'
<1>. SUFFICES ASSUME Basis, ListSentOnce, [Next]_vars, NEW c \in Conns
              PROVE  /\ joinDue'[c] => ~Joining(c)'
                     /\ joinDue'[c] \/ Joining(c)' => NoList(chan'[c])
                     /\ OneList(chan'[c])
  BY DEF ListSentOnce, Joining, NoList, OneList
<1>0. /\ chan[c] \in Seq(Messages)
      /\ joinDue[c] => ~Joining(c)
      /\ joinDue[c] \/ Joining(c) => NoList(chan[c])
      /\ OneList(chan[c])
  BY DEF Basis, Typed, ListSentOnce
<1>1. joinDue'[c] => ~Joining(c)'
  BY <1>0, JoinSteps DEF Joining
<1>2. ASSUME joinDue'[c] \/ Joining(c)', NEW msg \in Range(chan'[c]), IsList(msg) PROVE FALSE
  <2>1. chan'[c] # <<>>
    BY <1>2, NothingOnTheWay
  <2>2. joinDue[c] \/ Joining(c)
    BY <1>2, <2>1, JoinSteps
  <2>3. msg \notin Range(chan[c])
    BY <1>0, <1>2, <2>2 DEF NoList
  <2>4. pc[c] = "sendList" /\ pc'[c] = "announce"
    BY <1>2, <2>3, NewOnTheWay DEF Sent
  <2>5. joinDue'[c]
    BY <1>2, <2>4 DEF Joining
  <2>6. joinDue[c] /\ Joining(c)
    BY <2>1, <2>4, <2>5, JoinSteps DEF Joining
  <2>. QED
    BY <1>0, <2>6
<1>3. OneList(chan'[c])
  <2>1. CASE chan'[c] = chan[c]
    BY <1>0, <2>1
  <2>2. CASE chan'[c] = <<>>
    <3>1. OneList(<<>>)
      BY DEF OneList
    <3>. QED
      BY <2>2, <3>1
  <2>3. CASE chan[c] # <<>> /\ chan'[c] = Tail(chan[c])
    BY <1>0, <2>3, ListsOnTheWay
  <2>4. CASE \E msg \in Messages : Sent(c, msg) /\ chan'[c] = Append(chan[c], msg)
    <3>1. PICK msg \in Messages : Sent(c, msg) /\ chan'[c] = Append(chan[c], msg)
      BY <2>4
    <3>2. ~IsList(msg) \/ NoList(chan[c])
      BY <1>0, <3>1 DEF Sent, Joining
    <3>. QED
      BY <1>0, <3>1, <3>2, ListsOnTheWay
  <2>. QED
    BY <2>1, <2>2, <2>3, <2>4, ChannelSteps
<1>. QED
  BY <1>1, <1>2, <1>3 DEF NoList

LEMMA LeftAreGoneStep == Basis /\ LeftAreGone /\ [Next]_vars => LeftAreGone'
<1>. SUFFICES ASSUME Basis, LeftAreGone, [Next]_vars, NEW c \in Conns,
                     NEW msg \in Range(chan'[c]), msg.type = "PeerLeft"
              PROVE  \E d \in Conns : state'[d] = "gone" /\ owner'[d] = msg.id
  BY DEF LeftAreGone
<1>1. CASE msg \in Range(chan[c])
  <2>1. PICK d \in Conns : state[d] = "gone" /\ owner[d] = msg.id
    BY <1>1 DEF LeftAreGone
  <2>2. owner[d] # None
    BY <2>1 DEF Basis, ConnectionsApart
  <2>. QED
    BY <2>1, <2>2, OwnersStay
<1>2. CASE Sent(c, msg)
  BY <1>2 DEF Sent
<1>. QED
  BY <1>1, <1>2, NewOnTheWay

(* The node of connection c knows node id, or what is under way to it will   *)
(* tell it: a snapshot still to be taken, one that is taken, the list on its *)
(* way, or OnlinePeers once no list is to come.                              *)
WillKnow(c, id) ==
    \/ pc[c] = "list"
    \/ pc[c] = "sendList" /\ Names(list[c], id)
    \/ ~Joining(c) /\ \E msg \in Range(chan[c]) : IsList(msg) /\ Names(msg.peers, id)
    \/ ~Joining(c) /\ NoList(chan[c]) /\ Names(online[owner[c]], id)

Here(c) == state[c] = "open" /\ ~joinDue[c]

Acquainted ==
    NobodyReturned =>
        /\ \A c \in Conns : Here(c) => registry[c] # None
        /\ \A c, d \in Conns : Here(c) /\ Here(d) =>
             WillKnow(c, owner[d]) \/ WillKnow(d, owner[c])

IInv == Basis /\ ListSentOnce /\ LeftAreGone /\ Acquainted

LEMMA KnowledgeUntouched ==
  ASSUME Basis, NEW c \in Conns, NEW id, WillKnow(c, id),
         pc'[c] = pc[c] \/ (~Joining(c) /\ ~Joining(c)'),
         list'[c] = list[c], owner'[c] = owner[c], online'[owner[c]] = online[owner[c]],
         chan'[c] = chan[c] \/ \E msg \in Messages : ~IsList(msg) /\ chan'[c] = Append(chan[c], msg)
  PROVE  WillKnow(c, id)'
<1>1. chan[c] \in Seq(Messages)
  BY DEF Basis, Typed
<1>2. /\ Range(chan[c]) \subseteq Range(chan'[c])
      /\ NoList(chan[c]) => NoList(chan'[c])
  <2>1. CASE chan'[c] = chan[c]
    BY <2>1
  <2>2. CASE \E msg \in Messages : ~IsList(msg) /\ chan'[c] = Append(chan[c], msg)
    <3>1. PICK msg \in Messages : ~IsList(msg) /\ chan'[c] = Append(chan[c], msg)
      BY <2>2
    <3>2. Range(chan'[c]) = Range(chan[c]) \cup {msg}
      BY <1>1, <3>1, MessagesOnTheWay
    <3>. QED
      BY <3>1, <3>2 DEF NoList
  <2>. QED
    BY <2>1, <2>2
<1>3. CASE Joining(c)'
  BY <1>3 DEF WillKnow, Joining
<1>4. CASE ~Joining(c)'
  <2>1. ~Joining(c)
    BY <1>4 DEF Joining
  <2>2. \/ \E msg \in Range(chan[c]) : IsList(msg) /\ Names(msg.peers, id)
        \/ NoList(chan[c]) /\ Names(online[owner[c]], id)
    BY <2>1 DEF WillKnow, Joining
  <2>. QED
    BY <1>2, <1>4, <2>2 DEF WillKnow, NoList
<1>. QED
  BY <1>3, <1>4

(* The hub's part: the calls of other connections send nothing but news, and *)
(* those of c itself take the snapshot and send it.                          *)
LEMMA HubKeepsKnowledge ==
  ASSUME Basis, NEW c \in Conns, NEW d \in Conns, NEW id, WillKnow(c, id),
         state[c] = "open", state[d] = "open", registry[d] # None, owner[d] = id,
         NEW e \in Conns, HubStep(e)
  PROVE  WillKnow(c, id)'
<1>0. chan[c] \in Seq(Messages) /\ list[c] \in PeerBags /\ owner' = owner
  BY DEF Basis, Typed, HubStep, JoinAsNode, TakeList, SendList, Announce, SendUpdated,
         HubDisconnected, SendLeft, HubForgets, connVars
<1>1. CASE e # c
  <2>1. pc'[c] = pc[c] /\ list'[c] = list[c] /\ online' = online
    BY <1>1 DEF HubStep, JoinAsNode, TakeList, SendList, Announce, SendUpdated,
         HubDisconnected, SendLeft, HubForgets, hubVars, Goto, Basis, Typed
  <2>2. chan'[c] = chan[c] \/ \E msg \in Messages : ~IsList(msg) /\ chan'[c] = Append(chan[c], msg)
    <3>1. CASE chan'[c] = chan[c]
      BY <3>1
    <3>2. CASE \E msg \in Messages : Sent(c, msg) /\ chan'[c] = Append(chan[c], msg)
      BY <2>1, <3>2 DEF Sent
    <3>. QED
      BY <3>1, <3>2, HubSends
  <2>. QED
    BY <1>0, <2>1, <2>2, KnowledgeUntouched
<1>2. CASE JoinAsNode(c)
  BY <1>2 DEF JoinAsNode, Goto, WillKnow, Basis, Typed
<1>3. CASE TakeList(c)
  <2>1. registry[d] \in Range(registry) \ {None} /\ registry[d].id = id
    BY DEF Range, Basis, Typed, EntriesInUse
  <2>2. Names(Copies(Range(registry) \ {None}), id)
    BY <2>1 DEF Names, Copies, BagToSet
  <2>. QED
    BY <1>3, <2>2 DEF TakeList, Goto, WillKnow, Names, Basis, Typed
<1>4. CASE SendList(c)
  <2>. DEFINE msg == [type |-> "PeerList", peers |-> list[c]]
  <2>1. Names(list[c], id) /\ pc'[c] = "announce"
    BY <1>4 DEF SendList, Goto, WillKnow, Joining, Basis, Typed
  <2>2. msg \in Messages
    BY <1>0 DEF Messages
  <2>3. chan'[c] = Append(chan[c], msg)
    BY <1>4 DEF SendList, Basis, Typed
  <2>4. msg \in Range(chan'[c])
    BY <1>0, <2>2, <2>3, MessagesOnTheWay
  <2>5. IsList(msg) /\ Names(msg.peers, id)
    BY <2>1 DEF IsList
  <2>6. ~Joining(c)'
    BY <2>1 DEF Joining
  <2>. HIDE DEF msg
  <2>. QED
    BY <2>4, <2>5, <2>6 DEF WillKnow, Names
<1>5. CASE Announce(c) \/ SendUpdated(c)
  <2>1. /\ ~Joining(c) /\ ~Joining(c)' /\ list' = list /\ online' = online
        /\ chan'[c] = chan[c]
    BY <1>5 DEF Announce, SendUpdated, Goto, Joining, SendOthers, Basis, Typed
  <2>. QED
    BY <1>0, <2>1, KnowledgeUntouched
<1>6. ~HubDisconnected(c) /\ ~SendLeft(c) /\ ~HubForgets(c)
  BY DEF HubDisconnected, SendLeft, HubForgets, Goto, Basis, EntriesInUse
<1>. QED
  BY <1>1, <1>2, <1>3, <1>4, <1>5, <1>6 DEF HubStep

(* The node's part: a list that arrives replaces what it knew, and news adds *)
(* to it, for nobody who is there is reported to have left.                  *)
LEMMA NodeKeepsKnowledge ==
  ASSUME Basis, ListSentOnce, LeftAreGone, NobodyReturned,
         NEW c \in Conns, NEW d \in Conns, NEW id, WillKnow(c, id),
         state[c] = "open", state'[c] = "open", state[d] = "open", owner[d] = id,
         NEW n \in Nodes, NodeStep(n)
  PROVE  WillKnow(c, id)'
<1>0. /\ None \notin Conns /\ chan[c] \in Seq(Messages)
      /\ owner[c] \in Nodes /\ current[owner[c]] = c
  BY RegistryAssumption DEF Basis, Typed, ConnectionsApart
<1>1. CASE ConnectToGlobalHub(n) \/ Reconnect(n) \/ Disconnect(n)
  <2>1. PICK e \in Conns \cup {None} : Switch(n, e) /\ (e # None => state[e] = "free")
    BY <1>1 DEF ConnectToGlobalHub, Reconnect, Disconnect, Open
  <2>2. c # e /\ (c = current[n] => state'[c] = "lost")
    BY <1>0, <2>1, Switching
  <2>3. chan'[c] = chan[c]
    BY <2>1, <2>2, Switching
  <2>4. pc' = pc /\ list' = list /\ online' = online
    BY <1>1 DEF ConnectToGlobalHub, Reconnect, Disconnect, hubVars
  <2>5. owner'[c] = owner[c]
    <3>1. CASE Disconnect(n)
      BY <3>1 DEF Disconnect
    <3>2. CASE ConnectToGlobalHub(n) \/ Reconnect(n)
      BY <3>2 DEF ConnectToGlobalHub, Reconnect, Open, Basis, Typed
    <3>. QED
      BY <1>1, <3>1, <3>2
  <2>. QED
    BY <2>3, <2>4, <2>5, KnowledgeUntouched
<1>2. CASE UpdateNodeParams(n)
  <2>1. /\ pc'[c] = pc[c] \/ (~Joining(c) /\ ~Joining(c)')
        /\ list' = list /\ online' = online /\ chan' = chan /\ owner' = owner
    BY <1>2 DEF UpdateNodeParams, Goto, Joining, Basis, Typed
  <2>. QED
    BY <2>1, KnowledgeUntouched
<1>3. CASE Receive(n) /\ n # owner[c]
  <2>1. current[n] # c
    BY <1>0, <1>3 DEF Basis, ConnectionsApart
  <2>2. /\ pc' = pc /\ list' = list /\ owner' = owner /\ chan'[c] = chan[c]
        /\ online'[owner[c]] = online[owner[c]]
    BY <1>0, <1>3, <2>1 DEF Receive, connVars, hubVars, Basis, Typed
  <2>. QED
    BY <2>2, KnowledgeUntouched
<1>4. CASE Receive(n) /\ n = owner[c]
  <2>. DEFINE msg == Head(chan[c])
              was == online[n]
              is  == online'[n]
  <2>1. /\ current[n] = c /\ chan[c] # <<>> /\ chan'[c] = Tail(chan[c])
        /\ UNCHANGED <<connVars, hubVars>>
        /\ IF Handle(was, msg) = {} THEN is = was ELSE is \in Handle(was, msg)
    BY <1>0, <1>4 DEF Receive, Basis, Typed
  <2>2. /\ msg \in Messages /\ msg \in Range(chan[c])
        /\ Range(chan[c]) \subseteq Range(chan'[c]) \cup {msg}
        /\ Range(chan'[c]) \subseteq Range(chan[c])
    BY <1>0, <2>1, MessagesOnTheWay
  <2>3. OneList(chan[c]) /\ (IsList(msg) => NoList(chan'[c]))
    BY <1>0, <2>1, ListsOnTheWay DEF ListSentOnce
  <2>4. /\ pc' = pc /\ list' = list /\ owner' = owner /\ was \in PeerBags
    BY <2>1 DEF connVars, hubVars, Basis, Typed
  <2>5. Handle(was, msg) = {msg.peers} \/ ~IsList(msg)
    BY <2>2, HandledAre DEF IsList
  <2>6. msg.type = "PeerLeft" => msg.id # id
    BY <2>2 DEF LeftAreGone, NobodyReturned, Basis, ConnectionsApart
  <2>. HIDE DEF msg, was, is
  <2>7. CASE Joining(c)
    BY <2>4, <2>7 DEF WillKnow, Joining
  <2>8. CASE ~Joining(c) /\ \E m \in Range(chan[c]) : IsList(m) /\ Names(m.peers, id)
    <3>1. PICK m \in Range(chan[c]) : IsList(m) /\ Names(m.peers, id)
      BY <2>8
    <3>2. CASE m \in Range(chan'[c])
      BY <2>4, <2>8, <3>1, <3>2 DEF WillKnow, Joining, Names
    <3>3. CASE m = msg
      <4>1. is = msg.peers /\ NoList(chan'[c])
        BY <2>1, <2>3, <2>5, <3>1, <3>3
      <4>2. Names(is, id)
        BY <3>1, <3>3, <4>1
      <4>. QED
        BY <1>4, <2>4, <2>8, <4>1, <4>2 DEF WillKnow, Joining, Names, NoList, is
    <3>. QED
      BY <2>2, <3>2, <3>3
  <2>9. CASE ~Joining(c) /\ NoList(chan[c]) /\ Names(was, id)
    <3>1. ~IsList(msg) /\ NoList(chan'[c])
      BY <2>2, <2>9 DEF NoList
    <3>2. Names(is, id)
      BY <2>1, <2>2, <2>4, <2>6, <2>9, <3>1, HandledKeeps
    <3>. QED
      BY <1>4, <2>4, <2>9, <3>1, <3>2 DEF WillKnow, Joining, Names, NoList, is
  <2>. QED
    BY <1>4, <2>7, <2>8, <2>9 DEF WillKnow, Joining, was
<1>. QED
  BY <1>1, <1>2, <1>3, <1>4 DEF NodeStep

LEMMA KnowledgeStays ==
  ASSUME Basis, ListSentOnce, LeftAreGone, NobodyReturned, [Next]_vars,
         NEW c \in Conns, NEW d \in Conns, WillKnow(c, owner[d]),
         state[c] = "open", state'[c] = "open", state[d] = "open", registry[d] # None
  PROVE  WillKnow(c, owner[d])'
<1>1. PICK id : id = owner[d]
  OBVIOUS
<1>2. owner'[d] = id
  BY <1>1, OwnersStay DEF Basis, ConnectionsApart
<1>3. WillKnow(c, id)
  BY <1>1
<1>4. WillKnow(c, id)'
  <2>1. CASE UNCHANGED vars
    <3>1. pc' = pc /\ list' = list /\ owner' = owner /\ online' = online /\ chan' = chan
      BY <2>1 DEF vars, connVars, hubVars
    <3>. QED
      BY <1>3, <3>1, KnowledgeUntouched
  <2>2. ASSUME NEW e \in Conns, HubStep(e) PROVE WillKnow(c, id)'
    BY <1>1, <1>3, <2>2, HubKeepsKnowledge
  <2>3. ASSUME NEW n \in Nodes, NodeStep(n) PROVE WillKnow(c, id)'
    BY <1>1, <1>3, <2>3, NodeKeepsKnowledge
  <2>. QED
    BY <2>1, <2>2, <2>3 DEF Next
<1>. QED
  BY <1>2, <1>4 DEF WillKnow

(* Whoever is here after a step was here before it, or is joining just now:  *)
(* a connection is opened to join, or by a node that has come back.          *)
LEMMA HereSteps ==
  ASSUME Basis, [Next]_vars, NobodyReturned', NEW c \in Conns, Here(c)'
  PROVE  /\ state[c] = "open"
         /\ Here(c) \/ JoinAsNode(c)
         /\ registry[c] # None => registry'[c] # None
<1>0. None \notin Conns /\ None \notin PeerInfo
  BY RegistryAssumption
<1>1. CASE UNCHANGED vars
  BY <1>1 DEF vars, connVars, hubVars, Here
<1>2. ASSUME NEW d \in Conns, HubStep(d)
      PROVE  /\ state[c] = "open"
             /\ Here(c) \/ JoinAsNode(c)
             /\ registry[c] # None => registry'[c] # None
  <2>1. state[c] = "open"
    BY <1>2 DEF HubStep, JoinAsNode, TakeList, SendList, Announce, SendUpdated,
         HubDisconnected, SendLeft, HubForgets, connVars, Here, Basis, Typed
  <2>2. joinDue'[c] = joinDue[c] \/ JoinAsNode(c)
    BY <1>2 DEF HubStep, JoinAsNode, TakeList, SendList, Announce, SendUpdated,
         HubDisconnected, SendLeft, HubForgets, connVars, Basis, Typed
  <2>3. CASE JoinAsNode(d)
    <3>1. InfoOf(owner[d]) # None
      <4>1. registry'[d] = InfoOf(owner[d]) /\ owner[d] \in Nodes
        BY <2>3 DEF JoinAsNode, Basis, Typed, ConnectionsApart
      <4>. QED
        BY <1>0, <4>1 DEF InfoOf, PeerInfo, Basis, Typed
    <3>. QED
      BY <2>1, <2>2, <2>3, <3>1 DEF JoinAsNode, Here, Basis, Typed
  <2>4. CASE ~JoinAsNode(d)
    <3>1. registry' = registry \/ HubDisconnected(d)
      BY <1>2, <2>4 DEF HubStep, TakeList, SendList, Announce, SendUpdated,
           SendLeft, HubForgets, hubVars
    <3>2. HubDisconnected(d) => registry'[c] = registry[c]
      BY <2>1 DEF HubDisconnected, Basis, Typed
    <3>. QED
      BY <2>1, <2>2, <3>1, <3>2 DEF Here
  <2>. QED
    BY <2>3, <2>4
<1>3. ASSUME NEW n \in Nodes, ConnectToGlobalHub(n) \/ Reconnect(n)
      PROVE  Here(c) /\ registry' = registry
  <2>1. PICK e \in Conns : Open(n, e)
    BY <1>3 DEF ConnectToGlobalHub, Reconnect
  <2>2. state[e] = "free" /\ Switch(n, e)
    BY <2>1 DEF Open
  <2>3. c # e => state'[c] \in {"lost", state[c]}
    BY <1>0, <2>2, Switching
  <2>4. CASE ConnectToGlobalHub(n)
    <3>1. PICK f \in Conns : Open(n, f) /\ joinDue' = [joinDue EXCEPT ![f] = TRUE]
      BY <2>4 DEF ConnectToGlobalHub
    <3>2. state[f] = "free" /\ Switch(n, f)
      BY <3>1 DEF Open
    <3>3. c # f /\ joinDue'[c] = joinDue[c]
      BY <3>1 DEF Here, Basis, Typed
    <3>4. state'[c] \in {"lost", state[c]}
      BY <1>0, <3>2, <3>3, Switching
    <3>. QED
      BY <2>4, <3>3, <3>4 DEF Here, ConnectToGlobalHub, hubVars
  <2>5. CASE Reconnect(n)
    <3>1. PICK f \in Conns : f = current[n]
      BY <2>5 DEF Reconnect, Basis, Typed
    <3>2. state[f] = "open" /\ owner[f] = n /\ owner[f] # None
      BY <1>0, <3>1 DEF Basis, ConnectionsApart
    <3>3. owner'[e] = n /\ owner'[f] = n /\ e # f
      BY <2>1, <2>2, <3>2 DEF Open, Basis, Typed
    <3>. QED
      BY <3>2, <3>3 DEF NobodyReturned
  <2>. QED
    BY <1>3, <2>4, <2>5
<1>4. ASSUME NEW n \in Nodes, Disconnect(n)
      PROVE  Here(c) /\ registry' = registry
  <2>1. Switch(n, None) /\ joinDue' = joinDue /\ registry' = registry
    BY <1>4 DEF Disconnect, hubVars
  <2>2. state'[c] \in {"lost", state[c]}
    BY <1>0, <2>1, Switching
  <2>. QED
    BY <2>1, <2>2 DEF Here
<1>5. ASSUME NEW n \in Nodes, Receive(n)
      PROVE  Here(c) /\ registry' = registry
  BY <1>5 DEF Receive, connVars, hubVars, Here
<1>6. ASSUME NEW n \in Nodes, UpdateNodeParams(n)
      PROVE  Here(c) /\ (registry[c] # None => registry'[c] # None)
  <2>1. PICK d \in Conns : d = current[n]
    BY <1>6 DEF UpdateNodeParams, Basis, Typed
  <2>2. registry' = [registry EXCEPT ![d] = [id |-> n, version |-> version'[n]]]
    BY <1>6, <2>1 DEF UpdateNodeParams
  <2>3. [id |-> n, version |-> version'[n]] # None
    <3>1. version'[n] \in 0 .. MaxUpdates
      BY <1>6, RegistryAssumption DEF UpdateNodeParams, Basis, Typed
    <3>. QED
      BY <1>0, <3>1 DEF PeerInfo
  <2>4. state' = state /\ joinDue' = joinDue
    BY <1>6 DEF UpdateNodeParams
  <2>. QED
    BY <2>2, <2>3, <2>4 DEF Here, Basis, Typed
<1>. QED
  BY <1>1, <1>2, <1>3, <1>4, <1>5, <1>6 DEF Next, NodeStep, Here

LEMMA AcquaintedStep == IInv /\ [Next]_vars => Acquainted'
<1>. SUFFICES ASSUME IInv, [Next]_vars, NobodyReturned'
              PROVE  /\ \A c \in Conns : Here(c)' => registry'[c] # None
                     /\ \A c, d \in Conns : Here(c)' /\ Here(d)' =>
                          WillKnow(c, owner[d])' \/ WillKnow(d, owner[c])'
  BY DEF Acquainted, Here
<1>1. /\ Basis /\ ListSentOnce /\ LeftAreGone /\ NobodyReturned
      /\ \A c \in Conns : Here(c) => registry[c] # None
      /\ \A c, d \in Conns : Here(c) /\ Here(d) =>
           WillKnow(c, owner[d]) \/ WillKnow(d, owner[c])
  BY OwnersStay DEF IInv, Acquainted
<1>2. ASSUME NEW c \in Conns, JoinAsNode(c)
      PROVE  pc'[c] = "list" /\ registry'[c] # None
  <2>1. registry'[c] = InfoOf(owner[c]) /\ owner[c] \in Nodes /\ pc'[c] = "list"
    BY <1>1, <1>2 DEF JoinAsNode, Goto, Basis, Typed, ConnectionsApart
  <2>2. InfoOf(owner[c]) \in PeerInfo
    BY <1>1, <2>1 DEF InfoOf, PeerInfo, Basis, Typed
  <2>. QED
    BY <2>1, <2>2, RegistryAssumption
<1>3. ASSUME NEW c \in Conns, Here(c)' PROVE registry'[c] # None
  BY <1>1, <1>2, <1>3, HereSteps
<1>4. ASSUME NEW c \in Conns, NEW d \in Conns, Here(c)', Here(d)'
      PROVE  WillKnow(c, owner[d])' \/ WillKnow(d, owner[c])'
  <2>1. CASE JoinAsNode(c) \/ JoinAsNode(d)
    BY <1>2, <2>1 DEF WillKnow
  <2>2. CASE Here(c) /\ Here(d)
    <3>1. /\ state[c] = "open" /\ state[d] = "open"
          /\ state'[c] = "open" /\ state'[d] = "open"
          /\ registry[c] # None /\ registry[d] # None
      BY <1>1, <1>4, <2>2 DEF Here
    <3>. QED
      BY <1>1, <2>2, <3>1, KnowledgeStays
  <2>. QED
    BY <1>1, <1>4, <2>1, <2>2, HereSteps
<1>. QED
  BY <1>3, <1>4

(* However joins and departures overlap, of two nodes that have joined and   *)
(* never come back one lists the other once the hub and the nodes are at     *)
(* rest: JoinAsNode stores the entry before it takes the snapshot.           *)
THEOREM OneKnowsTheOther == Spec => []OneSeesTheOther
<1>1. Init => IInv
  <2>1. Init => Basis
    BY BasisStarts
  <2>. QED
    BY <2>1, NothingOnTheWay DEF Init, IInv, ListSentOnce, LeftAreGone, Acquainted,
       Here, Joining, NoList, OneList
<1>2. IInv /\ [Next]_vars => IInv'
  BY BasisSteps, ListSentOnceStep, LeftAreGoneStep, AcquaintedStep DEF IInv
<1>3. IInv => OneSeesTheOther
  <2>. SUFFICES ASSUME IInv, Settled, NobodyReturned,
                       NEW m \in Nodes, NEW n \in Nodes, Joined(m), Joined(n)
                PROVE  m \in Seen(n) \/ n \in Seen(m)
    BY DEF OneSeesTheOther
  <2>1. ASSUME NEW k \in Nodes, Joined(k)
        PROVE  /\ current[k] \in Conns /\ owner[current[k]] = k
               /\ Here(current[k]) /\ pc[current[k]] = "idle"
               /\ chan[current[k]] = <<>>
    <3>1. current[k] \in Conns
      BY <2>1 DEF Joined, IInv, Basis, Typed
    <3>. QED
      BY <2>1, <3>1 DEF Joined, IInv, Basis, ConnectionsApart, Settled, Here
  <2>2. ASSUME NEW k \in Nodes, NEW id, Joined(k), WillKnow(current[k], id)
        PROVE  id \in Seen(k)
    <3>1. Names(online[k], id)
      BY <2>1, <2>2, NothingOnTheWay DEF WillKnow
    <3>. QED
      BY <3>1 DEF Names, Seen
  <2>3. WillKnow(current[m], n) \/ WillKnow(current[n], m)
    BY <2>1 DEF IInv, Acquainted
  <2>. QED
    BY <2>2, <2>3
<1>. QED
  BY <1>1, <1>2, <1>3, PTL DEF Spec
=============================================================================
