---------------------------- MODULE WebRtcProofs ----------------------------
(***************************************************************************)
(* Theorems about WebRtcSignalling, for any number of calls of createOffer *)
(* by either page; and, as long as one page only has called it, that the   *)
(* pages agree when everything has settled, and that no candidate is lost  *)
(* but one that overtook its offer.                                        *)
(***************************************************************************)
EXTENDS WebRtcSignalling, TLAPS

(***************************************************************************)
(* The two pages, and sequences taken as sets of what they hold.           *)
(***************************************************************************)
LEMMA TwoPages ==
  ASSUME NEW p \in Peers
  PROVE  /\ Other(p) \in Peers /\ Other(p) # p
         /\ Other(Other(p)) = p
         /\ \A q \in Peers : q = p \/ q = Other(p)
<1>1. PICK a, b \in Peers : a # b /\ Peers = {a, b}
  BY PeersAssumption
<1>2. \A q \in Peers : Other(q) \in Peers /\ Other(q) # q
  BY <1>1 DEF Other
<1>. QED
  BY <1>1, <1>2

Elems(s) == {s[i] : i \in 1..Len(s)}

LEMMA EmptyElems == Elems(<<>>) = {}
BY DEF Elems

LEMMA AppendElems ==
  ASSUME NEW S, NEW s \in Seq(S), NEW e \in S
  PROVE  /\ Append(s, e) \in Seq(S)
         /\ Elems(Append(s, e)) = Elems(s) \cup {e}
         /\ Append(s, e) # <<>>
<1>1. Len(Append(s, e)) = Len(s) + 1 /\ Append(s, e) \in Seq(S)
  OBVIOUS
<1>2. \A i \in 1..Len(s) : Append(s, e)[i] = s[i]
  OBVIOUS
<1>3. Append(s, e)[Len(s) + 1] = e
  OBVIOUS
<1>4. Len(s) \in Nat
  OBVIOUS
<1>5. 1..(Len(s) + 1) = 1..Len(s) \cup {Len(s) + 1}
  BY <1>4
<1>6. Append(s, e) # <<>>
  BY <1>1, <1>4
<1>. QED
  BY <1>1, <1>2, <1>3, <1>5, <1>6 DEF Elems

LEMMA TailElems ==
  ASSUME NEW S, NEW s \in Seq(S), s # <<>>
  PROVE  /\ Tail(s) \in Seq(S)
         /\ Head(s) \in S /\ Head(s) \in Elems(s)
         /\ Elems(s) = Elems(Tail(s)) \cup {Head(s)}
<1>1. Len(s) \in Nat /\ Len(s) > 0 /\ Len(Tail(s)) = Len(s) - 1
  OBVIOUS
<1>2. Tail(s) \in Seq(S) /\ Head(s) = s[1] /\ s[1] \in S
  BY <1>1
<1>3. \A i \in 1..Len(Tail(s)) : Tail(s)[i] = s[i + 1]
  BY <1>1
<1>4. Elems(Tail(s)) \subseteq Elems(s)
  BY <1>1, <1>3 DEF Elems
<1>5. \A i \in 1..Len(s) : i = 1 \/ (i - 1 \in 1..Len(Tail(s)) /\ s[i] = Tail(s)[i - 1])
  BY <1>1, <1>3
<1>6. Elems(s) \subseteq Elems(Tail(s)) \cup {Head(s)}
  BY <1>2, <1>5 DEF Elems
<1>7. Head(s) \in Elems(s)
  BY <1>1, <1>2 DEF Elems
<1>. QED
  BY <1>2, <1>4, <1>6, <1>7

LEMMA ElemsInSet ==
  ASSUME NEW S, NEW s \in Seq(S)
  PROVE  Elems(s) \subseteq S /\ (s # <<>> => Elems(s) # {})
<1>1. s # <<>> => 1 \in 1..Len(s)
  OBVIOUS
<1>. QED
  BY <1>1 DEF Elems

(***************************************************************************)
(* Types.                                                                  *)
(***************************************************************************)
USE DEF Credentials, None

PeerRecords == [made : BOOLEAN, local : Nat, remote : Nat,
                pend : [by : Peers, ice : Credentials] \cup {NoOffer}]

\* What an entry holds is typed like it.
LEMMA PeerType ==
  ASSUME TypeOK, NEW p \in Peers
  PROVE  /\ peers[p] \in PeerRecords
         /\ peers[p].made \in BOOLEAN /\ peers[p].local \in Nat /\ peers[p].remote \in Nat
         /\ peers[p].pend \in [by : Peers, ice : Credentials] \cup {NoOffer}
         /\ GetOrCreatePeer(p) \in PeerRecords
         /\ LocalIce(p) \subseteq Credentials
<1>1. peers[p] \in PeerRecords
  BY DEF TypeOK, PeerRecords
<1>2. peers[p].pend \in [by : Peers, ice : Credentials] \cup {NoOffer}
  BY <1>1 DEF PeerRecords
<1>3. NewPeer \in PeerRecords
  BY DEF NewPeer, NoPeer, PeerRecords, NoOffer
<1>4. GetOrCreatePeer(p) \in PeerRecords
  BY <1>1, <1>3 DEF GetOrCreatePeer
<1>5. peers[p].pend.by = p => peers[p].pend.ice \in Credentials
  BY <1>2, PeersAssumption DEF NoOffer
<1>6. LocalIce(p) \subseteq Credentials
  BY <1>1, <1>5 DEF LocalIce, Pending, PeerRecords
<1>. QED
  BY <1>1, <1>2, <1>4, <1>6 DEF PeerRecords

\* The head of a chain is an operation, and so is what may be put behind its tail.
LEMMA ChainType ==
  ASSUME TypeOK, NEW p \in Peers
  PROVE  /\ chain[p] \in Seq(Operations)
         /\ chain[p] # <<>> => /\ Tail(chain[p]) \in Seq(Operations)
                               /\ Head(chain[p]) \in Operations
         /\ \A e \in Operations :
              /\ Append(chain[p], e) \in Seq(Operations)
              /\ chain[p] # <<>> => Append(Tail(chain[p]), e) \in Seq(Operations)
         /\ [chain EXCEPT ![p] = Tail(@)] \in [Peers -> Seq(Operations)]
              \/ chain[p] = <<>>
<1>1. chain[p] \in Seq(Operations)
  BY DEF TypeOK
<1>2. chain[p] # <<>> => /\ Tail(chain[p]) \in Seq(Operations)
                        /\ Head(chain[p]) \in Operations
  BY <1>1, TailElems
<1>3. \A e \in Operations :
         /\ Append(chain[p], e) \in Seq(Operations)
         /\ chain[p] # <<>> => Append(Tail(chain[p]), e) \in Seq(Operations)
  BY <1>1, <1>2, AppendElems
<1>. QED
  BY <1>1, <1>2, <1>3 DEF TypeOK

\* A signal that is sent keeps the type of the wire.
LEMMA WireType ==
  ASSUME TypeOK, NEW p \in Peers,
         NEW type \in {"offer", "answer", "candidate"}, NEW ice \in Credentials,
         NEW early \in BOOLEAN, SendSignal(p, type, ice, early)
  PROVE  wire' \in [Peers -> Seq(Signals)]
<1>1. wire[Other(p)] \in Seq(Signals) /\ Other(p) \in Peers
  BY TwoPages DEF TypeOK
<1>2. [type |-> type, ice |-> ice, early |-> early] \in Signals
  BY DEF Signals
<1>3. Append(wire[Other(p)], [type |-> type, ice |-> ice, early |-> early]) \in Seq(Signals)
  BY <1>1, <1>2, AppendElems
<1>. QED
  BY <1>1, <1>3 DEF SendSignal, TypeOK

\* An offer has credentials: those of the local description there is, or new ones.
LEMMA OfferHasCredentials ==
  ASSUME TypeOK, NEW p \in Peers, OfferCreated(p)
  PROVE  \E ice \in Credentials :
           /\ chain' = [chain EXCEPT ![p] = Append(Tail(@), Op("setLocalOffer", ice, FALSE))]
           /\ ice \in LocalIce(p) \/ (LocalIce(p) = {} /\ ice = credentials[p] + 1)
<1>1. PICK ice :
        /\ ice = IF LocalIce(p) = {} THEN credentials[p] + 1
                 ELSE IF Signalling(p) = "have-local-offer" THEN peers[p].pend.ice
                 ELSE peers[p].local
        /\ chain' = [chain EXCEPT ![p] =
                       Append(Tail(@), Op("setLocalOffer", ice, FALSE))]
  BY DEF OfferCreated
<1>2. credentials[p] + 1 \in Nat \ {0}
  <2>1. credentials[p] \in Nat
    BY DEF TypeOK
  <2>. QED
    BY <2>1
<1>3. CASE LocalIce(p) = {}
  BY <1>1, <1>2, <1>3
<1>4. CASE LocalIce(p) # {} /\ Signalling(p) = "have-local-offer"
  <2>1. peers[p].pend.by = p /\ peers[p].pend.ice \in Credentials
    BY <1>4, PeerType, PeersAssumption DEF Signalling, NoOffer
  <2>. QED
    BY <1>1, <1>4, <2>1 DEF LocalIce, Pending
<1>5. CASE LocalIce(p) # {} /\ Signalling(p) # "have-local-offer"
  <2>1. peers[p].pend.by # p
    BY <1>5, PeersAssumption DEF Signalling, NoOffer
  <2>2. peers[p].local \in LocalIce(p)
    BY <1>5, <2>1 DEF LocalIce, Pending
  <2>. QED
    BY <1>1, <1>5, <2>2, PeerType
<1>. QED
  BY <1>3, <1>4, <1>5

LEMMA TypeInit == Init => TypeOK
<1>1. \A S : <<>> \in Seq(S)
  OBVIOUS
<1>2. NoPeer \in [made : BOOLEAN, local : Nat, remote : Nat,
                   pend : [by : Peers, ice : Credentials] \cup {NoOffer}]
  BY DEF NoPeer, NoOffer
<1>3. 0 \in 0..MaxCalls
  BY MaxCallsAssumption
<1>. SUFFICES ASSUME Init PROVE TypeOK
  OBVIOUS
<1>4. /\ peers \in [Peers -> [made : BOOLEAN, local : Nat, remote : Nat,
                               pend : [by : Peers, ice : Credentials] \cup {NoOffer}]]
      /\ chain \in [Peers -> Seq(Operations)]
      /\ returned \in [Peers -> Seq(Credentials)]
      /\ wire \in [Peers -> Seq(Signals)]
  BY <1>1, <1>2 DEF Init
<1>5. dotNetRef \in [Peers -> BOOLEAN] /\ lone \in BOOLEAN
  BY DEF Init
<1>6. /\ credentials \in [Peers -> Nat]
      /\ gathered \in [Peers -> SUBSET Credentials]
      /\ known \in [Peers -> SUBSET Credentials]
      /\ lost \in [Peers -> SUBSET {"overtook", "in order"}]
      /\ calls \in 0..MaxCalls /\ callers \in SUBSET Peers
  BY <1>3 DEF Init
<1>. QED
  BY <1>4, <1>5, <1>6 DEF TypeOK

LEMMA TypeStep == TypeOK /\ [Next]_vars => TypeOK'
<1>. SUFFICES ASSUME TypeOK, [Next]_vars PROVE TypeOK'
  OBVIOUS
<1>1. CASE UNCHANGED vars
  BY <1>1 DEF vars, TypeOK
<1>. SUFFICES ASSUME NEW p \in Peers,
                     \/ Initialize(p) \/ CreateOffer(p) \/ HandleSignal(p)
                     \/ Settle(p) \/ OnIceCandidate(p) \/ RelayOffer(p)
              PROVE  TypeOK'
  BY <1>1 DEF Next
<1>. Other(p) \in Peers /\ chain[p] \in Seq(Operations)
  BY TwoPages, ChainType
<1>. credentials[p] \in Nat /\ credentials[p] + 1 \in Nat \ {0}
  <2>1. credentials[p] \in Nat
    BY DEF TypeOK
  <2>. QED
    BY <2>1
<1>2. CASE Initialize(p)
  BY <1>2 DEF Initialize, TypeOK, history
<1>3. CASE CreateOffer(p)
  <2>1. peers' \in [Peers -> PeerRecords]
    BY <1>3, PeerType DEF CreateOffer, TypeOK, PeerRecords
  <2>2. Op("createOffer", None, FALSE) \in Operations
    BY DEF Op, Operations
  <2>3. chain' \in [Peers -> Seq(Operations)]
    BY <1>3, <2>2, ChainType DEF CreateOffer, TypeOK
  <2>4. calls' \in 0..MaxCalls
    <3>1. calls' = calls + 1 /\ calls < MaxCalls /\ calls \in 0..MaxCalls
      BY <1>3 DEF CreateOffer, TypeOK
    <3>. QED
      BY <3>1, MaxCallsAssumption
  <2>6. callers' \in SUBSET Peers
    BY <1>3 DEF CreateOffer, TypeOK
  <2>5. lone' \in BOOLEAN
    BY <1>3 DEF CreateOffer, Quiet
  <2>. QED
    BY <1>3, <2>1, <2>3, <2>4, <2>5, <2>6 DEF CreateOffer, TypeOK, PeerRecords
<1>4. CASE HandleSignal(p)
  <2>1. peers' \in [Peers -> PeerRecords]
    BY <1>4, PeerType DEF HandleSignal, TypeOK, PeerRecords
  <2>2. wire[p] \in Seq(Signals) /\ wire[p] # <<>>
    BY <1>4 DEF HandleSignal, TypeOK
  <2>3. Head(wire[p]) \in Signals /\ Tail(wire[p]) \in Seq(Signals)
    BY <2>2, TailElems
  <2>4. FirstOperation(Head(wire[p])) \in Operations
    BY <2>3 DEF FirstOperation, Signals, Operations, Op
  <2>5. chain' \in [Peers -> Seq(Operations)]
    BY <1>4, <2>4, ChainType DEF HandleSignal, TypeOK
  <2>6. wire' \in [Peers -> Seq(Signals)]
    BY <1>4, <2>3 DEF HandleSignal, TypeOK
  <2>. QED
    BY <1>4, <2>1, <2>5, <2>6 DEF HandleSignal, TypeOK, PeerRecords, history
<1>5. CASE Settle(p)
  <2>1. CASE Reject(p)
    <3>1. chain' \in [Peers -> Seq(Operations)]
      BY <2>1, ChainType DEF Reject
    <3>2. lost' \in [Peers -> SUBSET {"overtook", "in order"}]
      BY <2>1 DEF Reject, TypeOK
    <3>. QED
      BY <2>1, <3>1, <3>2 DEF Reject, TypeOK, history
  <2>2. CASE OfferCreated(p)
    <3>1. PICK ice \in Credentials :
            chain' = [chain EXCEPT ![p] = Append(Tail(@), Op("setLocalOffer", ice, FALSE))]
      BY <2>2, OfferHasCredentials
    <3>3. Op("setLocalOffer", ice, FALSE) \in Operations
      BY DEF Op, Operations
    <3>4. chain' \in [Peers -> Seq(Operations)]
      <4>1. Append(Tail(chain[p]), Op("setLocalOffer", ice, FALSE)) \in Seq(Operations)
        BY <2>2, <3>3, ChainType DEF OfferCreated, Settles
      <4>. QED
        BY <3>1, <4>1 DEF TypeOK
    <3>5. credentials' \in [Peers -> Nat]
      <4>1. credentials' = [credentials EXCEPT ![p] = IF LocalIce(p) # {} THEN @ ELSE @ + 1]
        BY <2>2 DEF OfferCreated
      <4>. QED
        BY <4>1 DEF TypeOK
    <3>. QED
      BY <2>2, <3>4, <3>5 DEF OfferCreated, TypeOK, history
  <2>3. CASE OfferApplied(p)
    <3>1. chain[p] # <<>> /\ Head(chain[p]) \in Operations
          /\ Head(chain[p]).op = "setLocalOffer"
      BY <2>3, ChainType DEF OfferApplied, Settles
    <3>2. Head(chain[p]).ice \in Credentials
      BY <3>1 DEF Operations
    <3>3. chain' \in [Peers -> Seq(Operations)]
      BY <2>3, <3>1, ChainType DEF OfferApplied
    <3>4. peers' \in [Peers -> PeerRecords]
      BY <2>3, <3>2 DEF OfferApplied, TypeOK, PeerRecords
    <3>5. returned' \in [Peers -> Seq(Credentials)]
      BY <2>3, <3>2, AppendElems DEF OfferApplied, TypeOK
    <3>. QED
      BY <2>3, <3>3, <3>4, <3>5 DEF OfferApplied, TypeOK, PeerRecords, history
  <2>4. CASE RemoteOfferApplied(p)
    <3>1. chain[p] # <<>> /\ Head(chain[p]) \in Operations
          /\ Head(chain[p]).op = "setRemoteOffer"
      BY <2>4, ChainType DEF RemoteOfferApplied, Settles
    <3>2. Head(chain[p]).ice \in Credentials
      BY <3>1 DEF Operations
    <3>3. Op("createAnswer", None, FALSE) \in Operations
      BY DEF Op, Operations
    <3>4. chain' \in [Peers -> Seq(Operations)]
      BY <2>4, <3>1, <3>3, ChainType DEF RemoteOfferApplied, TypeOK
    <3>5. peers' \in [Peers -> PeerRecords]
      <4>1. [by |-> Other(p), ice |-> Head(chain[p]).ice] \in [by : Peers, ice : Credentials]
        BY <3>2, TwoPages
      <4>2. [peers[p] EXCEPT !.pend = [by |-> Other(p), ice |-> Head(chain[p]).ice]]
              \in PeerRecords
        BY <4>1, PeerType DEF PeerRecords
      <4>. QED
        BY <2>4, <4>2 DEF RemoteOfferApplied, TypeOK, PeerRecords
    <3>. QED
      BY <2>4, <3>4, <3>5 DEF RemoteOfferApplied, TypeOK, PeerRecords, history
  <2>5. CASE AnswerCreated(p)
    <3>. DEFINE rest == Tail(chain[p])
                older == [i \in DOMAIN rest |->
                            IF rest[i].op = "setLocalAnswer"
                            THEN [rest[i] EXCEPT !.mark = TRUE] ELSE rest[i]]
                keeps == peers[p].local # None /\ peers[p].remote = peers[p].pend.ice
                ice == IF keeps THEN peers[p].local ELSE credentials[p] + 1
    <3>1. chain' = [chain EXCEPT ![p] = Append(older, Op("setLocalAnswer", ice, FALSE))]
          /\ chain[p] # <<>>
      BY <2>5 DEF AnswerCreated, Settles
    <3>2. ice \in Credentials
      BY PeerType
    <3>3. Op("setLocalAnswer", ice, FALSE) \in Operations
      BY <3>2 DEF Op, Operations
    <3>4. rest \in Seq(Operations)
      BY <3>1, ChainType
    <3>5. older \in Seq(Operations)
      <4>1. \A i \in DOMAIN rest : rest[i] \in Operations
        BY <3>4
      <4>2. \A o \in Operations : o.op = "setLocalAnswer" => [o EXCEPT !.mark = TRUE] \in Operations
        BY DEF Operations
      <4>3. \A i \in DOMAIN rest : older[i] \in Operations
        BY <4>1, <4>2
      <4>4. Len(rest) \in Nat /\ DOMAIN rest = 1..Len(rest)
        BY <3>4
      <4>5. older \in [1..Len(rest) -> Operations]
        BY <4>3, <4>4
      <4>. HIDE DEF older, rest
      <4>. QED
        BY <4>4, <4>5
    <3>. HIDE DEF older, ice
    <3>6. Append(older, Op("setLocalAnswer", ice, FALSE)) \in Seq(Operations)
      BY <3>3, <3>5, AppendElems
    <3>7. chain' \in [Peers -> Seq(Operations)]
      BY <3>1, <3>6 DEF TypeOK
    <3>8. credentials' \in [Peers -> Nat]
      <4>1. credentials' = [credentials EXCEPT ![p] = IF keeps THEN @ ELSE @ + 1]
        BY <2>5 DEF AnswerCreated
      <4>. QED
        BY <4>1 DEF TypeOK
    <3>. QED
      BY <2>5, <3>7, <3>8 DEF AnswerCreated, TypeOK, history
  <2>6. CASE AnswerApplied(p)
    <3>1. chain[p] # <<>> /\ Head(chain[p]) \in Operations
          /\ Head(chain[p]).op = "setLocalAnswer"
      BY <2>6, ChainType DEF AnswerApplied, Settles
    <3>2. Head(chain[p]).ice \in Credentials
      BY <3>1 DEF Operations
    <3>3. chain' \in [Peers -> Seq(Operations)]
      BY <2>6, <3>1, ChainType DEF AnswerApplied
    <3>4. peers[p].pend.ice \in Nat
      BY PeerType DEF NoOffer
    <3>5. peers' \in [Peers -> PeerRecords]
      <4>1. [peers[p] EXCEPT !.local = Head(chain[p]).ice, !.remote = peers[p].pend.ice,
                             !.pend = NoOffer] \in PeerRecords
        BY <3>2, <3>4, PeerType DEF PeerRecords
      <4>. QED
        BY <2>6, <4>1 DEF AnswerApplied, TypeOK, PeerRecords
    <3>6. wire' \in [Peers -> Seq(Signals)]
      BY <2>6, <3>2, WireType DEF AnswerApplied
    <3>. QED
      BY <2>6, <3>3, <3>5, <3>6 DEF AnswerApplied, TypeOK, PeerRecords, history
  <2>7. CASE RemoteAnswerApplied(p)
    <3>1. chain[p] # <<>> /\ Head(chain[p]) \in Operations
          /\ Head(chain[p]).op = "setRemoteAnswer"
      BY <2>7, ChainType DEF RemoteAnswerApplied, Settles
    <3>2. Head(chain[p]).ice \in Nat /\ peers[p].pend.ice \in Nat
      BY <3>1, PeerType DEF Operations, NoOffer
    <3>3. chain' \in [Peers -> Seq(Operations)]
      BY <2>7, <3>1, ChainType DEF RemoteAnswerApplied
    <3>4. peers' \in [Peers -> PeerRecords]
      <4>1. [peers[p] EXCEPT !.local = peers[p].pend.ice, !.remote = Head(chain[p]).ice,
                             !.pend = NoOffer] \in PeerRecords
        BY <3>2, PeerType DEF PeerRecords
      <4>. QED
        BY <2>7, <4>1 DEF RemoteAnswerApplied, TypeOK, PeerRecords
    <3>. QED
      BY <2>7, <3>3, <3>4 DEF RemoteAnswerApplied, TypeOK, PeerRecords, history
  <2>8. CASE CandidateAdded(p)
    <3>1. chain[p] # <<>> /\ Head(chain[p]) \in Operations
          /\ Head(chain[p]).op = "addIceCandidate"
      BY <2>8, ChainType DEF CandidateAdded, Settles
    <3>2. Head(chain[p]).ice \in Credentials
      BY <3>1 DEF Operations
    <3>3. chain' \in [Peers -> Seq(Operations)]
      BY <2>8, <3>1, ChainType DEF CandidateAdded
    <3>4. known' \in [Peers -> SUBSET Credentials]
      BY <2>8, <3>2 DEF CandidateAdded, TypeOK
    <3>. QED
      BY <2>8, <3>3, <3>4 DEF CandidateAdded, TypeOK, history
  <2>. QED
    BY <1>5, <2>1, <2>2, <2>3, <2>4, <2>5, <2>6, <2>7, <2>8 DEF Settle
<1>6. CASE OnIceCandidate(p)
  <2>1. PICK g \in LocalIce(p) \ gathered[p] :
          /\ gathered' = [gathered EXCEPT ![p] = @ \cup {g}]
          /\ SendSignal(p, "candidate", g, \E i \in DOMAIN returned[p] : returned[p][i] = g)
    BY <1>6 DEF OnIceCandidate
  <2>2. g \in Credentials
    BY PeerType
  <2>3. wire' \in [Peers -> Seq(Signals)]
    BY <2>1, <2>2, WireType
  <2>4. gathered' \in [Peers -> SUBSET Credentials]
    BY <2>1, <2>2 DEF TypeOK
  <2>. QED
    BY <1>6, <2>3, <2>4 DEF OnIceCandidate, TypeOK, history
<1>7. CASE RelayOffer(p)
  <2>1. returned[p] \in Seq(Credentials) /\ returned[p] # <<>>
    BY <1>7 DEF RelayOffer, TypeOK
  <2>2. Head(returned[p]) \in Credentials /\ Tail(returned[p]) \in Seq(Credentials)
    BY <2>1, TailElems
  <2>3. wire' \in [Peers -> Seq(Signals)]
    BY <1>7, <2>2, WireType DEF RelayOffer
  <2>4. returned' \in [Peers -> Seq(Credentials)]
    BY <1>7, <2>2 DEF RelayOffer, TypeOK
  <2>. QED
    BY <1>7, <2>3, <2>4 DEF RelayOffer, TypeOK, history
<1>. QED
  BY <1>2, <1>3, <1>4, <1>5, <1>6, <1>7

\* The script's state and what it exchanges with the browser keep their types:
\* no signal goes out without credentials, whatever the pages do.
THEOREM TypesHold == Spec => []TypeOK
<1>. QED
  BY TypeInit, TypeStep, PTL DEF Spec

(***************************************************************************)
(* What a step does to the two chains and the two wires, taken as sets.    *)
(***************************************************************************)
\* A page gets an operation behind its chain.
LEMMA ChainGrows ==
  ASSUME TypeOK, NEW p \in Peers, NEW e \in Operations,
         chain' = [chain EXCEPT ![p] = Append(@, e)]
  PROVE  /\ Elems(chain'[p]) = Elems(chain[p]) \cup {e}
         /\ chain'[p] # <<>>
         /\ chain'[Other(p)] = chain[Other(p)]
<1>1. chain'[p] = Append(chain[p], e) /\ chain'[Other(p)] = chain[Other(p)]
  BY TwoPages DEF TypeOK
<1>. QED
  BY <1>1, ChainType, AppendElems

\* The head of a chain is settled.
LEMMA ChainShrinks ==
  ASSUME TypeOK, NEW p \in Peers, chain[p] # <<>>,
         chain' = [chain EXCEPT ![p] = Tail(@)]
  PROVE  /\ Elems(chain[p]) = Elems(chain'[p]) \cup {Head(chain[p])}
         /\ chain'[Other(p)] = chain[Other(p)]
<1>1. chain'[p] = Tail(chain[p]) /\ chain'[Other(p)] = chain[Other(p)]
  BY TwoPages DEF TypeOK
<1>. QED
  BY <1>1, ChainType, TailElems

\* ... and asks for another operation.
LEMMA ChainTurns ==
  ASSUME TypeOK, NEW p \in Peers, chain[p] # <<>>, NEW e \in Operations,
         chain' = [chain EXCEPT ![p] = Append(Tail(@), e)]
  PROVE  /\ Elems(chain[p]) = Elems(Tail(chain[p])) \cup {Head(chain[p])}
         /\ Elems(chain'[p]) = Elems(Tail(chain[p])) \cup {e}
         /\ chain'[p] # <<>>
         /\ chain'[Other(p)] = chain[Other(p)]
<1>. DEFINE rest == Tail(chain[p])
            longer == Append(rest, e)
<1>1. chain[p] \in Seq(Operations) /\ rest \in Seq(Operations)
  BY ChainType
<1>2. chain'[p] = longer /\ chain'[Other(p)] = chain[Other(p)]
  BY TwoPages DEF TypeOK
<1>3. Elems(chain[p]) = Elems(rest) \cup {Head(chain[p])}
  BY <1>1, TailElems
<1>. HIDE DEF rest
<1>4. Elems(longer) = Elems(rest) \cup {e} /\ longer # <<>>
  BY <1>1, AppendElems
<1>. HIDE DEF longer
<1>. QED
  BY <1>2, <1>3, <1>4 DEF rest

\* A signal is sent to the other page.
LEMMA WireGrows ==
  ASSUME TypeOK, NEW p \in Peers,
         NEW type \in {"offer", "answer", "candidate"}, NEW ice \in Credentials,
         NEW early \in BOOLEAN, SendSignal(p, type, ice, early)
  PROVE  /\ Elems(wire'[Other(p)]) =
              Elems(wire[Other(p)]) \cup {[type |-> type, ice |-> ice, early |-> early]}
         /\ Elems(wire[Other(p)]) \subseteq Elems(wire'[Other(p)])
         /\ \E s \in Elems(wire'[Other(p)]) : s.type = type
         /\ wire'[p] = wire[p]
<1>. DEFINE s == [type |-> type, ice |-> ice, early |-> early]
<1>1. wire[Other(p)] \in Seq(Signals) /\ s \in Signals
  BY TwoPages DEF TypeOK, Signals
<1>2. wire'[Other(p)] = Append(wire[Other(p)], s) /\ wire'[p] = wire[p]
  BY TwoPages DEF SendSignal, TypeOK
<1>. HIDE DEF s
<1>3. Elems(wire'[Other(p)]) = Elems(wire[Other(p)]) \cup {s}
  BY <1>1, <1>2, AppendElems
<1>4. s.type = type
  BY DEF s
<1>5. s \in Elems(wire'[Other(p)])
  BY <1>3
<1>. QED
  BY <1>2, <1>3, <1>4, <1>5 DEF s

\* A signal is taken off the wire.
LEMMA WireShrinks ==
  ASSUME TypeOK, NEW p \in Peers, wire[p] # <<>>,
         wire' = [wire EXCEPT ![p] = Tail(@)]
  PROVE  /\ Elems(wire[p]) = Elems(wire'[p]) \cup {Head(wire[p])}
         /\ Head(wire[p]) \in Signals
         /\ wire'[Other(p)] = wire[Other(p)]
<1>1. wire[p] \in Seq(Signals)
  BY DEF TypeOK
<1>2. wire'[p] = Tail(wire[p]) /\ wire'[Other(p)] = wire[Other(p)]
  BY TwoPages DEF TypeOK
<1>. QED
  BY <1>1, <1>2, TailElems

\* An answer that was created earlier is marked; nothing else changes.
AnswerIce(p) == IF peers[p].local # None /\ peers[p].remote = peers[p].pend.ice
                THEN peers[p].local ELSE credentials[p] + 1
Unmarked(o) == o.op = "setLocalAnswer" /\ ~o.mark

LEMMA ChainMarked ==
  ASSUME TypeOK, NEW p \in Peers, AnswerCreated(p)
  PROVE  /\ AnswerIce(p) \in Credentials
         /\ \A o \in Elems(chain[p]) :
              o \in Elems(chain'[p]) \/ o.op = "setLocalAnswer" \/ o = Head(chain[p])
         /\ \A o \in Elems(chain'[p]) :
              /\ o.op # "setLocalAnswer" => o \in Elems(chain[p])
              /\ Unmarked(o) => o.ice = AnswerIce(p)
         /\ \E o \in Elems(chain'[p]) : Unmarked(o)
         /\ chain'[p] # <<>>
         /\ chain'[Other(p)] = chain[Other(p)]
<1>. DEFINE rest == Tail(chain[p])
            older == [i \in DOMAIN rest |->
                        IF rest[i].op = "setLocalAnswer"
                        THEN [rest[i] EXCEPT !.mark = TRUE] ELSE rest[i]]
            ice == AnswerIce(p)
            e == Op("setLocalAnswer", ice, FALSE)
<1>1. chain' = [chain EXCEPT ![p] = Append(older, e)]
  BY DEF AnswerCreated, AnswerIce
<1>2. chain[p] # <<>> /\ chain[p] \in Seq(Operations) /\ rest \in Seq(Operations)
  BY ChainType DEF AnswerCreated, Settles
<1>3. ice \in Credentials
  <2>1. credentials[p] \in Nat
    BY DEF TypeOK
  <2>. QED
    BY <2>1, PeerType DEF AnswerIce
<1>4. e \in Operations
  BY <1>3 DEF Op, Operations
<1>5. /\ Len(rest) \in Nat /\ DOMAIN rest = 1..Len(rest)
      /\ \A i \in DOMAIN rest : rest[i] \in Operations
  BY <1>2
<1>6. \A o \in Operations : o.op = "setLocalAnswer" =>
         LET m == [o EXCEPT !.mark = TRUE]
         IN  m \in Operations /\ m.op = "setLocalAnswer" /\ m.mark
  BY DEF Operations
<1>7. \A i \in 1..Len(rest) :
         /\ older[i] \in Operations
         /\ IF rest[i].op = "setLocalAnswer"
            THEN older[i].op = "setLocalAnswer" /\ older[i].mark
            ELSE older[i] = rest[i]
  BY <1>5, <1>6
<1>8. older \in [1..Len(rest) -> Operations]
  BY <1>5, <1>7
<1>. HIDE DEF older, rest
<1>9. older \in Seq(Operations) /\ Len(older) = Len(rest)
  BY <1>5, <1>8
<1>15. Unmarked(e) /\ e.ice = ice
  BY DEF Op, Unmarked
<1>. HIDE DEF e, ice
<1>10. Elems(Append(older, e)) = Elems(older) \cup {e} /\ Append(older, e) # <<>>
  BY <1>4, <1>9, AppendElems
<1>11. chain'[p] = Append(older, e) /\ chain'[Other(p)] = chain[Other(p)]
  BY <1>1, TwoPages DEF TypeOK
<1>12. \A o \in Elems(older) : IF o.op = "setLocalAnswer" THEN o.mark ELSE o \in Elems(rest)
  BY <1>7, <1>9 DEF Elems
<1>13. \A o \in Elems(rest) : o \in Elems(older) \/ o.op = "setLocalAnswer"
  BY <1>7, <1>9 DEF Elems
<1>14. Elems(chain[p]) = Elems(rest) \cup {Head(chain[p])}
  BY <1>2, TailElems DEF rest
<1>16. \A o \in Elems(chain[p]) :
          o \in Elems(chain'[p]) \/ o.op = "setLocalAnswer" \/ o = Head(chain[p])
  BY <1>10, <1>11, <1>13, <1>14
<1>17. \A o \in Elems(chain'[p]) : o = e \/ o \in Elems(older)
  BY <1>10, <1>11
<1>18. \A o \in Elems(chain'[p]) : /\ o.op # "setLocalAnswer" => o \in Elems(chain[p])
                                   /\ Unmarked(o) => o.ice = ice
  BY <1>12, <1>14, <1>15, <1>17 DEF Unmarked
<1>19. e \in Elems(chain'[p])
  BY <1>10, <1>11
<1>. QED
  BY <1>3, <1>10, <1>11, <1>15, <1>16, <1>18, <1>19 DEF ice

(***************************************************************************)
(* No page is left half way.  Two facts make it inductive: who has applied *)
(* an offer has its answer under way, and an offer that waits for an       *)
(* answer is itself under way, or applied by the other page, or answered.  *)
(***************************************************************************)
Made == \A p \in Peers : peers[p].made \/ (peers[p] = NoPeer /\ chain[p] = <<>>)

Answers(o) == o.op = "createAnswer" \/ (o.op = "setLocalAnswer" /\ ~o.mark)
AnswerDue == \A p \in Peers : Signalling(p) = "have-remote-offer" =>
                                \E o \in Elems(chain[p]) : Answers(o)

OfferOut(p) == \/ returned[p] # <<>>
               \/ \E s \in Elems(wire[Other(p)]) : s.type = "offer"
               \/ \E o \in Elems(chain[Other(p)]) : o.op = "setRemoteOffer"
               \/ Signalling(Other(p)) = "have-remote-offer"
               \/ \E s \in Elems(wire[p]) : s.type = "answer"
               \/ \E o \in Elems(chain[p]) : o.op = "setRemoteAnswer"
OfferCarried == \A p \in Peers : Signalling(p) = "have-local-offer" => OfferOut(p)

LEMMA QuietInit == Init => Made /\ AnswerDue /\ OfferCarried
BY DEF Init, Made, AnswerDue, OfferCarried, Signalling, NoPeer

\* An entry that was made stays; only made ones have operations.
LEMMA MadeStep == TypeOK /\ Made /\ [Next]_vars => Made'
<1>. SUFFICES ASSUME TypeOK, Made, [Next]_vars PROVE Made'
  OBVIOUS
<1>1. CASE UNCHANGED vars
  BY <1>1 DEF vars, Made
<1>. SUFFICES ASSUME NEW p \in Peers,
                     \/ Initialize(p) \/ CreateOffer(p) \/ HandleSignal(p)
                     \/ Settle(p) \/ OnIceCandidate(p) \/ RelayOffer(p),
                     NEW q \in Peers
              PROVE  (peers[q].made \/ (peers[q] = NoPeer /\ chain[q] = <<>>))'
  BY <1>1 DEF Next, Made
<1>. USE DEF TypeOK, Made
<1>2. CASE Initialize(p) \/ OnIceCandidate(p) \/ RelayOffer(p)
  <2>1. peers' = peers /\ chain' = chain
    BY <1>2 DEF Initialize, OnIceCandidate, RelayOffer
  <2>. QED
    BY <2>1
<1>3. CASE CreateOffer(p) \/ HandleSignal(p)
  <2>1. GetOrCreatePeer(p).made
    BY DEF GetOrCreatePeer, NewPeer, NoPeer
  <2>2. /\ peers' = [peers EXCEPT ![p] = GetOrCreatePeer(p)]
        /\ \E s : chain' = [chain EXCEPT ![p] = s]
    BY <1>3 DEF CreateOffer, HandleSignal
  <2>. QED
    BY <2>1, <2>2
<1>4. CASE Settle(p)
  <2>1. chain[p] # <<>> /\ peers[p].made
    BY <1>4 DEF Settle, Reject, OfferCreated, OfferApplied, RemoteOfferApplied,
                AnswerCreated, AnswerApplied, RemoteAnswerApplied, CandidateAdded, Settles
  <2>2. \E r, s : /\ peers' = [peers EXCEPT ![p] = r] /\ r.made
                  /\ chain' = [chain EXCEPT ![p] = s]
    <3>1. CASE Reject(p) \/ OfferCreated(p) \/ AnswerCreated(p) \/ CandidateAdded(p)
      <4>1. peers' = [peers EXCEPT ![p] = peers[p]]
        BY <3>1 DEF Reject, OfferCreated, AnswerCreated, CandidateAdded
      <4>2. \E s : chain' = [chain EXCEPT ![p] = s]
        BY <3>1 DEF Reject, OfferCreated, AnswerCreated, CandidateAdded
      <4>. QED
        BY <2>1, <4>1, <4>2
    <3>2. CASE OfferApplied(p) \/ RemoteOfferApplied(p)
      <4>1. PICK r : peers' = [peers EXCEPT ![p].pend = r]
        BY <3>2 DEF OfferApplied, RemoteOfferApplied
      <4>2. peers' = [peers EXCEPT ![p] = [peers[p] EXCEPT !.pend = r]]
        BY <4>1
      <4>3. [peers[p] EXCEPT !.pend = r].made
        BY <2>1
      <4>4. \E s : chain' = [chain EXCEPT ![p] = s]
        BY <3>2 DEF OfferApplied, RemoteOfferApplied
      <4>. QED
        BY <4>2, <4>3, <4>4
    <3>3. CASE AnswerApplied(p) \/ RemoteAnswerApplied(p)
      <4>1. PICK l, m : peers' = [peers EXCEPT ![p] =
                [peers[p] EXCEPT !.local = l, !.remote = m, !.pend = NoOffer]]
        BY <3>3 DEF AnswerApplied, RemoteAnswerApplied
      <4>2. [peers[p] EXCEPT !.local = l, !.remote = m, !.pend = NoOffer].made
        BY <2>1
      <4>3. \E s : chain' = [chain EXCEPT ![p] = s]
        BY <3>3 DEF AnswerApplied, RemoteAnswerApplied
      <4>. QED
        BY <4>1, <4>2, <4>3
    <3>. QED
      BY <1>4, <3>1, <3>2, <3>3 DEF Settle
  <2>. QED
    BY <2>2
<1>. QED
  BY <1>2, <1>3, <1>4

\* GetOrCreatePeer leaves the description of an entry as it is.
LEMMA EntryKept ==
  ASSUME TypeOK, Made, NEW p \in Peers,
         peers' = [peers EXCEPT ![p] = GetOrCreatePeer(p)]
  PROVE  \A q \in Peers : /\ peers'[q].pend = peers[q].pend
                          /\ peers'[q].local = peers[q].local
                          /\ peers'[q].remote = peers[q].remote
                          /\ Signalling(q)' = Signalling(q)
<1>1. \A q \in Peers : peers'[q] = IF q = p THEN GetOrCreatePeer(p) ELSE peers[q]
  BY DEF TypeOK
<1>2. /\ GetOrCreatePeer(p).pend = peers[p].pend
      /\ GetOrCreatePeer(p).local = peers[p].local
      /\ GetOrCreatePeer(p).remote = peers[p].remote
  BY DEF Made, GetOrCreatePeer, NewPeer, NoPeer
<1>. QED
  BY <1>1, <1>2 DEF Signalling

\* What settles at one page leaves the other alone, but for the signals to it.
LEMMA SettleElsewhere ==
  ASSUME TypeOK, NEW p \in Peers, Settle(p)
  PROVE  /\ chain[p] # <<>>
         /\ peers'[Other(p)] = peers[Other(p)]
         /\ Signalling(Other(p))' = Signalling(Other(p))
         /\ chain'[Other(p)] = chain[Other(p)]
         /\ returned'[Other(p)] = returned[Other(p)]
         /\ wire'[p] = wire[p]
         /\ callers' = callers /\ gathered' = gathered
<1>. USE TwoPages DEF TypeOK, Settles, history
<1>1. CASE Reject(p)
  BY <1>1 DEF Reject, Signalling
<1>2. CASE OfferCreated(p)
  BY <1>2 DEF OfferCreated, Signalling
<1>3. CASE OfferApplied(p)
  BY <1>3 DEF OfferApplied, Signalling
<1>4. CASE RemoteOfferApplied(p)
  BY <1>4 DEF RemoteOfferApplied, Signalling
<1>5. CASE AnswerCreated(p)
  BY <1>5 DEF AnswerCreated, Signalling
<1>6. CASE AnswerApplied(p)
  BY <1>6 DEF AnswerApplied, SendSignal, Signalling
<1>7. CASE RemoteAnswerApplied(p)
  BY <1>7 DEF RemoteAnswerApplied, Signalling
<1>8. CASE CandidateAdded(p)
  BY <1>8 DEF CandidateAdded, Signalling
<1>. QED
  BY <1>1, <1>2, <1>3, <1>4, <1>5, <1>6, <1>7, <1>8 DEF Settle

\* A page that has applied an offer goes on having its answer under way.
LEMMA AnswerDueStep == TypeOK /\ Made /\ AnswerDue /\ [Next]_vars => AnswerDue'
<1>. SUFFICES ASSUME TypeOK, Made, AnswerDue, [Next]_vars PROVE AnswerDue'
  OBVIOUS
<1>1. CASE UNCHANGED vars
  BY <1>1 DEF vars, AnswerDue, Signalling
<1>. SUFFICES ASSUME NEW p \in Peers,
                     \/ Initialize(p) \/ CreateOffer(p) \/ HandleSignal(p)
                     \/ Settle(p) \/ OnIceCandidate(p) \/ RelayOffer(p)
              PROVE  AnswerDue'
  BY <1>1 DEF Next
<1>. USE DEF AnswerDue
<1>2. CASE Initialize(p) \/ OnIceCandidate(p) \/ RelayOffer(p)
  <2>1. peers' = peers /\ chain' = chain
    BY <1>2 DEF Initialize, OnIceCandidate, RelayOffer
  <2>. QED
    BY <2>1 DEF Signalling
<1>3. CASE CreateOffer(p) \/ HandleSignal(p)
  <2>1. \A q \in Peers : Signalling(q)' = Signalling(q)
    BY <1>3, EntryKept DEF CreateOffer, HandleSignal
  <2>2. PICK e \in Operations : chain' = [chain EXCEPT ![p] = Append(@, e)]
    <3>1. CASE CreateOffer(p)
      <4>1. Op("createOffer", None, FALSE) \in Operations
        BY DEF Op, Operations
      <4>. QED
        BY <3>1, <4>1 DEF CreateOffer
    <3>2. CASE HandleSignal(p)
      <4>1. Head(wire[p]) \in Signals
        BY <3>2, WireShrinks DEF HandleSignal
      <4>2. FirstOperation(Head(wire[p])) \in Operations
        BY <4>1 DEF FirstOperation, Signals, Operations, Op
      <4>. QED
        BY <3>2, <4>2 DEF HandleSignal
    <3>. QED
      BY <1>3, <3>1, <3>2
  <2>3. /\ Elems(chain'[p]) = Elems(chain[p]) \cup {e}
        /\ chain'[Other(p)] = chain[Other(p)]
    BY <2>2, ChainGrows, Zenon
  <2>. QED
    BY <2>1, <2>3, TwoPages
<1>4. CASE Settle(p)
  <2>1. SUFFICES Signalling(p)' = "have-remote-offer" => \E o \in Elems(chain'[p]) : Answers(o)
    <3>1. /\ Signalling(Other(p))' = Signalling(Other(p))
          /\ chain'[Other(p)] = chain[Other(p)]
      BY <1>4, SettleElsewhere
    <3>. QED
      BY <3>1, TwoPages
  <2>2. CASE Reject(p) \/ CandidateAdded(p)
    <3>1. /\ peers' = peers /\ chain[p] # <<>>
          /\ chain' = [chain EXCEPT ![p] = Tail(@)]
      BY <2>2 DEF Reject, CandidateAdded, Settles
    <3>2. Elems(chain[p]) = Elems(chain'[p]) \cup {Head(chain[p])}
      BY <3>1, ChainShrinks
    <3>3. Signalling(p) = "have-remote-offer" => ~Answers(Head(chain[p]))
      BY <2>2 DEF Reject, Refused, CandidateAdded, Settles, Answers
    <3>. QED
      BY <3>1, <3>2, <3>3 DEF Signalling
  <2>3. CASE OfferCreated(p)
    BY <2>3 DEF OfferCreated, Settles, Refused, Signalling
  <2>4. CASE OfferApplied(p)
    <3>1. peers'[p].pend.by = p
      BY <2>4 DEF OfferApplied, TypeOK
    <3>. QED
      BY <3>1 DEF Signalling
  <2>5. CASE RemoteOfferApplied(p)
    <3>1. Op("createAnswer", None, FALSE) \in Operations
      BY DEF Op, Operations
    <3>2. PICK e \in Operations : /\ e.op = "createAnswer"
                                  /\ chain' = [chain EXCEPT ![p] = Append(Tail(@), e)]
      <4>1. Op("createAnswer", None, FALSE).op = "createAnswer"
        BY DEF Op
      <4>2. chain' = [chain EXCEPT ![p] = Append(Tail(@), Op("createAnswer", None, FALSE))]
        BY <2>5 DEF RemoteOfferApplied
      <4>. QED
        BY <3>1, <4>1, <4>2
    <3>3. e \in Elems(chain'[p])
      <4>1. chain[p] # <<>>
        BY <2>5 DEF RemoteOfferApplied, Settles
      <4>2. Elems(chain'[p]) = Elems(Tail(chain[p])) \cup {e}
        BY <3>2, <4>1, ChainTurns, Zenon
      <4>. QED
        BY <4>2
    <3>. QED
      BY <3>2, <3>3 DEF Answers
  <2>6. CASE AnswerCreated(p)
    BY <2>6, ChainMarked DEF Answers, Unmarked
  <2>7. CASE AnswerApplied(p) \/ RemoteAnswerApplied(p)
    <3>1. ASSUME AnswerApplied(p) PROVE peers'[p].pend = NoOffer
      BY <3>1 DEF AnswerApplied, TypeOK
    <3>2. ASSUME RemoteAnswerApplied(p) PROVE peers'[p].pend = NoOffer
      BY <3>2 DEF RemoteAnswerApplied, TypeOK
    <3>. QED
      BY <2>7, <3>1, <3>2 DEF Signalling
  <2>. QED
    BY <1>4, <2>2, <2>3, <2>4, <2>5, <2>6, <2>7 DEF Settle
<1>. QED
  BY <1>2, <1>3, <1>4

\* An offer that waits for an answer goes on being under way.
LEMMA OfferCarriedStep == TypeOK /\ Made /\ OfferCarried /\ [Next]_vars => OfferCarried'
<1>. SUFFICES ASSUME TypeOK, Made, OfferCarried, [Next]_vars PROVE OfferCarried'
  OBVIOUS
<1>1. CASE UNCHANGED vars
  BY <1>1 DEF vars, OfferCarried, OfferOut, Signalling
<1>. SUFFICES ASSUME NEW p \in Peers,
                     \/ Initialize(p) \/ CreateOffer(p) \/ HandleSignal(p)
                     \/ Settle(p) \/ OnIceCandidate(p) \/ RelayOffer(p)
              PROVE  OfferCarried'
  BY <1>1 DEF Next
<1>. DEFINE q == Other(p)
<1>q. q \in Peers /\ q # p /\ Other(q) = p
  BY TwoPages
<1>2. SUFFICES /\ Signalling(p)' = "have-local-offer" => OfferOut(p)'
               /\ Signalling(q)' = "have-local-offer" => OfferOut(q)'
  BY TwoPages DEF OfferCarried
<1>. HIDE DEF q
<1>p. Other(p) = q
  BY DEF q
<1>c. /\ Signalling(p) = "have-local-offer" => OfferOut(p)
      /\ Signalling(q) = "have-local-offer" => OfferOut(q)
  BY <1>q DEF OfferCarried
<1>3. CASE Initialize(p)
  BY <1>3, <1>c DEF Initialize, OfferOut, Signalling
<1>4. CASE CreateOffer(p)
  <2>1. /\ Signalling(p)' = Signalling(p) /\ Signalling(q)' = Signalling(q)
        /\ returned' = returned /\ wire' = wire
    BY <1>4, <1>q, EntryKept DEF CreateOffer
  <2>2. Op("createOffer", None, FALSE) \in Operations
    BY DEF Op, Operations
  <2>3. PICK e \in Operations : chain' = [chain EXCEPT ![p] = Append(@, e)]
    BY <1>4, <2>2 DEF CreateOffer
  <2>4. Elems(chain'[p]) = Elems(chain[p]) \cup {e} /\ chain'[Other(p)] = chain[Other(p)]
    BY <2>3, ChainGrows, Zenon
  <2>. QED
    BY <1>c, <1>q, <1>p, <2>1, <2>4 DEF OfferOut
<1>5. CASE HandleSignal(p)
  <2>1. /\ Signalling(p)' = Signalling(p) /\ Signalling(q)' = Signalling(q)
        /\ returned' = returned
    BY <1>5, <1>q, EntryKept DEF HandleSignal
  <2>2. wire[p] # <<>> /\ wire' = [wire EXCEPT ![p] = Tail(@)]
    BY <1>5 DEF HandleSignal
  <2>3. /\ Elems(wire[p]) = Elems(wire'[p]) \cup {Head(wire[p])}
        /\ Head(wire[p]) \in Signals
        /\ wire'[q] = wire[q]
    BY <2>2, <1>p, WireShrinks, Zenon
  <2>4. PICK e \in Operations : /\ e = FirstOperation(Head(wire[p]))
                                /\ chain' = [chain EXCEPT ![p] = Append(@, e)]
    <3>1. FirstOperation(Head(wire[p])) \in Operations
      BY <2>3 DEF FirstOperation, Signals, Operations, Op
    <3>. QED
      BY <1>5, <3>1 DEF HandleSignal
  <2>5. Elems(chain'[p]) = Elems(chain[p]) \cup {e} /\ chain'[q] = chain[q]
    BY <2>4, <1>p, ChainGrows, Zenon
  <2>6. /\ Head(wire[p]).type = "offer" => e.op = "setRemoteOffer"
        /\ Head(wire[p]).type = "answer" => e.op = "setRemoteAnswer"
    BY <2>4 DEF FirstOperation, Op
  <2>. QED
    BY <1>c, <1>q, <1>p, <2>1, <2>3, <2>5, <2>6 DEF OfferOut
<1>6. CASE OnIceCandidate(p)
  <2>1. PICK g \in LocalIce(p) :
          SendSignal(p, "candidate", g, \E i \in DOMAIN returned[p] : returned[p][i] = g)
    BY <1>6 DEF OnIceCandidate
  <2>2. g \in Credentials
    BY PeerType
  <2>3. Elems(wire[q]) \subseteq Elems(wire'[q]) /\ wire'[p] = wire[p]
    <3>. DEFINE early == \E i \in DOMAIN returned[p] : returned[p][i] = g
    <3>1. early \in BOOLEAN /\ SendSignal(p, "candidate", g, early)
      BY <2>1
    <3>. HIDE DEF early
    <3>. QED
      BY <2>2, <3>1, <1>p, WireGrows
  <2>4. peers' = peers /\ chain' = chain /\ returned' = returned
    BY <1>6 DEF OnIceCandidate
  <2>. QED
    BY <1>c, <1>q, <1>p, <2>3, <2>4 DEF OfferOut, Signalling
<1>7. CASE RelayOffer(p)
  <2>1. Head(returned[p]) \in Credentials
    BY <1>7, TailElems DEF RelayOffer, TypeOK
  <2>2. /\ Elems(wire[q]) \subseteq Elems(wire'[q])
        /\ \E s \in Elems(wire'[q]) : s.type = "offer"
        /\ wire'[p] = wire[p]
    BY <1>7, <1>p, <2>1, WireGrows DEF RelayOffer
  <2>3. peers' = peers /\ chain' = chain /\ returned'[q] = returned[q]
    BY <1>7, <1>q DEF RelayOffer, TypeOK
  <2>6. OfferOut(p)'
    BY <1>p, <2>2 DEF OfferOut
  <2>7. Signalling(q)' = "have-local-offer" => OfferOut(q)'
    BY <1>c, <1>q, <2>2, <2>3 DEF OfferOut, Signalling
  <2>. QED
    BY <2>6, <2>7
<1>8. CASE Settle(p)
  <2>e. /\ chain[p] # <<>>
        /\ Signalling(q)' = Signalling(q)
        /\ chain'[q] = chain[q] /\ returned'[q] = returned[q] /\ wire'[p] = wire[p]
    BY <1>8, <1>p, SettleElsewhere
  <2>1. CASE Reject(p) \/ CandidateAdded(p)
    <3>1. /\ chain' = [chain EXCEPT ![p] = Tail(@)]
          /\ peers' = peers /\ wire' = wire /\ returned' = returned
      BY <2>1 DEF Reject, CandidateAdded, Settles
    <3>2. Elems(chain[p]) = Elems(chain'[p]) \cup {Head(chain[p])}
      BY <2>e, <3>1, ChainShrinks
    <3>3. /\ Head(chain[p]).op # "setRemoteOffer"
          /\ Head(chain[p]).op = "setRemoteAnswer" => Signalling(p) # "have-local-offer"
      BY <2>1 DEF Reject, CandidateAdded, Refused, Settles
    <3>4. Signalling(p)' = Signalling(p)
      BY <3>1 DEF Signalling
    <3>. QED
      BY <1>c, <1>q, <1>p, <2>e, <3>1, <3>2, <3>3, <3>4 DEF OfferOut
  <2>2. CASE OfferCreated(p) \/ OfferApplied(p)
    <3>1. /\ Elems(chain[p]) \subseteq Elems(chain'[p]) \cup {Head(chain[p])}
          /\ Head(chain[p]).op \in {"createOffer", "setLocalOffer"}
      <4>1. CASE OfferCreated(p)
        <5>1. Head(chain[p]).op = "createOffer"
          BY <4>1 DEF OfferCreated, Settles
        <5>2. PICK ice \in Credentials :
                chain' = [chain EXCEPT ![p] = Append(Tail(@), Op("setLocalOffer", ice, FALSE))]
          BY <4>1, OfferHasCredentials
        <5>3. Op("setLocalOffer", ice, FALSE) \in Operations
          BY DEF Op, Operations
        <5>4. PICK e \in Operations : chain' = [chain EXCEPT ![p] = Append(Tail(@), e)]
          BY <5>2, <5>3
        <5>5. /\ Elems(chain[p]) = Elems(Tail(chain[p])) \cup {Head(chain[p])}
              /\ Elems(chain'[p]) = Elems(Tail(chain[p])) \cup {e}
          BY <2>e, <5>4, ChainTurns, Zenon
        <5>. QED
          BY <5>1, <5>5
      <4>2. CASE OfferApplied(p)
        BY <4>2, <2>e, ChainShrinks DEF OfferApplied, Settles
      <4>. QED
        BY <2>2, <4>1, <4>2
    <3>2. Signalling(p) # "have-remote-offer" /\ wire' = wire
      BY <2>2, <3>1 DEF OfferCreated, OfferApplied, Settles, Refused
    <3>3. returned'[p] # <<>> \/ (peers' = peers /\ returned' = returned)
      <4>1. CASE OfferCreated(p)
        BY <4>1 DEF OfferCreated
      <4>2. CASE OfferApplied(p)
        <5>1. Head(chain[p]).ice \in Credentials
          BY <4>2, <2>e, ChainType DEF OfferApplied, Settles, Operations
        <5>2. returned'[p] = Append(returned[p], Head(chain[p]).ice)
          BY <4>2 DEF OfferApplied, TypeOK
        <5>3. returned[p] \in Seq(Credentials)
          BY DEF TypeOK
        <5>. QED
          BY <5>1, <5>2, <5>3, AppendElems
      <4>. QED
        BY <2>2, <4>1, <4>2
    <3>. QED
      BY <1>c, <1>q, <1>p, <2>e, <3>1, <3>2, <3>3 DEF OfferOut, Signalling
  <2>3. CASE RemoteOfferApplied(p)
    <3>1. peers'[p].pend.by = q
      BY <2>3, <1>p DEF RemoteOfferApplied, TypeOK
    <3>2. Signalling(p)' = "have-remote-offer"
      BY <3>1, <1>q, PeersAssumption DEF Signalling, NoOffer
    <3>. QED
      BY <3>2, <1>q DEF OfferOut
  <2>4. CASE AnswerCreated(p)
    <3>1. Head(chain[p]).op = "createAnswer"
          /\ peers' = peers /\ wire' = wire /\ returned' = returned
      BY <2>4 DEF AnswerCreated, Settles
    <3>2. \A o \in Elems(chain[p]) : \/ o \in Elems(chain'[p])
                                     \/ o.op \in {"setLocalAnswer", "createAnswer"}
      BY <2>4, <3>1, ChainMarked
    <3>. QED
      BY <1>c, <1>q, <1>p, <2>e, <3>1, <3>2 DEF OfferOut, Signalling
  <2>5. CASE AnswerApplied(p)
    <3>1. Head(chain[p]).ice \in Credentials
      BY <2>5, <2>e, ChainType DEF AnswerApplied, Settles, Operations
    <3>2. \E s \in Elems(wire'[q]) : s.type = "answer"
      BY <2>5, <1>p, <3>1, WireGrows DEF AnswerApplied
    <3>3. Signalling(p)' = "stable"
      BY <2>5 DEF AnswerApplied, Signalling, TypeOK
    <3>5. OfferOut(q)'
      BY <3>2 DEF OfferOut
    <3>. QED
      BY <3>3, <3>5
  <2>6. CASE RemoteAnswerApplied(p)
    <3>1. Head(chain[p]).op = "setRemoteAnswer" /\ Signalling(p) = "have-local-offer"
      BY <2>6 DEF RemoteAnswerApplied, Settles, Refused
    <3>2. Elems(chain[p]) = Elems(chain'[p]) \cup {Head(chain[p])}
      BY <2>6, <2>e, ChainShrinks DEF RemoteAnswerApplied
    <3>3. Signalling(p)' = "stable" /\ wire' = wire
      BY <2>6 DEF RemoteAnswerApplied, Signalling, TypeOK
    <3>. QED
      BY <1>c, <1>q, <2>e, <3>1, <3>2, <3>3 DEF OfferOut
  <2>. QED
    BY <1>8, <2>1, <2>2, <2>3, <2>4, <2>5, <2>6 DEF Settle
<1>. QED
  BY <1>3, <1>4, <1>5, <1>6, <1>7, <1>8

Halfway == Made /\ AnswerDue /\ OfferCarried

LEMMA HalfwayHolds == Spec => [](TypeOK /\ Halfway)
<1>1. Init => TypeOK /\ Halfway
  BY TypeInit, QuietInit DEF Halfway
<1>2. TypeOK /\ Halfway /\ [Next]_vars => (TypeOK /\ Halfway)'
  BY TypeStep, MadeStep, AnswerDueStep, OfferCarriedStep DEF Halfway
<1>. QED
  BY <1>1, <1>2, PTL DEF Spec

LEMMA QuietSettled == TypeOK /\ Halfway => QuietIsStable
<1>. SUFFICES ASSUME TypeOK, Halfway, Quiet, NEW p \in Peers
              PROVE  Signalling(p) = "stable"
  BY DEF QuietIsStable
<1>1. \A q \in Peers : Signalling(q) # "have-remote-offer"
  BY EmptyElems DEF Quiet, Halfway, AnswerDue
<1>2. ~OfferOut(p)
  BY <1>1, EmptyElems, TwoPages DEF Quiet, OfferOut
<1>. QED
  BY <1>1, <1>2 DEF Halfway, OfferCarried, Signalling

\* Whatever calls of the two pages meet, when nothing is under way any more no
\* page waits for an answer and none owes one.
THEOREM NoPageHalfWay == Spec => []QuietIsStable
<1>. QED
  BY HalfwayHolds, QuietSettled, PTL

(***************************************************************************)
(* One page calls.  While a page `a' is the only one that has called       *)
(* createOffer, all its offers and candidates carry its first credentials, *)
(* all answers and candidates of the other page those it has applied.      *)
(***************************************************************************)
Starts(o)   == o.op \in {"createOffer", "setLocalOffer"}
OneStart(s) == \A i, j \in 1..Len(s) : Starts(s[i]) /\ Starts(s[j]) => i = j
Offered(a)  == peers[a].pend # NoOffer \/ peers[a].local # None

\* The caller's chain and what is on its way to it; ice: the answerer's.
CallerOps(s, ice) ==
  \A o \in Elems(s) :
    /\ Starts(o) \/ o.op \in {"setRemoteAnswer", "addIceCandidate"}
    /\ o.op = "setLocalOffer" => o.ice = 1
    /\ o.op \in {"setRemoteAnswer", "addIceCandidate"} => o.ice = ice
CallerSide(a) ==
  /\ CallerOps(chain[a], peers[Other(a)].local)
  /\ OneStart(chain[a])
  /\ \A s \in Elems(wire[a]) : s.type # "offer" /\ s.ice = peers[Other(a)].local
  /\ \A ice \in Elems(returned[a]) : ice = 1

\* The same of the other page, which has one answer at a time.
AnswererOps(s, ice) ==
  /\ \A o \in Elems(s) :
       /\ o.op \in {"setRemoteOffer", "createAnswer", "setLocalAnswer", "addIceCandidate"}
       /\ o.op \in {"setRemoteOffer", "addIceCandidate"} => o.ice = 1
       /\ Unmarked(o) => ice \in {None, o.ice}
  /\ \A o, u \in Elems(s) : Unmarked(o) /\ Unmarked(u) => o.ice = u.ice
AnswererSide(b) ==
  /\ AnswererOps(chain[b], peers[b].local)
  /\ \A s \in Elems(wire[b]) : s.type # "answer" /\ s.ice = 1
  /\ returned[b] = <<>>

\* What the two pages have applied.
Descriptions(a) ==
  LET b == Other(a) IN
  /\ peers[a].pend \in {NoOffer, [by |-> a, ice |-> 1]}
  /\ peers[b].pend \in {NoOffer, [by |-> a, ice |-> 1]}
  /\ IF peers[a].local = None THEN peers[a].remote = None
     ELSE peers[a].local = 1 /\ peers[a].remote = peers[b].local /\ peers[b].local # None
  /\ peers[b].remote = IF peers[b].local = None THEN None ELSE 1

\* The caller's first offer is still to come, or on its way, or applied.
Underway(a) ==
  /\ a \in callers => Offered(a) \/ \E o \in Elems(chain[a]) : Starts(o)
  /\ \/ Offered(a)
     \/ \E o \in Elems(chain[a]) : o.op = "setLocalOffer"
     \/ credentials[a] = 0
  /\ \/ Offered(a)
     \/ /\ returned[a] = <<>> /\ ~Offered(Other(a))
        /\ \A s \in Elems(wire[Other(a)]) : s.type # "offer"
        /\ \A o \in Elems(chain[Other(a)]) : o.op # "setRemoteOffer"

OneCalls(a) == /\ CallerSide(a) /\ AnswererSide(Other(a))
               /\ Descriptions(a) /\ Underway(a)

(***************************************************************************)
(* At most one operation of createOffer is in a chain.                     *)
(***************************************************************************)
LEMMA StartBehind ==
  ASSUME NEW s \in Seq(Operations), NEW e \in Operations, OneStart(s),
         ~Starts(e) \/ \A o \in Elems(s) : ~Starts(o)
  PROVE  OneStart(Append(s, e))
<1>. DEFINE t == Append(s, e)
<1>1. /\ Len(t) = Len(s) + 1 /\ Len(s) \in Nat /\ t[Len(s) + 1] = e
      /\ \A i \in 1..Len(s) : t[i] = s[i]
  OBVIOUS
<1>2. \A i \in 1..Len(t) : i \in 1..Len(s) \/ i = Len(s) + 1
  BY <1>1
<1>3. \A i \in 1..Len(s) : s[i] \in Elems(s)
  BY DEF Elems
<1>. HIDE DEF t
<1>4. ASSUME NEW i \in 1..Len(t), NEW j \in 1..Len(t), Starts(t[i]), Starts(t[j])
      PROVE  i = j
  BY <1>1, <1>2, <1>3, <1>4 DEF OneStart
<1>. QED
  BY <1>4 DEF OneStart, t

LEMMA StartAhead ==
  ASSUME NEW s \in Seq(Operations), s # <<>>, OneStart(s)
  PROVE  /\ OneStart(Tail(s))
         /\ Starts(Head(s)) => \A o \in Elems(Tail(s)) : ~Starts(o)
<1>. DEFINE t == Tail(s)
<1>1. /\ Len(s) \in Nat /\ Len(s) > 0 /\ Len(t) = Len(s) - 1 /\ Head(s) = s[1]
      /\ \A i \in 1..Len(t) : t[i] = s[i + 1]
  OBVIOUS
<1>. HIDE DEF t
<1>2. \A i \in 1..Len(t) : i + 1 \in 1..Len(s) /\ i + 1 # 1 /\ t[i] = s[i + 1]
  BY <1>1
<1>3. 1 \in 1..Len(s)
  BY <1>1
<1>4. ASSUME NEW i \in 1..Len(t), NEW j \in 1..Len(t), Starts(t[i]), Starts(t[j])
      PROVE  i = j
  <2>1. i + 1 = j + 1
    BY <1>2, <1>4 DEF OneStart
  <2>. QED
    BY <2>1
<1>5. ASSUME Starts(Head(s)), NEW i \in 1..Len(t) PROVE ~Starts(t[i])
  BY <1>1, <1>2, <1>3, <1>5 DEF OneStart
<1>. QED
  BY <1>4, <1>5 DEF OneStart, Elems, t

(***************************************************************************)
(* What one page's steps do while only one calls.                          *)
(***************************************************************************)
\* A page that has been handed a signal.
LEMMA SignalTaken ==
  ASSUME TypeOK, Made, NEW p \in Peers, HandleSignal(p)
  PROVE  /\ \A q \in Peers : /\ peers'[q].pend = peers[q].pend
                             /\ peers'[q].local = peers[q].local
                             /\ peers'[q].remote = peers[q].remote
         /\ returned' = returned /\ credentials' = credentials /\ callers' = callers
         /\ Head(wire[p]) \in Elems(wire[p]) /\ Head(wire[p]) \in Signals
         /\ Elems(wire'[p]) \subseteq Elems(wire[p])
         /\ wire'[Other(p)] = wire[Other(p)]
         /\ FirstOperation(Head(wire[p])) \in Operations
         /\ chain'[p] = Append(chain[p], FirstOperation(Head(wire[p])))
         /\ Elems(chain'[p]) = Elems(chain[p]) \cup {FirstOperation(Head(wire[p]))}
         /\ chain'[Other(p)] = chain[Other(p)]
<1>1. \A q \in Peers : /\ peers'[q].pend = peers[q].pend
                       /\ peers'[q].local = peers[q].local
                       /\ peers'[q].remote = peers[q].remote
  BY EntryKept DEF HandleSignal
<1>2. /\ wire[p] # <<>> /\ wire' = [wire EXCEPT ![p] = Tail(@)]
      /\ returned' = returned /\ credentials' = credentials /\ callers' = callers
  BY DEF HandleSignal, history
<1>3. /\ Elems(wire[p]) = Elems(wire'[p]) \cup {Head(wire[p])}
      /\ Head(wire[p]) \in Signals
      /\ wire'[Other(p)] = wire[Other(p)]
  BY <1>2, WireShrinks, Zenon
<1>4. FirstOperation(Head(wire[p])) \in Operations
  BY <1>3 DEF FirstOperation, Signals, Operations, Op
<1>5. PICK e \in Operations : e = FirstOperation(Head(wire[p]))
  BY <1>4
<1>6. chain' = [chain EXCEPT ![p] = Append(@, e)]
  BY <1>5 DEF HandleSignal
<1>7. Elems(chain'[p]) = Elems(chain[p]) \cup {e} /\ chain'[Other(p)] = chain[Other(p)]
  BY <1>6, ChainGrows, Zenon
<1>8. chain'[p] = Append(chain[p], e)
  BY <1>6 DEF TypeOK
<1>. QED
  BY <1>1, <1>2, <1>3, <1>5, <1>7, <1>8

\* A page whose head of chain goes and brings nothing with it.
LEMMA HeadTaken ==
  ASSUME TypeOK, NEW p \in Peers, chain[p] # <<>>,
         chain' = [chain EXCEPT ![p] = Tail(@)]
  PROVE  /\ Head(chain[p]) \in Elems(chain[p]) /\ Head(chain[p]) \in Operations
         /\ Elems(chain'[p]) \subseteq Elems(chain[p])
         /\ \A o \in Elems(chain[p]) : o \in Elems(chain'[p]) \/ o = Head(chain[p])
         /\ chain'[p] = Tail(chain[p])
         /\ OneStart(chain[p]) => OneStart(chain'[p])
<1>1. chain'[p] = Tail(chain[p]) /\ chain[p] \in Seq(Operations)
  BY DEF TypeOK
<1>. QED
  BY <1>1, TailElems, StartAhead

\* What an entry holds of the credentials it has applied.
LEMMA IceApplied ==
  ASSUME NEW a \in Peers, TypeOK, Descriptions(a)
  PROVE  /\ LocalIce(a) = IF Offered(a) THEN {1} ELSE {}
         /\ LocalIce(Other(a)) = IF peers[Other(a)].local = None THEN {}
                                 ELSE {peers[Other(a)].local}
         /\ Signalling(a) = IF peers[a].pend = NoOffer THEN "stable" ELSE "have-local-offer"
         /\ Signalling(Other(a)) = IF peers[Other(a)].pend = NoOffer THEN "stable"
                                   ELSE "have-remote-offer"
         /\ RemoteIce(a) = IF peers[a].remote = None THEN {} ELSE {peers[a].remote}
         /\ RemoteIce(Other(a)) = IF Offered(Other(a)) THEN {1} ELSE {}
<1>. DEFINE b == Other(a)
<1>1. b \in Peers /\ b # a /\ Other(b) = a
  BY TwoPages
<1>2. /\ peers[a].pend \in {NoOffer, [by |-> a, ice |-> 1]}
      /\ peers[b].pend \in {NoOffer, [by |-> a, ice |-> 1]}
      /\ peers[a].local \in {None, 1}
      /\ peers[b].remote = IF peers[b].local = None THEN None ELSE 1
  BY DEF Descriptions
<1>3. NoOffer.by # a /\ NoOffer.by # b /\ NoOffer # [by |-> a, ice |-> 1]
  BY <1>1, PeersAssumption DEF NoOffer
<1>4. /\ Pending(a, a) = IF peers[a].pend = NoOffer THEN {} ELSE {1}
      /\ Pending(b, b) = {} /\ Pending(a, b) = {}
      /\ Pending(b, a) = IF peers[b].pend = NoOffer THEN {} ELSE {1}
  BY <1>1, <1>2, <1>3 DEF Pending
<1>5. LocalIce(a) = IF Offered(a) THEN {1} ELSE {}
  <2>1. CASE peers[a].pend = NoOffer
    BY <1>2, <1>4, <2>1 DEF LocalIce, Offered
  <2>2. CASE peers[a].pend # NoOffer
    BY <1>2, <1>4, <2>2 DEF LocalIce, Offered
  <2>. QED
    BY <2>1, <2>2
<1>6. LocalIce(b) = IF peers[b].local = None THEN {} ELSE {peers[b].local}
  BY <1>4 DEF LocalIce
<1>7. /\ Signalling(a) = IF peers[a].pend = NoOffer THEN "stable" ELSE "have-local-offer"
      /\ Signalling(b) = IF peers[b].pend = NoOffer THEN "stable" ELSE "have-remote-offer"
  BY <1>1, <1>2, <1>3 DEF Signalling
<1>8. RemoteIce(a) = IF peers[a].remote = None THEN {} ELSE {peers[a].remote}
  BY <1>4 DEF RemoteIce
<1>9. RemoteIce(b) = IF Offered(b) THEN {1} ELSE {}
  <2>1. RemoteIce(b) = (Pending(b, a) \cup {peers[b].remote}) \ {None}
    BY <1>1 DEF RemoteIce
  <2>2. Pending(b, a) \in {{}, {1}} /\ (Pending(b, a) = {} <=> peers[b].pend = NoOffer)
    BY <1>4
  <2>3. /\ peers[b].remote \in {None, 1}
        /\ peers[b].remote = None <=> peers[b].local = None
    BY <1>2
  <2>. QED
    BY <2>1, <2>2, <2>3 DEF Offered
<1>. QED
  BY <1>5, <1>6, <1>7, <1>8, <1>9

\* An entry whose descriptions stay.
SameEntry(q) == /\ peers'[q].pend = peers[q].pend
                /\ peers'[q].local = peers[q].local
                /\ peers'[q].remote = peers[q].remote

LEMMA SameEntries ==
  ASSUME \A q \in Peers : SameEntry(q)
  PROVE  /\ \A q \in Peers : /\ Offered(q)' = Offered(q)
                             /\ LocalIce(q)' = LocalIce(q)
                             /\ RemoteIce(q)' = RemoteIce(q)
         /\ \A a \in Peers : Descriptions(a) => Descriptions(a)'
<1>. USE DEF SameEntry
<1>1. \A q \in Peers : Offered(q)' = Offered(q)
  BY DEF Offered
<1>2. \A q, r \in Peers : Pending(q, r)' = Pending(q, r)
  BY DEF Pending
<1>3. \A q \in Peers : LocalIce(q)' = LocalIce(q) /\ RemoteIce(q)' = RemoteIce(q)
  BY <1>2, TwoPages DEF LocalIce, RemoteIce
<1>4. ASSUME NEW a \in Peers, Descriptions(a) PROVE Descriptions(a)'
  BY <1>4, TwoPages DEF Descriptions
<1>. QED
  BY <1>1, <1>3, <1>4

\* A page of which nothing that the other's step concerns has changed.
LEMMA CallerKept ==
  ASSUME NEW a \in Peers, CallerSide(a), peers'[Other(a)].local = peers[Other(a)].local,
         chain'[a] = chain[a], wire'[a] = wire[a], returned'[a] = returned[a]
  PROVE  CallerSide(a)'
BY DEF CallerSide, CallerOps, OneStart, Starts

LEMMA AnswererKept ==
  ASSUME NEW b \in Peers, AnswererSide(b), peers'[b].local = peers[b].local,
         chain'[b] = chain[b], wire'[b] = wire[b], returned'[b] = returned[b]
  PROVE  AnswererSide(b)'
BY DEF AnswererSide, AnswererOps, Unmarked

(***************************************************************************)
(* The caller's steps.                                                     *)
(***************************************************************************)
LEMMA CallerSteps ==
  ASSUME TypeOK, Made, NEW a \in Peers, OneCalls(a),
         \/ Initialize(a) \/ CreateOffer(a) \/ HandleSignal(a)
         \/ Settle(a) \/ OnIceCandidate(a) \/ RelayOffer(a)
  PROVE  OneCalls(a)'
<1>. DEFINE b == Other(a)
<1>b. b \in Peers /\ b # a /\ Other(b) = a /\ Other(a) = b /\ \A q \in Peers : q = a \/ q = b
  BY TwoPages
<1>. HIDE DEF b
<1>0. CallerSide(a) /\ AnswererSide(b) /\ Descriptions(a) /\ Underway(a)
  BY <1>b DEF OneCalls
<1>c. /\ chain[a] \in Seq(Operations) /\ wire[a] \in Seq(Signals)
      /\ OneStart(chain[a])
      /\ \A o \in Elems(chain[a]) :
           /\ Starts(o) \/ o.op \in {"setRemoteAnswer", "addIceCandidate"}
           /\ o.op = "setLocalOffer" => o.ice = 1
           /\ o.op \in {"setRemoteAnswer", "addIceCandidate"} => o.ice = peers[b].local
      /\ \A s \in Elems(wire[a]) : s.type # "offer" /\ s.ice = peers[b].local
      /\ \A ice \in Elems(returned[a]) : ice = 1
  BY <1>0, <1>b DEF CallerSide, CallerOps, TypeOK
<1>i. /\ LocalIce(a) = IF Offered(a) THEN {1} ELSE {}
      /\ Signalling(a) = IF peers[a].pend = NoOffer THEN "stable" ELSE "have-local-offer"
  BY <1>0, IceApplied
<1>1. SUFFICES CallerSide(a)' /\ AnswererSide(b)' /\ Descriptions(a)' /\ Underway(a)'
  BY <1>b DEF OneCalls
<1>2. CASE Initialize(a)
  <2>1. UNCHANGED <<peers, chain, wire, returned, credentials, callers>>
    BY <1>2 DEF Initialize, history
  <2>2. Descriptions(a)' /\ \A q \in Peers : Offered(q)' = Offered(q)
    BY <1>0, <2>1, SameEntries DEF SameEntry
  <2>3. Underway(a)'
    BY <1>0, <1>b, <2>1, <2>2 DEF Underway, Starts
  <2>. QED
    BY <1>0, <1>b, <2>1, <2>2, <2>3, CallerKept, AnswererKept
<1>3. CASE CreateOffer(a)
  <2>1. /\ \A q \in Peers : SameEntry(q)
        /\ UNCHANGED <<wire, returned, credentials>> /\ callers' = callers \cup {a}
        /\ \A i \in DOMAIN chain[a] : chain[a][i].op \notin {"createOffer", "setLocalOffer"}
    BY <1>3, EntryKept DEF CreateOffer, SameEntry
  <2>2. PICK e \in Operations : /\ e.op = "createOffer"
                                /\ chain' = [chain EXCEPT ![a] = Append(@, e)]
    <3>1. Op("createOffer", None, FALSE) \in Operations
          /\ Op("createOffer", None, FALSE).op = "createOffer"
      BY DEF Op, Operations
    <3>2. chain' = [chain EXCEPT ![a] = Append(@, Op("createOffer", None, FALSE))]
      BY <1>3 DEF CreateOffer
    <3>. QED
      BY <3>1, <3>2
  <2>3. Elems(chain'[a]) = Elems(chain[a]) \cup {e} /\ chain'[b] = chain[b]
    BY <1>b, <2>2, ChainGrows, Zenon
  <2>4. \A o \in Elems(chain[a]) : ~Starts(o)
    BY <1>c, <2>1 DEF Elems, Starts
  <2>5. chain'[a] = Append(chain[a], e)
    BY <2>2 DEF TypeOK
  <2>6. OneStart(chain'[a])
    BY <1>c, <2>4, <2>5, StartBehind
  <2>7. Descriptions(a)' /\ \A q \in Peers : Offered(q)' = Offered(q)
    BY <1>0, <2>1, SameEntries
  <2>8. CallerSide(a)'
    BY <1>b, <1>c, <2>1, <2>2, <2>3, <2>6 DEF CallerSide, CallerOps, OneStart, Starts, SameEntry
  <2>9. Underway(a)'
    BY <1>0, <1>b, <2>1, <2>2, <2>3, <2>7 DEF Underway, Starts
  <2>. QED
    BY <1>0, <1>b, <2>1, <2>3, <2>7, <2>8, <2>9, AnswererKept DEF SameEntry
<1>4. CASE HandleSignal(a)
  <2>. DEFINE s == Head(wire[a])
              e == FirstOperation(s)
  <2>1. /\ \A q \in Peers : SameEntry(q)
        /\ UNCHANGED <<returned, credentials, callers>>
        /\ s \in Elems(wire[a]) /\ s \in Signals
        /\ Elems(wire'[a]) \subseteq Elems(wire[a]) /\ wire'[b] = wire[b]
        /\ e \in Operations
        /\ chain'[a] = Append(chain[a], e)
        /\ Elems(chain'[a]) = Elems(chain[a]) \cup {e}
        /\ chain'[b] = chain[b]
    BY <1>4, <1>b, SignalTaken DEF SameEntry
  <2>2. e.op \in {"setRemoteAnswer", "addIceCandidate"} /\ e.ice = peers[b].local
    BY <1>c, <2>1 DEF FirstOperation, Op, Signals
  <2>. HIDE DEF e, s
  <2>3. ~Starts(e)
    BY <2>2 DEF Starts
  <2>4. OneStart(chain'[a])
    BY <1>c, <2>1, <2>3, StartBehind
  <2>5. Descriptions(a)' /\ \A q \in Peers : Offered(q)' = Offered(q)
    BY <1>0, <2>1, SameEntries
  <2>6. CallerSide(a)'
    BY <1>b, <1>c, <2>1, <2>2, <2>4 DEF CallerSide, CallerOps, OneStart, Starts, SameEntry
  <2>7. Underway(a)'
    BY <1>0, <1>b, <2>1, <2>2, <2>5 DEF Underway, Starts
  <2>. QED
    BY <1>0, <1>b, <2>1, <2>5, <2>6, <2>7, AnswererKept DEF SameEntry
<1>5. CASE OnIceCandidate(a)
  <2>1. PICK g \in LocalIce(a) :
          SendSignal(a, "candidate", g, \E i \in DOMAIN returned[a] : returned[a][i] = g)
    BY <1>5 DEF OnIceCandidate
  <2>2. g = 1 /\ Offered(a)
    BY <1>i, <2>1
  <2>3. UNCHANGED <<peers, chain, returned, credentials, callers>>
    BY <1>5 DEF OnIceCandidate, history
  <2>4. PICK early \in BOOLEAN : SendSignal(a, "candidate", g, early)
    BY <2>1
  <2>5. /\ wire'[a] = wire[a]
        /\ \A s \in Elems(wire'[b]) : \/ s \in Elems(wire[b])
                                      \/ s.type = "candidate" /\ s.ice = 1
    <3>1. Elems(wire'[b]) =
             Elems(wire[b]) \cup {[type |-> "candidate", ice |-> g, early |-> early]}
          /\ wire'[a] = wire[a]
      BY <1>b, <2>2, <2>4, WireGrows
    <3>. QED
      BY <2>2, <3>1
  <2>6. Descriptions(a)' /\ \A q \in Peers : Offered(q)' = Offered(q)
    BY <1>0, <2>3, SameEntries DEF SameEntry
  <2>7. Underway(a)'
    BY <1>0, <1>b, <2>2, <2>6 DEF Underway
  <2>8. AnswererSide(b)'
    BY <1>0, <2>3, <2>5 DEF AnswererSide, AnswererOps, Unmarked
  <2>. QED
    BY <1>0, <1>b, <2>3, <2>5, <2>6, <2>7, <2>8, CallerKept
<1>6. CASE RelayOffer(a)
  <2>1. returned[a] \in Seq(Credentials) /\ returned[a] # <<>>
    BY <1>6 DEF RelayOffer, TypeOK
  <2>2. /\ Head(returned[a]) = 1
        /\ Elems(Tail(returned[a])) \subseteq Elems(returned[a])
    BY <1>c, <2>1, TailElems
  <2>3. Offered(a)
    BY <1>0, <2>1 DEF Underway
  <2>4. /\ UNCHANGED <<peers, chain, credentials, callers>>
        /\ returned'[a] = Tail(returned[a]) /\ returned'[b] = returned[b]
        /\ SendSignal(a, "offer", 1, FALSE)
    BY <1>6, <1>b, <2>2 DEF RelayOffer, history, TypeOK
  <2>5. /\ wire'[a] = wire[a]
        /\ \A s \in Elems(wire'[b]) : \/ s \in Elems(wire[b])
                                      \/ s.type = "offer" /\ s.ice = 1
    <3>0. 1 \in Credentials /\ FALSE \in BOOLEAN
      OBVIOUS
    <3>1. PICK ice \in Credentials, early \in BOOLEAN :
            ice = 1 /\ SendSignal(a, "offer", ice, early)
      BY <2>4, <3>0
    <3>2. Elems(wire'[b]) =
             Elems(wire[b]) \cup {[type |-> "offer", ice |-> ice, early |-> early]}
          /\ wire'[a] = wire[a]
      BY <1>b, <3>1, WireGrows
    <3>. QED
      BY <3>1, <3>2
  <2>6. Descriptions(a)' /\ \A q \in Peers : Offered(q)' = Offered(q)
    BY <1>0, <2>4, SameEntries DEF SameEntry
  <2>7. Underway(a)'
    BY <1>0, <1>b, <2>3, <2>6 DEF Underway
  <2>8. AnswererSide(b)'
    BY <1>0, <2>4, <2>5 DEF AnswererSide, AnswererOps, Unmarked
  <2>9. CallerSide(a)'
    BY <1>b, <1>c, <2>2, <2>4, <2>5 DEF CallerSide, CallerOps, OneStart, Starts
  <2>. QED
    BY <2>6, <2>7, <2>8, <2>9
<1>7. CASE Settle(a)
  <2>e. /\ chain[a] # <<>>
        /\ peers'[b] = peers[b] /\ chain'[b] = chain[b] /\ returned'[b] = returned[b]
        /\ wire'[a] = wire[a] /\ callers' = callers
    BY <1>7, <1>b, SettleElsewhere
  <2>h. /\ Head(chain[a]) \in Elems(chain[a]) /\ Head(chain[a]) \in Operations
        /\ Head(chain[a]).op \notin {"setRemoteOffer", "createAnswer", "setLocalAnswer"}
    <3>1. Head(chain[a]) \in Elems(chain[a]) /\ Head(chain[a]) \in Operations
      BY <1>c, <2>e, TailElems
    <3>. QED
      BY <1>c, <3>1 DEF Starts
  <2>1. CASE Reject(a) \/ CandidateAdded(a)
    <3>1. /\ chain' = [chain EXCEPT ![a] = Tail(@)]
          /\ UNCHANGED <<peers, returned, wire, credentials>>
      BY <2>1 DEF Reject, CandidateAdded
    <3>2. ~Starts(Head(chain[a]))
      <4>1. Signalling(a) # "have-remote-offer"
        BY <1>i
      <4>. QED
        BY <2>1, <4>1 DEF Reject, Refused, CandidateAdded, Settles, Starts
    <3>3. /\ Elems(chain'[a]) \subseteq Elems(chain[a])
          /\ \A o \in Elems(chain[a]) : o \in Elems(chain'[a]) \/ o = Head(chain[a])
          /\ OneStart(chain'[a])
      BY <1>c, <2>e, <3>1, HeadTaken
    <3>4. Descriptions(a)' /\ \A q \in Peers : Offered(q)' = Offered(q)
      BY <1>0, <3>1, SameEntries DEF SameEntry
    <3>5. CallerSide(a)'
      BY <1>b, <1>c, <3>1, <3>3 DEF CallerSide, CallerOps, OneStart, Starts
    <3>6. Underway(a)'
      BY <1>0, <1>b, <2>e, <3>1, <3>2, <3>3, <3>4 DEF Underway, Starts
    <3>. QED
      BY <1>0, <1>b, <2>e, <3>1, <3>4, <3>5, <3>6, AnswererKept
  <2>2. CASE OfferCreated(a)
    <3>1. /\ Head(chain[a]).op = "createOffer"
          /\ UNCHANGED <<peers, returned, wire>>
      BY <2>2 DEF OfferCreated, Settles
    <3>2. PICK ice \in Credentials :
            /\ chain' = [chain EXCEPT ![a] = Append(Tail(@), Op("setLocalOffer", ice, FALSE))]
            /\ ice \in LocalIce(a) \/ (LocalIce(a) = {} /\ ice = credentials[a] + 1)
      BY <2>2, OfferHasCredentials
    <3>3. Starts(Head(chain[a])) /\ \A o \in Elems(Tail(chain[a])) : ~Starts(o)
      BY <1>c, <2>e, <3>1, StartAhead DEF Starts
    <3>4. Tail(chain[a]) \in Seq(Operations)
          /\ Elems(chain[a]) = Elems(Tail(chain[a])) \cup {Head(chain[a])}
      BY <1>c, <2>e, TailElems
    <3>5. ice = 1
      <4>1. ~Offered(a) => credentials[a] = 0
        BY <1>0, <3>1, <3>3, <3>4 DEF Underway, Starts
      <4>. QED
        BY <1>i, <3>2, <4>1
    <3>6. PICK e \in Operations : /\ e.op = "setLocalOffer" /\ e.ice = 1
                                  /\ chain' = [chain EXCEPT ![a] = Append(Tail(@), e)]
      <4>1. Op("setLocalOffer", ice, FALSE) \in Operations
        BY DEF Op, Operations
      <4>2. Op("setLocalOffer", ice, FALSE).op = "setLocalOffer"
            /\ Op("setLocalOffer", ice, FALSE).ice = 1
        BY <3>5 DEF Op
      <4>. QED
        BY <3>2, <4>1, <4>2
    <3>7. chain'[a] = Append(Tail(chain[a]), e)
      BY <3>6 DEF TypeOK
    <3>8. Elems(chain'[a]) = Elems(Tail(chain[a])) \cup {e}
      BY <2>e, <3>6, ChainTurns, Zenon
    <3>9. OneStart(chain'[a])
      <4>1. OneStart(Tail(chain[a]))
        BY <1>c, <2>e, StartAhead
      <4>. QED
        BY <3>3, <3>4, <3>7, <4>1, StartBehind
    <3>10. Descriptions(a)' /\ \A q \in Peers : Offered(q)' = Offered(q)
      BY <1>0, <3>1, SameEntries DEF SameEntry
    <3>11. CallerSide(a)'
      BY <1>b, <1>c, <3>1, <3>4, <3>6, <3>8, <3>9 DEF CallerSide, CallerOps, OneStart, Starts
    <3>12. Underway(a)'
      BY <1>0, <1>b, <2>e, <3>1, <3>6, <3>8, <3>10 DEF Underway, Starts
    <3>13. AnswererSide(b)'
      BY <1>0, <1>b, <2>e, <3>1, AnswererKept
    <3>. QED
      BY <3>10, <3>11, <3>12, <3>13
  <2>3. CASE OfferApplied(a)
    <3>1. Head(chain[a]).op = "setLocalOffer" /\ Head(chain[a]).ice = 1
      BY <1>c, <2>3, <2>h DEF OfferApplied, Settles
    <3>2. /\ chain' = [chain EXCEPT ![a] = Tail(@)]
          /\ returned'[a] = Append(returned[a], 1)
      BY <2>3, <3>1 DEF OfferApplied, TypeOK
    <3>3. /\ peers'[a].pend = [by |-> a, ice |-> 1]
          /\ peers'[a].local = peers[a].local /\ peers'[a].remote = peers[a].remote
      <4>1. peers[a] \in PeerRecords
        BY PeerType
      <4>2. peers'[a] = [peers[a] EXCEPT !.pend = [by |-> a, ice |-> 1]]
        BY <2>3, <3>1 DEF OfferApplied, TypeOK
      <4>. QED
        BY <4>1, <4>2 DEF PeerRecords
    <3>4. Elems(chain'[a]) \subseteq Elems(chain[a]) /\ OneStart(chain'[a])
      BY <1>c, <2>e, <3>2, HeadTaken
    <3>5. \A ice \in Elems(returned'[a]) : ice = 1
      <4>1. returned[a] \in Seq(Credentials)
        BY DEF TypeOK
      <4>2. 1 \in Credentials
        OBVIOUS
      <4>3. Elems(Append(returned[a], 1)) = Elems(returned[a]) \cup {1}
        BY <4>1, <4>2, AppendElems
      <4>. QED
        BY <1>c, <3>2, <4>3
    <3>6. Descriptions(a)'
      BY <1>0, <1>b, <2>e, <3>3 DEF Descriptions
    <3>7. Offered(a)'
      BY <1>b, <3>3, PeersAssumption DEF Offered, NoOffer
    <3>8. CallerSide(a)'
      BY <1>b, <1>c, <2>e, <3>4, <3>5 DEF CallerSide, CallerOps, OneStart, Starts
    <3>9. AnswererSide(b)'
      <4>1. wire'[b] = wire[b]
        BY <2>3 DEF OfferApplied
      <4>. QED
        BY <1>0, <1>b, <2>e, <4>1, AnswererKept
    <3>. QED
      BY <3>6, <3>7, <3>8, <3>9 DEF Underway
  <2>4. CASE RemoteAnswerApplied(a)
    <3>1. /\ Head(chain[a]).op = "setRemoteAnswer" /\ Head(chain[a]).ice = peers[b].local
          /\ Head(chain[a]).ice \in Credentials
          /\ peers[a].pend # NoOffer
      BY <1>c, <1>i, <2>4, <2>h DEF RemoteAnswerApplied, Settles, Refused, Operations
    <3>2. /\ chain' = [chain EXCEPT ![a] = Tail(@)]
          /\ returned' = returned /\ wire' = wire
      BY <2>4 DEF RemoteAnswerApplied
    <3>3. peers[a].pend = [by |-> a, ice |-> 1]
      BY <1>0, <3>1 DEF Descriptions
    <3>4. /\ peers'[a].pend = NoOffer
          /\ peers'[a].local = 1 /\ peers'[a].remote = peers[b].local
      <4>1. peers[a] \in PeerRecords /\ peers[a].pend.ice = 1
        BY <3>3, PeerType
      <4>2. peers'[a] = [peers[a] EXCEPT !.local = 1, !.remote = peers[b].local,
                                         !.pend = NoOffer]
        BY <2>4, <3>1, <4>1 DEF RemoteAnswerApplied, TypeOK
      <4>. QED
        BY <4>1, <4>2 DEF PeerRecords
    <3>5. Elems(chain'[a]) \subseteq Elems(chain[a]) /\ OneStart(chain'[a])
      BY <1>c, <2>e, <3>2, HeadTaken
    <3>6. Descriptions(a)'
      BY <1>0, <1>b, <2>e, <3>1, <3>4 DEF Descriptions
    <3>7. Offered(a)'
      BY <3>4 DEF Offered
    <3>8. CallerSide(a)'
      BY <1>b, <1>c, <2>e, <3>2, <3>5 DEF CallerSide, CallerOps, OneStart, Starts
    <3>9. AnswererSide(b)'
      BY <1>0, <1>b, <2>e, <3>2, AnswererKept
    <3>. QED
      BY <3>6, <3>7, <3>8, <3>9 DEF Underway
  <2>5. ~RemoteOfferApplied(a) /\ ~AnswerCreated(a) /\ ~AnswerApplied(a)
    BY <2>h DEF RemoteOfferApplied, AnswerCreated, AnswerApplied, Settles
  <2>. QED
    BY <1>7, <2>1, <2>2, <2>3, <2>4, <2>5 DEF Settle
<1>. QED
  BY <1>2, <1>3, <1>4, <1>5, <1>6, <1>7

(***************************************************************************)
(* The other page's steps.  It makes no call.                              *)
(***************************************************************************)
LEMMA AnswererSteps ==
  ASSUME TypeOK, Made, NEW a \in Peers, NEW b \in Peers, b = Other(a), OneCalls(a),
         Initialize(b) \/ HandleSignal(b) \/ Settle(b) \/ OnIceCandidate(b) \/ RelayOffer(b)
  PROVE  OneCalls(a)'
<1>b. /\ b # a /\ Other(b) = a /\ Other(a) = b /\ \A q \in Peers : q = a \/ q = b
  BY TwoPages
<1>0. CallerSide(a) /\ AnswererSide(b) /\ Descriptions(a) /\ Underway(a)
  BY <1>b DEF OneCalls
<1>c. /\ \A o \in Elems(chain[a]) :
           /\ Starts(o) \/ o.op \in {"setRemoteAnswer", "addIceCandidate"}
           /\ o.op = "setLocalOffer" => o.ice = 1
           /\ o.op \in {"setRemoteAnswer", "addIceCandidate"} => o.ice = peers[b].local
      /\ \A s \in Elems(wire[a]) : s.type # "offer" /\ s.ice = peers[b].local
      /\ OneStart(chain[a]) /\ \A ice \in Elems(returned[a]) : ice = 1
  BY <1>0, <1>b DEF CallerSide, CallerOps
<1>d. /\ chain[b] \in Seq(Operations) /\ wire[b] \in Seq(Signals)
      /\ \A o \in Elems(chain[b]) :
           /\ o.op \in {"setRemoteOffer", "createAnswer", "setLocalAnswer", "addIceCandidate"}
           /\ o.op \in {"setRemoteOffer", "addIceCandidate"} => o.ice = 1
           /\ Unmarked(o) => peers[b].local \in {None, o.ice}
      /\ \A o, u \in Elems(chain[b]) : Unmarked(o) /\ Unmarked(u) => o.ice = u.ice
      /\ \A s \in Elems(wire[b]) : s.type # "answer" /\ s.ice = 1
      /\ returned[b] = <<>>
  BY <1>0 DEF AnswererSide, AnswererOps, TypeOK
<1>i. /\ LocalIce(b) = IF peers[b].local = None THEN {} ELSE {peers[b].local}
      /\ Signalling(b) = IF peers[b].pend = NoOffer THEN "stable" ELSE "have-remote-offer"
  BY <1>0, <1>b, IceApplied
<1>1. SUFFICES CallerSide(a)' /\ AnswererSide(b)' /\ Descriptions(a)' /\ Underway(a)'
  BY <1>b DEF OneCalls
<1>2. CASE Initialize(b)
  <2>1. UNCHANGED <<peers, chain, wire, returned, credentials, callers>>
    BY <1>2 DEF Initialize, history
  <2>2. Descriptions(a)' /\ \A q \in Peers : Offered(q)' = Offered(q)
    BY <1>0, <2>1, SameEntries DEF SameEntry
  <2>3. Underway(a)'
    BY <1>0, <1>b, <2>1, <2>2 DEF Underway, Starts
  <2>. QED
    BY <1>0, <1>b, <2>1, <2>2, <2>3, CallerKept, AnswererKept
<1>3. CASE HandleSignal(b)
  <2>. DEFINE s == Head(wire[b])
              e == FirstOperation(s)
  <2>1. /\ \A q \in Peers : SameEntry(q)
        /\ UNCHANGED <<returned, credentials, callers>>
        /\ s \in Elems(wire[b]) /\ s \in Signals
        /\ Elems(wire'[b]) \subseteq Elems(wire[b]) /\ wire'[a] = wire[a]
        /\ Elems(chain'[b]) = Elems(chain[b]) \cup {e}
        /\ chain'[a] = chain[a]
    BY <1>3, <1>b, SignalTaken DEF SameEntry
  <2>2. /\ e.op \in {"setRemoteOffer", "addIceCandidate"} /\ e.ice = 1
        /\ e.op = "setRemoteOffer" => s.type = "offer"
    BY <1>d, <2>1 DEF FirstOperation, Op, Signals
  <2>. HIDE DEF e, s
  <2>5. Descriptions(a)' /\ \A q \in Peers : Offered(q)' = Offered(q)
    BY <1>0, <2>1, SameEntries
  <2>6. AnswererSide(b)'
    BY <1>b, <1>d, <2>1, <2>2 DEF AnswererSide, AnswererOps, Unmarked, SameEntry
  <2>7. Underway(a)'
    BY <1>0, <1>b, <2>1, <2>2, <2>5 DEF Underway, Starts
  <2>. QED
    BY <1>0, <1>b, <2>1, <2>5, <2>6, <2>7, CallerKept DEF SameEntry
<1>4. CASE OnIceCandidate(b)
  <2>1. PICK g \in LocalIce(b) :
          SendSignal(b, "candidate", g, \E i \in DOMAIN returned[b] : returned[b][i] = g)
    BY <1>4 DEF OnIceCandidate
  <2>2. g = peers[b].local /\ g \in Credentials
    BY <1>i, <2>1, PeerType
  <2>3. UNCHANGED <<peers, chain, returned, credentials, callers>>
    BY <1>4 DEF OnIceCandidate, history
  <2>4. PICK early \in BOOLEAN : SendSignal(b, "candidate", g, early)
    BY <2>1
  <2>5. /\ wire'[b] = wire[b]
        /\ \A s \in Elems(wire'[a]) : \/ s \in Elems(wire[a])
                                      \/ s.type = "candidate" /\ s.ice = peers[b].local
    <3>1. Elems(wire'[a]) =
             Elems(wire[a]) \cup {[type |-> "candidate", ice |-> g, early |-> early]}
          /\ wire'[b] = wire[b]
      BY <1>b, <2>2, <2>4, WireGrows
    <3>. QED
      BY <2>2, <3>1
  <2>6. Descriptions(a)' /\ \A q \in Peers : Offered(q)' = Offered(q)
    BY <1>0, <2>3, SameEntries DEF SameEntry
  <2>7. Underway(a)'
    BY <1>0, <1>b, <2>3, <2>5, <2>6 DEF Underway, Starts
  <2>8. CallerSide(a)'
    BY <1>b, <1>c, <2>3, <2>5 DEF CallerSide, CallerOps, OneStart, Starts
  <2>. QED
    BY <1>0, <1>b, <2>3, <2>5, <2>6, <2>7, <2>8, AnswererKept
<1>5. CASE Settle(b)
  <2>e. /\ chain[b] # <<>>
        /\ peers'[a] = peers[a] /\ chain'[a] = chain[a] /\ returned'[a] = returned[a]
        /\ wire'[b] = wire[b] /\ callers' = callers
    BY <1>5, <1>b, SettleElsewhere
  <2>h. /\ Head(chain[b]) \in Elems(chain[b]) /\ Head(chain[b]) \in Operations
        /\ Head(chain[b]).op \notin {"createOffer", "setLocalOffer", "setRemoteAnswer"}
    <3>1. Head(chain[b]) \in Elems(chain[b]) /\ Head(chain[b]) \in Operations
      BY <1>d, <2>e, TailElems
    <3>. QED
      BY <1>d, <3>1
  <2>c. credentials'[a] = credentials[a] /\ returned'[b] = <<>>
    BY <1>5, <1>b, <1>d, <2>h DEF Settle, Reject, OfferCreated, OfferApplied,
       RemoteOfferApplied, AnswerCreated, AnswerApplied, RemoteAnswerApplied,
       CandidateAdded, Settles, TypeOK
  <2>1. CASE Reject(b) \/ CandidateAdded(b)
    <3>1. /\ chain' = [chain EXCEPT ![b] = Tail(@)]
          /\ UNCHANGED <<peers, returned, wire>>
      BY <2>1 DEF Reject, CandidateAdded
    <3>2. Elems(chain'[b]) \subseteq Elems(chain[b])
      BY <2>e, <3>1, HeadTaken
    <3>4. Descriptions(a)' /\ \A q \in Peers : Offered(q)' = Offered(q)
      BY <1>0, <3>1, SameEntries DEF SameEntry
    <3>5. AnswererSide(b)'
      BY <1>b, <1>d, <3>1, <3>2 DEF AnswererSide, AnswererOps, Unmarked
    <3>6. Underway(a)'
      BY <1>0, <1>b, <2>e, <2>c, <3>1, <3>2, <3>4 DEF Underway, Starts
    <3>7. CallerSide(a)'
      BY <1>0, <1>b, <2>e, <3>1, CallerKept
    <3>. QED
      BY <3>4, <3>5, <3>6, <3>7
  <2>2. CASE RemoteOfferApplied(b)
    <3>1. Head(chain[b]).op = "setRemoteOffer" /\ Head(chain[b]).ice = 1 /\ wire' = wire
      BY <1>d, <2>2, <2>h DEF RemoteOfferApplied, Settles
    <3>2. Offered(a)
      BY <1>0, <1>b, <2>h, <3>1 DEF Underway
    <3>3. PICK e \in Operations : /\ e.op = "createAnswer"
                                  /\ chain' = [chain EXCEPT ![b] = Append(Tail(@), e)]
      <4>1. Op("createAnswer", None, FALSE) \in Operations
            /\ Op("createAnswer", None, FALSE).op = "createAnswer"
        BY DEF Op, Operations
      <4>2. chain' = [chain EXCEPT ![b] = Append(Tail(@), Op("createAnswer", None, FALSE))]
        BY <2>2 DEF RemoteOfferApplied
      <4>. QED
        BY <4>1, <4>2
    <3>4. /\ Elems(chain[b]) = Elems(Tail(chain[b])) \cup {Head(chain[b])}
          /\ Elems(chain'[b]) = Elems(Tail(chain[b])) \cup {e}
      BY <2>e, <3>3, ChainTurns, Zenon
    <3>5. /\ peers'[b].pend = [by |-> a, ice |-> 1]
          /\ peers'[b].local = peers[b].local /\ peers'[b].remote = peers[b].remote
      <4>1. peers[b] \in PeerRecords
        BY PeerType
      <4>2. peers'[b] = [peers[b] EXCEPT !.pend = [by |-> a, ice |-> 1]]
        BY <1>b, <2>2, <3>1 DEF RemoteOfferApplied, TypeOK
      <4>. QED
        BY <4>1, <4>2 DEF PeerRecords
    <3>6. Descriptions(a)'
      BY <1>0, <1>b, <2>e, <3>5 DEF Descriptions
    <3>7. Offered(a)'
      BY <2>e, <3>2 DEF Offered
    <3>8. Underway(a)'
      BY <3>7 DEF Underway
    <3>9. AnswererSide(b)'
      BY <1>d, <2>e, <2>c, <3>3, <3>4, <3>5 DEF AnswererSide, AnswererOps, Unmarked
    <3>10. CallerSide(a)'
      BY <1>0, <1>b, <2>e, <3>1, <3>5, CallerKept
    <3>. QED
      BY <3>6, <3>8, <3>9, <3>10
  <2>3. CASE AnswerCreated(b)
    <3>1. /\ UNCHANGED <<peers, wire>>
          /\ peers[b].pend # NoOffer
      BY <1>i, <2>3 DEF AnswerCreated, Settles, Refused
    <3>2. peers[b].pend = [by |-> a, ice |-> 1]
      BY <1>0, <1>b, <3>1 DEF Descriptions
    <3>3. peers[b].local \in {None, AnswerIce(b)}
      <4>1. peers[b].local # None => peers[b].remote = 1
        BY <1>0, <1>b DEF Descriptions
      <4>. QED
        BY <3>2, <4>1 DEF AnswerIce
    <3>4. \A o \in Elems(chain'[b]) : /\ o.op # "setLocalAnswer" => o \in Elems(chain[b])
                                      /\ Unmarked(o) => o.ice = AnswerIce(b)
      BY <2>3, ChainMarked
    <3>5. Descriptions(a)' /\ \A q \in Peers : Offered(q)' = Offered(q)
      BY <1>0, <3>1, SameEntries DEF SameEntry
    <3>6. AnswererSide(b)'
      <4>1. \A o \in Elems(chain'[b]) :
              /\ o.op \in {"setRemoteOffer", "createAnswer", "setLocalAnswer", "addIceCandidate"}
              /\ o.op \in {"setRemoteOffer", "addIceCandidate"} => o.ice = 1
        BY <1>d, <3>4
      <4>2. AnswererOps(chain[b], peers[b].local)'
        BY <3>1, <3>3, <3>4, <4>1 DEF AnswererOps, Unmarked
      <4>. QED
        BY <1>d, <2>c, <3>1, <4>2 DEF AnswererSide
    <3>7. Underway(a)'
      BY <1>0, <1>b, <2>e, <2>c, <3>1, <3>4, <3>5 DEF Underway, Starts
    <3>8. CallerSide(a)'
      BY <1>0, <1>b, <2>e, <3>1, CallerKept
    <3>. QED
      BY <3>5, <3>6, <3>7, <3>8
  <2>4. CASE AnswerApplied(b)
    <3>. DEFINE ice == Head(chain[b]).ice
    <3>1. /\ Unmarked(Head(chain[b])) /\ ice \in Credentials
          /\ peers[b].pend # NoOffer
      BY <1>i, <2>4, <2>h DEF AnswerApplied, Settles, Refused, Unmarked, Operations
    <3>2. peers[b].pend = [by |-> a, ice |-> 1] /\ peers[b].local \in {None, ice}
      BY <1>0, <1>b, <1>d, <2>h, <3>1 DEF Descriptions
    <3>3. peers'[b].pend = NoOffer /\ peers'[b].local = ice /\ peers'[b].remote = 1
      <4>1. peers[b] \in PeerRecords /\ peers[b].pend.ice = 1
        BY <3>2, PeerType
      <4>2. peers'[b] = [peers[b] EXCEPT !.local = ice, !.remote = 1, !.pend = NoOffer]
        BY <2>4, <4>1 DEF AnswerApplied, TypeOK
      <4>. QED
        BY <4>1, <4>2 DEF PeerRecords
    <3>4. chain' = [chain EXCEPT ![b] = Tail(@)] /\ SendSignal(b, "answer", ice, FALSE)
      BY <2>4 DEF AnswerApplied
    <3>5. Elems(chain'[b]) \subseteq Elems(chain[b])
      BY <2>e, <3>4, HeadTaken
    <3>. HIDE DEF ice
    <3>6. \A s \in Elems(wire'[a]) : \/ s \in Elems(wire[a])
                                     \/ s.type = "answer" /\ s.ice = ice
      <4>1. PICK early \in BOOLEAN : SendSignal(b, "answer", ice, early)
        BY <3>4
      <4>2. Elems(wire'[a]) =
               Elems(wire[a]) \cup {[type |-> "answer", ice |-> ice, early |-> early]}
        BY <1>b, <3>1, <4>1, WireGrows
      <4>. QED
        BY <4>2
    <3>7. /\ \A s \in Elems(wire[a]) : s.ice = ice
          /\ \A o \in Elems(chain[a]) :
               o.op \in {"setRemoteAnswer", "addIceCandidate"} => o.ice = ice
      <4>1. Elems(wire[a]) \subseteq Signals /\ Elems(chain[a]) \subseteq Operations
        BY ElemsInSet DEF TypeOK
      <4>. QED
        BY <1>c, <3>2, <4>1 DEF Signals, Operations
    <3>8. CallerSide(a)'
      BY <1>b, <1>c, <2>e, <3>3, <3>6, <3>7 DEF CallerSide, CallerOps, OneStart, Starts
    <3>9. AnswererSide(b)'
      <4>1. \A u \in Elems(chain[b]) : Unmarked(u) => u.ice = ice
        BY <1>d, <2>h, <3>1 DEF ice
      <4>. QED
        BY <1>d, <2>e, <2>c, <3>3, <3>5, <4>1 DEF AnswererSide, AnswererOps, Unmarked
    <3>10. Offered(a)
      BY <1>0, <1>b, <3>1, <3>2 DEF Underway, Offered
    <3>11. Underway(a)'
      BY <2>e, <3>10 DEF Underway, Offered
    <3>12. Descriptions(a)'
      BY <1>0, <1>b, <2>e, <3>1, <3>2, <3>3 DEF Descriptions
    <3>. QED
      BY <3>8, <3>9, <3>11, <3>12
  <2>5. ~OfferCreated(b) /\ ~OfferApplied(b) /\ ~RemoteAnswerApplied(b)
    BY <2>h DEF OfferCreated, OfferApplied, RemoteAnswerApplied, Settles
  <2>. QED
    BY <1>5, <2>1, <2>2, <2>3, <2>4, <2>5 DEF Settle
<1>6. ~RelayOffer(b)
  BY <1>d DEF RelayOffer
<1>. QED
  BY <1>2, <1>3, <1>4, <1>5, <1>6

(***************************************************************************)
(* The invariant, and the first theorem.                                   *)
(***************************************************************************)
Alone == \A a \in Peers : callers \subseteq {a} => OneCalls(a)

LEMMA AloneInit == Init => Alone
<1>. SUFFICES ASSUME Init, NEW a \in Peers PROVE OneCalls(a)
  BY DEF Alone
<1>1. Other(a) \in Peers
  BY TwoPages
<1>2. /\ \A q \in Peers : /\ chain[q] = <<>> /\ wire[q] = <<>> /\ returned[q] = <<>>
                          /\ peers[q].pend = NoOffer /\ peers[q].local = None
                          /\ peers[q].remote = None /\ credentials[q] = 0
      /\ callers = {}
  BY DEF Init, NoPeer
<1>3. CallerSide(a) /\ AnswererSide(Other(a))
  <2>1. OneStart(<<>>)
    BY DEF OneStart
  <2>. QED
    BY <1>1, <1>2, <2>1, EmptyElems DEF CallerSide, CallerOps, AnswererSide, AnswererOps
<1>4. Descriptions(a) /\ Underway(a)
  BY <1>1, <1>2, EmptyElems DEF Descriptions, Underway, Offered
<1>. QED
  BY <1>3, <1>4 DEF OneCalls

LEMMA AloneStep == TypeOK /\ Made /\ Alone /\ [Next]_vars => Alone'
<1>. SUFFICES ASSUME TypeOK, Made, Alone, [Next]_vars,
                     NEW a \in Peers, callers' \subseteq {a}
              PROVE  OneCalls(a)'
  BY DEF Alone
<1>1. CASE UNCHANGED vars
  <2>1. OneCalls(a) /\ UNCHANGED <<peers, chain, wire, returned, credentials, callers>>
    BY <1>1 DEF vars, Alone
  <2>2. CallerSide(a)' /\ AnswererSide(Other(a))'
    BY <2>1, TwoPages, CallerKept, AnswererKept DEF OneCalls
  <2>3. Descriptions(a)' /\ \A q \in Peers : Offered(q)' = Offered(q)
    BY <2>1, SameEntries DEF OneCalls, SameEntry
  <2>4. Underway(a)'
    BY <2>1, <2>3, TwoPages DEF OneCalls, Underway, Starts
  <2>. QED
    BY <2>2, <2>3, <2>4 DEF OneCalls
<1>2. ASSUME NEW p \in Peers,
             \/ Initialize(p) \/ CreateOffer(p) \/ HandleSignal(p)
             \/ Settle(p) \/ OnIceCandidate(p) \/ RelayOffer(p)
      PROVE  OneCalls(a)'
  <2>1. callers' = callers \/ (callers' = callers \cup {p} /\ CreateOffer(p))
    BY <1>2, SettleElsewhere
       DEF Initialize, CreateOffer, HandleSignal, OnIceCandidate, RelayOffer, history
  <2>2. OneCalls(a)
    BY <2>1 DEF Alone
  <2>3. CASE p = a
    BY <1>2, <2>2, <2>3, CallerSteps
  <2>4. CASE p # a
    <3>1. p = Other(a)
      BY <2>4, TwoPages
    <3>2. ~CreateOffer(p)
      BY <2>4 DEF CreateOffer
    <3>. QED
      BY <1>2, <2>2, <3>1, <3>2, AnswererSteps
  <2>. QED
    BY <2>3, <2>4
<1>. QED
  BY <1>1, <1>2 DEF Next

LEMMA AloneHolds == Spec => [](TypeOK /\ Halfway /\ Alone)
<1>1. Spec => [](TypeOK /\ Halfway)
  BY HalfwayHolds
<1>2. Init => Alone
  BY AloneInit
<1>3. TypeOK /\ Halfway /\ Alone /\ [Next]_vars => Alone'
  BY AloneStep DEF Halfway
<1>. QED
  BY <1>1, <1>2, <1>3, PTL DEF Spec

LEMMA AloneSettled == TypeOK /\ Halfway /\ Alone => OneSidedAgrees
<1>. SUFFICES ASSUME TypeOK, Halfway, Alone, Quiet, NEW a \in Peers, callers = {a}
              PROVE  Agree
  BY DEF OneSidedAgrees, OneCaller
<1>. DEFINE b == Other(a)
<1>b. /\ b \in Peers /\ b # a /\ Other(b) = a /\ Other(a) = b
       /\ \A q \in Peers : q = a \/ q = b
  BY TwoPages
<1>1. Descriptions(a) /\ Underway(a)
  BY DEF Alone, OneCalls
<1>2. Offered(a)
  BY <1>1, EmptyElems DEF Underway, Quiet
<1>3. Signalling(a) = "stable"
  BY QuietSettled DEF QuietIsStable
<1>4. peers[a].pend = NoOffer
  BY <1>1, <1>3, IceApplied
<1>5. peers[a].local # None
  BY <1>2, <1>4 DEF Offered
<1>6. /\ peers[a].local = 1 /\ peers[a].remote = peers[b].local
      /\ peers[b].local # None /\ peers[b].remote = 1
  BY <1>1, <1>5 DEF Descriptions
<1>. HIDE DEF b
<1>. QED
  BY <1>b, <1>6 DEF Agree

\* While one page only calls createOffer, however often and however the answers
\* and the second runs of handleSignal interleave, the two pages agree whenever
\* everything has settled (webrtc-interop.js 21-27).
THEOREM OneCallerAgrees == Spec => []OneSidedAgrees
<1>. QED
  BY AloneHolds, AloneSettled, PTL

(***************************************************************************)
(* Before every member of N in a sequence comes a member of D.             *)
(***************************************************************************)
Preceded(s, N, D) ==
  \A i \in 1..Len(s) : s[i] \in N => \E j \in 1..(i - 1) : s[j] \in D
Has(s, D) == Elems(s) \cap D # {}

LEMMA PrecededBehind ==
  ASSUME NEW S, NEW s \in Seq(S), NEW e \in S, NEW N, NEW D,
         Preceded(s, N, D), e \notin N \/ Has(s, D)
  PROVE  Preceded(Append(s, e), N, D)
<1>. DEFINE t == Append(s, e)
<1>1. /\ Len(t) = Len(s) + 1 /\ Len(s) \in Nat /\ t[Len(s) + 1] = e
      /\ \A i \in 1..Len(s) : t[i] = s[i]
  OBVIOUS
<1>2. \A i \in 1..Len(t) : i \in 1..Len(s) \/ i = Len(s) + 1
  BY <1>1
<1>. HIDE DEF t
<1>3. ASSUME NEW i \in 1..Len(s), t[i] \in N
      PROVE  \E j \in 1..(i - 1) : t[j] \in D
  <2>1. PICK j \in 1..(i - 1) : s[j] \in D
    BY <1>1, <1>3 DEF Preceded
  <2>2. j \in 1..Len(s)
    BY <1>1
  <2>. QED
    BY <1>1, <2>1, <2>2
<1>4. ASSUME e \in N
      PROVE  \E j \in 1..((Len(s) + 1) - 1) : t[j] \in D
  <2>1. PICK j \in 1..Len(s) : s[j] \in D
    BY <1>4 DEF Has, Elems
  <2>2. (Len(s) + 1) - 1 = Len(s)
    BY <1>1
  <2>. QED
    BY <1>1, <2>1, <2>2
<1>5. ASSUME NEW i \in 1..Len(t), t[i] \in N
      PROVE  \E j \in 1..(i - 1) : t[j] \in D
  BY <1>1, <1>2, <1>3, <1>4, <1>5
<1>. QED
  BY <1>5 DEF Preceded, t

LEMMA PrecededAhead ==
  ASSUME NEW S, NEW s \in Seq(S), s # <<>>, NEW N, NEW D, Preceded(s, N, D)
  PROVE  Head(s) \notin N /\ (Head(s) \notin D => Preceded(Tail(s), N, D))
<1>. DEFINE t == Tail(s)
<1>1. /\ Len(s) \in Nat /\ Len(s) > 0 /\ Len(t) = Len(s) - 1 /\ Head(s) = s[1]
      /\ \A i \in 1..Len(t) : t[i] = s[i + 1]
  OBVIOUS
<1>. HIDE DEF t
<1>2. 1 \in 1..Len(s) /\ \A i \in 1..Len(t) : i + 1 \in 1..Len(s)
  BY <1>1
<1>3. Head(s) \notin N
  BY <1>1, <1>2 DEF Preceded
<1>4. ASSUME Head(s) \notin D, NEW i \in 1..Len(t), t[i] \in N
      PROVE  \E j \in 1..(i - 1) : t[j] \in D
  <2>1. PICK j \in 1..((i + 1) - 1) : s[j] \in D
    BY <1>1, <1>2, <1>4 DEF Preceded
  <2>2. j # 1
    BY <1>1, <1>4, <2>1
  <2>3. j - 1 \in 1..(i - 1) /\ j - 1 \in 1..Len(t) /\ (j - 1) + 1 = j
    BY <1>1, <2>2
  <2>. QED
    BY <1>1, <2>1, <2>3
<1>. QED
  BY <1>3, <1>4 DEF Preceded, t

(***************************************************************************)
(* No candidate but an early one runs ahead of the description it needs.   *)
(***************************************************************************)
Needing    == {o \in Operations : o.op = "addIceCandidate" /\ ~o.mark}
Describing == {o \in Operations : o.op \in {"setRemoteOffer", "setRemoteAnswer"}}
Following  == {g \in Signals : g.type = "candidate" /\ ~g.early}
Carrying   == {g \in Signals : g.type \in {"offer", "answer"}}

CandidatesFollow(p) ==
  \/ RemoteIce(p) # {}
  \/ /\ Preceded(chain[p], Needing, Describing)
     /\ Has(chain[p], Describing) \/ Preceded(wire[p], Following, Carrying)

\* Whoever may send candidates has sent a description, or has yet to relay it.
Told(p) ==
  \/ LocalIce(p) = {}
  \/ RemoteIce(Other(p)) # {}
  \/ returned[p] # <<>>
  \/ Has(chain[Other(p)], Describing)
  \/ Has(wire[Other(p)], Carrying)

InOrder == \A p \in Peers : CandidatesFollow(p) /\ Told(p) /\ "in order" \notin lost[p]

\* What is not refused: an answer, unless there is one, and a candidate, once
\* there is a description.
LEMMA RefusedInOrder ==
  ASSUME TypeOK, NEW a \in Peers, OneCalls(a), NEW p \in Peers, Reject(p)
  PROVE  /\ Head(chain[p]).op # "setRemoteOffer"
         /\ Head(chain[p]).op = "setRemoteAnswer" => RemoteIce(p) # {}
         /\ Head(chain[p]).op = "addIceCandidate" => RemoteIce(p) = {}
<1>. DEFINE b == Other(a)
<1>b. b \in Peers /\ b # a /\ Other(b) = a /\ Other(a) = b /\ \A q \in Peers : q = a \/ q = b
  BY TwoPages
<1>. HIDE DEF b
<1>1. chain[p] # <<>> /\ Refused(p) /\ Head(chain[p]) \in Elems(chain[p])
      /\ Head(chain[p]) \in Operations
  BY ChainType, TailElems DEF Reject
<1>2. CallerSide(a) /\ AnswererSide(b) /\ Descriptions(a) /\ Underway(a)
  BY <1>b DEF OneCalls
<1>3. /\ Signalling(a) = IF peers[a].pend = NoOffer THEN "stable" ELSE "have-local-offer"
      /\ RemoteIce(a) = IF peers[a].remote = None THEN {} ELSE {peers[a].remote}
      /\ RemoteIce(b) = IF Offered(b) THEN {1} ELSE {}
  BY <1>2, <1>b, IceApplied
<1>4. Head(chain[p]).op # "setRemoteOffer"
  BY <1>1 DEF Refused
<1>5. CASE p = a
  <2>1. Head(chain[p]).op \in {"setRemoteAnswer", "addIceCandidate"} =>
          Head(chain[p]).ice = peers[b].local /\ peers[b].local \in Credentials
    BY <1>1, <1>2, <1>b, <1>5 DEF CallerSide, CallerOps, Operations
  <2>2. Head(chain[p]).op = "setRemoteAnswer" => RemoteIce(p) # {}
    <3>1. SUFFICES ASSUME Head(chain[p]).op = "setRemoteAnswer" PROVE peers[a].remote # None
      BY <1>3, <1>5
    <3>2. peers[a].pend = NoOffer
      BY <1>1, <1>3, <1>5, <3>1 DEF Refused
    <3>3. Offered(a)
      BY <1>2, <1>b, <2>1, <3>1 DEF Underway, Offered
    <3>4. peers[a].local # None
      BY <3>2, <3>3 DEF Offered
    <3>. QED
      BY <1>2, <1>b, <2>1, <3>1, <3>4 DEF Descriptions
  <2>3. Head(chain[p]).op = "addIceCandidate" => RemoteIce(p) = {}
    <3>1. SUFFICES ASSUME Head(chain[p]).op = "addIceCandidate", peers[a].remote # None
                   PROVE  Head(chain[p]).ice = peers[a].remote
      BY <1>1, <1>3, <1>5 DEF Refused
    <3>. QED
      BY <1>2, <1>b, <2>1, <3>1 DEF Descriptions
  <2>. QED
    BY <1>4, <2>2, <2>3
<1>6. CASE p = b
  BY <1>1, <1>2, <1>3, <1>4, <1>6 DEF AnswererSide, AnswererOps, Refused
<1>. QED
  BY <1>b, <1>5, <1>6

\* What a page has applied of the other page's it keeps, and what it settles
\* adds to it; what it has applied of its own is new only after two operations.
LEMMA SettledIce ==
  ASSUME TypeOK, NEW p \in Peers, Settle(p)
  PROVE  /\ RemoteIce(p) # {} => RemoteIce(p)' # {}
         /\ Head(chain[p]).op \in {"setRemoteOffer", "setRemoteAnswer"} =>
              RemoteIce(p)' # {} \/ Reject(p)
         /\ \/ LocalIce(p)' \subseteq LocalIce(p) /\ returned'[p] = returned[p]
            \/ OfferApplied(p) \/ AnswerApplied(p)
<1>. DEFINE q == Other(p)
<1>q. q \in Peers /\ q # p /\ Other(p) = q
  BY TwoPages
<1>. HIDE DEF q
<1>1. /\ peers[p] \in PeerRecords
      /\ peers[p].pend \in [by : Peers, ice : Credentials] \cup {NoOffer}
  BY PeerType
<1>2. chain[p] # <<>> /\ Head(chain[p]) \in Operations
  BY ChainType, SettleElsewhere
<1>n. NoOffer.by = "nobody" /\ NoOffer.by # p /\ NoOffer.by # q
  BY <1>q, PeersAssumption DEF NoOffer
<1>r. /\ RemoteIce(p) = (Pending(p, q) \cup {peers[p].remote}) \ {None}
      /\ RemoteIce(p)' = (Pending(p, q)' \cup {peers'[p].remote}) \ {None}
  BY <1>q DEF RemoteIce
<1>3. CASE Reject(p) \/ OfferCreated(p) \/ AnswerCreated(p) \/ CandidateAdded(p)
  <2>1. UNCHANGED <<peers, returned>>
    BY <1>3 DEF Reject, OfferCreated, AnswerCreated, CandidateAdded
  <2>2. RemoteIce(p)' = RemoteIce(p) /\ LocalIce(p)' = LocalIce(p)
    BY <2>1, SameEntries DEF SameEntry
  <2>3. Reject(p) \/ Head(chain[p]).op \in {"createOffer", "createAnswer", "addIceCandidate"}
    BY <1>3 DEF OfferCreated, AnswerCreated, CandidateAdded, Settles
  <2>. QED
    BY <2>1, <2>2, <2>3
<1>4. CASE OfferApplied(p)
  <2>1. Head(chain[p]).op = "setLocalOffer" /\ Signalling(p) # "have-remote-offer"
    BY <1>4 DEF OfferApplied, Settles, Refused
  <2>2. peers[p].pend.by # q
    BY <1>n, <1>q, <2>1 DEF Signalling
  <2>3. peers'[p].remote = peers[p].remote
    BY <1>1, <1>4 DEF OfferApplied, TypeOK, PeerRecords
  <2>. QED
    BY <1>4, <1>r, <2>1, <2>2, <2>3 DEF Pending
<1>5. CASE RemoteOfferApplied(p)
  <2>1. Head(chain[p]).ice \in Credentials
    BY <1>2, <1>5 DEF RemoteOfferApplied, Settles, Operations
  <2>2. /\ peers'[p].pend = [by |-> q, ice |-> Head(chain[p]).ice]
        /\ peers'[p].local = peers[p].local
    <3>1. peers'[p] = [peers[p] EXCEPT !.pend = [by |-> q, ice |-> Head(chain[p]).ice]]
      BY <1>5, <1>q DEF RemoteOfferApplied, TypeOK
    <3>. QED
      BY <1>1, <3>1 DEF PeerRecords
  <2>3. RemoteIce(p)' # {}
    BY <1>r, <2>1, <2>2 DEF Pending
  <2>4. LocalIce(p)' \subseteq LocalIce(p)
    BY <1>q, <2>2 DEF LocalIce, Pending
  <2>5. returned' = returned
    BY <1>5 DEF RemoteOfferApplied
  <2>. QED
    BY <2>3, <2>4, <2>5
<1>6. CASE AnswerApplied(p)
  <2>1. Head(chain[p]).op = "setLocalAnswer" /\ Signalling(p) = "have-remote-offer"
    BY <1>6 DEF AnswerApplied, Settles, Refused
  <2>2. peers[p].pend.ice \in Credentials
    BY <1>1, <2>1 DEF Signalling
  <2>3. peers'[p].remote = peers[p].pend.ice
    BY <1>1, <1>6 DEF AnswerApplied, TypeOK, PeerRecords
  <2>. QED
    BY <1>6, <1>r, <2>1, <2>2, <2>3
<1>7. CASE RemoteAnswerApplied(p)
  <2>1. Head(chain[p]).ice \in Credentials /\ Signalling(p) = "have-local-offer"
    BY <1>2, <1>7 DEF RemoteAnswerApplied, Settles, Refused, Operations
  <2>2. peers[p].pend.by = p /\ peers[p].pend.ice \in Credentials
    BY <1>1, <2>1 DEF Signalling
  <2>3. /\ peers'[p].remote = Head(chain[p]).ice
        /\ peers'[p].local = peers[p].pend.ice /\ peers'[p].pend = NoOffer
    BY <1>1, <1>7 DEF RemoteAnswerApplied, TypeOK, PeerRecords
  <2>4. RemoteIce(p)' # {}
    BY <1>r, <2>1, <2>3
  <2>5. LocalIce(p)' \subseteq LocalIce(p)
    BY <1>n, <2>2, <2>3 DEF LocalIce, Pending
  <2>6. returned' = returned
    BY <1>7 DEF RemoteAnswerApplied
  <2>. QED
    BY <2>4, <2>5, <2>6
<1>. QED
  BY <1>3, <1>4, <1>5, <1>6, <1>7 DEF Settle

\* What is left of a chain whose head has settled, in order as before.
LEMMA SettledChain ==
  ASSUME TypeOK, NEW p \in Peers, Settle(p)
  PROVE  /\ chain[p] \in Seq(Operations) /\ chain[p] # <<>>
         /\ Has(chain[p], Describing) => Has(chain'[p], Describing)
                                         \/ Head(chain[p]) \in Describing
         /\ \/ Signalling(p) = "have-remote-offer"
            \/ chain'[p] = Tail(chain[p])
            \/ \E e \in Operations : e \notin Needing /\ chain'[p] = Append(Tail(chain[p]), e)
<1>0. chain[p] \in Seq(Operations) /\ chain[p] # <<>>
  BY ChainType, SettleElsewhere
<1>1. /\ Elems(chain[p]) = Elems(Tail(chain[p])) \cup {Head(chain[p])}
      /\ Tail(chain[p]) \in Seq(Operations)
  BY <1>0, TailElems
<1>2. CASE \/ Reject(p) \/ OfferApplied(p) \/ AnswerApplied(p)
           \/ RemoteAnswerApplied(p) \/ CandidateAdded(p)
  <2>1. chain' = [chain EXCEPT ![p] = Tail(@)]
    BY <1>2 DEF Reject, OfferApplied, AnswerApplied, RemoteAnswerApplied, CandidateAdded
  <2>2. chain'[p] = Tail(chain[p])
    BY <2>1 DEF TypeOK
  <2>. QED
    BY <1>0, <1>1, <2>2 DEF Has
<1>3. CASE OfferCreated(p) \/ RemoteOfferApplied(p)
  <2>1. PICK e \in Operations : /\ e \notin Needing
                                /\ chain' = [chain EXCEPT ![p] = Append(Tail(@), e)]
    <3>1. CASE OfferCreated(p)
      <4>1. PICK ice \in Credentials :
              chain' = [chain EXCEPT ![p] = Append(Tail(@), Op("setLocalOffer", ice, FALSE))]
        BY <3>1, OfferHasCredentials
      <4>2. Op("setLocalOffer", ice, FALSE) \in Operations
            /\ Op("setLocalOffer", ice, FALSE) \notin Needing
        BY DEF Op, Operations, Needing
      <4>. QED
        BY <4>1, <4>2
    <3>2. CASE RemoteOfferApplied(p)
      <4>1. Op("createAnswer", None, FALSE) \in Operations
            /\ Op("createAnswer", None, FALSE) \notin Needing
        BY DEF Op, Operations, Needing
      <4>2. chain' = [chain EXCEPT ![p] = Append(Tail(@), Op("createAnswer", None, FALSE))]
        BY <3>2 DEF RemoteOfferApplied
      <4>. QED
        BY <4>1, <4>2
    <3>. QED
      BY <1>3, <3>1, <3>2
  <2>2. chain'[p] = Append(Tail(chain[p]), e)
    BY <2>1 DEF TypeOK
  <2>3. Elems(chain'[p]) = Elems(Tail(chain[p])) \cup {e}
    BY <1>0, <2>1, ChainTurns, Zenon
  <2>. QED
    BY <1>0, <1>1, <2>1, <2>2, <2>3 DEF Has
<1>4. CASE AnswerCreated(p)
  <2>1. Signalling(p) = "have-remote-offer"
    BY <1>4 DEF AnswerCreated, Settles, Refused
  <2>2. \A o \in Elems(chain[p]) :
          o \in Elems(chain'[p]) \/ o.op = "setLocalAnswer" \/ o = Head(chain[p])
    BY <1>4, ChainMarked
  <2>. QED
    BY <1>0, <2>1, <2>2 DEF Has, Describing
<1>. QED
  BY <1>2, <1>3, <1>4 DEF Settle

\* The signal an operation sends is an answer.
LEMMA SettledWire ==
  ASSUME TypeOK, NEW p \in Peers, Settle(p)
  PROVE  /\ wire'[p] = wire[p]
         /\ wire[Other(p)] \in Seq(Signals)
         /\ \/ wire'[Other(p)] = wire[Other(p)] /\ ~AnswerApplied(p)
            \/ \E g \in Carrying : /\ g \in Signals /\ g \notin Following
                                   /\ wire'[Other(p)] = Append(wire[Other(p)], g)
<1>0. wire'[p] = wire[p] /\ Other(p) \in Peers /\ wire[Other(p)] \in Seq(Signals)
  BY SettleElsewhere, TwoPages DEF TypeOK
<1>1. CASE AnswerApplied(p)
  <2>1. Head(chain[p]).ice \in Credentials
    <3>1. Head(chain[p]) \in Operations /\ Head(chain[p]).op = "setLocalAnswer"
      BY <1>1, ChainType DEF AnswerApplied, Settles
    <3>. QED
      BY <3>1 DEF Operations
  <2>. DEFINE g == [type |-> "answer", ice |-> Head(chain[p]).ice, early |-> FALSE]
  <2>2. g \in Signals /\ g \in Carrying /\ g \notin Following
    BY <2>1 DEF Signals, Carrying, Following
  <2>3. wire'[Other(p)] = Append(wire[Other(p)], g)
    BY <1>0, <1>1 DEF AnswerApplied, SendSignal, TypeOK
  <2>. HIDE DEF g
  <2>. QED
    BY <1>0, <2>2, <2>3
<1>2. CASE ~AnswerApplied(p)
  BY <1>0, <1>2 DEF Settle, Reject, OfferCreated, OfferApplied, RemoteOfferApplied,
     AnswerCreated, RemoteAnswerApplied, CandidateAdded
<1>. QED
  BY <1>1, <1>2

LEMMA InOrderStep ==
  ASSUME TypeOK, Made, NEW a \in Peers, OneCalls(a), InOrder, NEW p \in Peers,
         \/ Initialize(p) \/ CreateOffer(p) \/ HandleSignal(p)
         \/ Settle(p) \/ OnIceCandidate(p) \/ RelayOffer(p)
  PROVE  InOrder'
<1>. DEFINE q == Other(p)
<1>q. q \in Peers /\ q # p /\ Other(p) = q /\ Other(q) = p /\ \A r \in Peers : r = p \/ r = q
  BY TwoPages
<1>. HIDE DEF q
<1>0. /\ CandidatesFollow(p) /\ CandidatesFollow(q) /\ Told(p) /\ Told(q)
      /\ "in order" \notin lost[p] /\ "in order" \notin lost[q]
      /\ chain[p] \in Seq(Operations) /\ wire[p] \in Seq(Signals) /\ wire[q] \in Seq(Signals)
  BY <1>q DEF InOrder, TypeOK
<1>1. SUFFICES /\ CandidatesFollow(p)' /\ CandidatesFollow(q)' /\ Told(p)' /\ Told(q)'
               /\ "in order" \notin lost'[p] /\ "in order" \notin lost'[q]
  BY <1>q DEF InOrder
<1>2. CASE Initialize(p)
  <2>1. UNCHANGED <<peers, chain, wire, returned, lost>>
    BY <1>2 DEF Initialize
  <2>2. \A r \in Peers : LocalIce(r)' = LocalIce(r) /\ RemoteIce(r)' = RemoteIce(r)
    BY <2>1, SameEntries DEF SameEntry
  <2>. QED
    BY <1>0, <1>q, <2>1, <2>2 DEF CandidatesFollow, Told
<1>3. CASE CreateOffer(p)
  <2>1. /\ UNCHANGED <<wire, returned, lost>>
        /\ \A r \in Peers : SameEntry(r)
    BY <1>3, EntryKept DEF CreateOffer, SameEntry
  <2>2. \A r \in Peers : LocalIce(r)' = LocalIce(r) /\ RemoteIce(r)' = RemoteIce(r)
    BY <2>1, SameEntries
  <2>3. PICK e \in Operations : /\ e \notin Needing
                                /\ chain' = [chain EXCEPT ![p] = Append(@, e)]
    <3>1. Op("createOffer", None, FALSE) \in Operations
          /\ Op("createOffer", None, FALSE) \notin Needing
      BY DEF Op, Operations, Needing
    <3>2. chain' = [chain EXCEPT ![p] = Append(@, Op("createOffer", None, FALSE))]
      BY <1>3 DEF CreateOffer
    <3>. QED
      BY <3>1, <3>2
  <2>4. /\ chain'[p] = Append(chain[p], e) /\ chain'[q] = chain[q]
    BY <1>q, <2>3 DEF TypeOK
  <2>5. Has(chain[p], Describing) => Has(chain'[p], Describing)
    BY <1>0, <2>4, AppendElems DEF Has
  <2>6. Preceded(chain[p], Needing, Describing) => Preceded(chain'[p], Needing, Describing)
    <3>1. chain[p] \in Seq(Operations) /\ e \in Operations /\ e \notin Needing
      BY <1>0, <2>3
    <3>. QED
      BY <2>4, <3>1, PrecededBehind
  <2>. QED
    BY <1>0, <1>q, <2>1, <2>2, <2>4, <2>5, <2>6 DEF CandidatesFollow, Told
<1>4. CASE HandleSignal(p)
  <2>. DEFINE s == Head(wire[p])
              e == FirstOperation(s)
  <2>1. /\ \A r \in Peers : SameEntry(r)
        /\ returned' = returned
        /\ s \in Signals /\ wire'[q] = wire[q]
        /\ e \in Operations /\ chain'[p] = Append(chain[p], e)
        /\ Elems(chain'[p]) = Elems(chain[p]) \cup {e}
        /\ chain'[q] = chain[q]
    BY <1>4, <1>q, SignalTaken DEF SameEntry
  <2>2. wire[p] # <<>> /\ wire'[p] = Tail(wire[p]) /\ lost' = lost
    BY <1>4 DEF HandleSignal, TypeOK
  <2>3. /\ s \in Carrying <=> e \in Describing
        /\ s \in Following <=> e \in Needing
    BY <2>1 DEF Carrying, Following, Describing, Needing, FirstOperation, Op, Signals
  <2>. HIDE DEF e
  <2>4. \A r \in Peers : LocalIce(r)' = LocalIce(r) /\ RemoteIce(r)' = RemoteIce(r)
    BY <2>1, SameEntries
  <2>5. /\ Has(chain[p], Describing) => Has(chain'[p], Describing)
        /\ e \in Describing => Has(chain'[p], Describing)
    BY <2>1 DEF Has
  <2>6. e \notin Needing \/ Has(chain[p], Describing) =>
          (Preceded(chain[p], Needing, Describing) => Preceded(chain'[p], Needing, Describing))
    <3>1. ASSUME e \notin Needing \/ Has(chain[p], Describing),
                 Preceded(chain[p], Needing, Describing)
          PROVE  Preceded(Append(chain[p], e), Needing, Describing)
      BY <1>0, <2>1, <3>1, PrecededBehind
    <3>. QED
      BY <2>1, <3>1
  <2>7. Preceded(wire[p], Following, Carrying) =>
          s \notin Following /\ (s \notin Carrying => Preceded(wire'[p], Following, Carrying))
    <3>1. ASSUME Preceded(wire[p], Following, Carrying)
          PROVE  /\ Head(wire[p]) \notin Following
                 /\ Head(wire[p]) \notin Carrying =>
                      Preceded(Tail(wire[p]), Following, Carrying)
      BY <1>0, <2>2, <3>1, PrecededAhead
    <3>. QED
      BY <2>2, <3>1
  <2>8. Has(wire[p], Carrying) => Has(wire'[p], Carrying) \/ s \in Carrying
    <3>1. Elems(wire[p]) = Elems(Tail(wire[p])) \cup {s}
      BY <1>0, <2>2, TailElems
    <3>. QED
      BY <2>2, <3>1 DEF Has
  <2>. HIDE DEF s
  <2>9. CandidatesFollow(p)'
    BY <1>0, <2>3, <2>4, <2>5, <2>6, <2>7 DEF CandidatesFollow
  <2>10. CandidatesFollow(q)' /\ Told(p)'
    BY <1>0, <1>q, <2>1, <2>4 DEF CandidatesFollow, Told
  <2>11. Told(q)'
    BY <1>0, <1>q, <2>1, <2>3, <2>4, <2>5, <2>8 DEF Told
  <2>. QED
    BY <1>0, <2>2, <2>9, <2>10, <2>11
<1>5. CASE OnIceCandidate(p)
  <2>. DEFINE early(g) == \E i \in DOMAIN returned[p] : returned[p][i] = g
  <2>1. PICK g \in LocalIce(p) : SendSignal(p, "candidate", g, early(g))
    BY <1>5 DEF OnIceCandidate
  <2>2. UNCHANGED <<peers, chain, returned, lost>>
    BY <1>5 DEF OnIceCandidate
  <2>3. returned[p] # <<>> => early(g)
    <3>1. returned[Other(a)] = <<>> /\ \A ice \in Elems(returned[a]) : ice = 1
      BY DEF OneCalls, CallerSide, AnswererSide
    <3>2. LocalIce(a) \subseteq {1}
      BY IceApplied DEF OneCalls
    <3>3. returned[p] \in Seq(Credentials)
      BY DEF TypeOK
    <3>4. returned[p] # <<>> => 1 \in 1..Len(returned[p]) /\ DOMAIN returned[p] = 1..Len(returned[p])
      BY <3>3
    <3>5. p = a \/ p = Other(a)
      BY TwoPages
    <3>. QED
      BY <3>1, <3>2, <3>4, <3>5 DEF Elems
  <2>4. g \in Credentials /\ early(g) \in BOOLEAN
    BY PeerType
  <2>. DEFINE s == [type |-> "candidate", ice |-> g, early |-> early(g)]
  <2>5. wire'[q] = Append(wire[q], s) /\ wire'[p] = wire[p]
    BY <1>q, <2>1 DEF SendSignal, TypeOK
  <2>. HIDE DEF early
  <2>6. s \in Signals /\ (s \in Following => ~early(g))
    BY <2>4 DEF Signals, Following
  <2>. HIDE DEF s
  <2>7. \A r \in Peers : LocalIce(r)' = LocalIce(r) /\ RemoteIce(r)' = RemoteIce(r)
    BY <2>2, SameEntries DEF SameEntry
  <2>8. Has(wire[q], Carrying) => Has(wire'[q], Carrying)
    BY <1>0, <2>5, <2>6, AppendElems DEF Has
  <2>9. s \notin Following \/ Has(wire[q], Carrying) =>
          (Preceded(wire[q], Following, Carrying) => Preceded(wire'[q], Following, Carrying))
    BY <1>0, <2>5, <2>6, PrecededBehind
  <2>10. RemoteIce(q) # {} \/ Has(chain[q], Describing)
         \/ s \notin Following \/ Has(wire[q], Carrying)
    BY <1>0, <1>q, <2>3, <2>6 DEF Told
  <2>11. CandidatesFollow(q)'
    BY <1>0, <1>q, <2>2, <2>7, <2>9, <2>10 DEF CandidatesFollow
  <2>12. CandidatesFollow(p)' /\ Told(p)' /\ Told(q)'
    BY <1>0, <1>q, <2>2, <2>5, <2>7, <2>8 DEF CandidatesFollow, Told
  <2>. QED
    BY <1>0, <2>2, <2>11, <2>12
<1>6. CASE RelayOffer(p)
  <2>1. Head(returned[p]) \in Credentials
    BY <1>6, TailElems DEF RelayOffer, TypeOK
  <2>2. UNCHANGED <<peers, chain, lost>> /\ returned'[q] = returned[q]
    BY <1>6, <1>q DEF RelayOffer, TypeOK
  <2>. DEFINE s == [type |-> "offer", ice |-> Head(returned[p]), early |-> FALSE]
  <2>3. wire'[q] = Append(wire[q], s) /\ wire'[p] = wire[p]
    BY <1>q, <1>6 DEF RelayOffer, SendSignal, TypeOK
  <2>4. s \in Signals /\ s \notin Following /\ s \in Carrying
    BY <2>1 DEF Signals, Following, Carrying
  <2>. HIDE DEF s
  <2>5. \A r \in Peers : LocalIce(r)' = LocalIce(r) /\ RemoteIce(r)' = RemoteIce(r)
    BY <2>2, SameEntries DEF SameEntry
  <2>6. Has(wire'[q], Carrying)
    BY <1>0, <2>3, <2>4, AppendElems DEF Has
  <2>7. Preceded(wire[q], Following, Carrying) => Preceded(wire'[q], Following, Carrying)
    BY <1>0, <2>3, <2>4, PrecededBehind
  <2>. QED
    BY <1>0, <1>q, <2>2, <2>3, <2>5, <2>6, <2>7 DEF CandidatesFollow, Told
<1>7. CASE Settle(p)
  <2>1. /\ peers'[q] = peers[q] /\ chain'[q] = chain[q]
        /\ returned'[q] = returned[q] /\ wire'[p] = wire[p]
    BY <1>7, <1>q, SettleElsewhere
  <2>2. LocalIce(q)' = LocalIce(q) /\ RemoteIce(q)' = RemoteIce(q)
    BY <1>q, <2>1 DEF LocalIce, RemoteIce, Pending
  <2>3. /\ RemoteIce(p) # {} => RemoteIce(p)' # {}
        /\ Head(chain[p]) \in Describing => RemoteIce(p)' # {}
    BY <1>7, SettledIce, RefusedInOrder DEF Describing
  <2>4. Signalling(p) = "have-remote-offer" => RemoteIce(p) # {}
    BY <1>q, PeerType DEF Signalling, RemoteIce, Pending, NoOffer
  <2>5. RemoteIce(p)' = {} =>
          /\ Preceded(chain[p], Needing, Describing) => Preceded(chain'[p], Needing, Describing)
          /\ Has(chain[p], Describing) => Has(chain'[p], Describing)
    <3>1. SUFFICES ASSUME RemoteIce(p)' = {}
                   PROVE  /\ Preceded(chain[p], Needing, Describing) =>
                               Preceded(chain'[p], Needing, Describing)
                          /\ Has(chain[p], Describing) => Has(chain'[p], Describing)
      OBVIOUS
    <3>2. Head(chain[p]) \notin Describing /\ Signalling(p) # "have-remote-offer"
      BY <2>3, <2>4, <3>1
    <3>3. chain[p] # <<>> /\ Tail(chain[p]) \in Seq(Operations)
      BY <1>7, ChainType, SettledChain
    <3>4. Preceded(chain[p], Needing, Describing) =>
            Preceded(Tail(chain[p]), Needing, Describing)
      BY <1>0, <3>2, <3>3, PrecededAhead
    <3>5. \/ chain'[p] = Tail(chain[p])
          \/ \E e \in Operations : e \notin Needing /\ chain'[p] = Append(Tail(chain[p]), e)
      BY <1>7, <3>2, SettledChain
    <3>6. Preceded(Tail(chain[p]), Needing, Describing) =>
            Preceded(chain'[p], Needing, Describing)
      BY <3>3, <3>5, PrecededBehind
    <3>7. Has(chain[p], Describing) => Has(chain'[p], Describing)
      BY <1>7, <3>2, SettledChain
    <3>. QED
      BY <3>4, <3>6, <3>7
  <2>6. CandidatesFollow(p)' /\ Told(q)'
    BY <1>0, <1>q, <2>1, <2>2, <2>3, <2>5 DEF CandidatesFollow, Told
  <2>7. /\ Preceded(wire[q], Following, Carrying) => Preceded(wire'[q], Following, Carrying)
        /\ Has(wire[q], Carrying) \/ AnswerApplied(p) => Has(wire'[q], Carrying)
    <3>1. \/ wire'[q] = wire[q] /\ ~AnswerApplied(p)
          \/ \E g \in Carrying : /\ g \in Signals /\ g \notin Following
                                 /\ wire'[q] = Append(wire[q], g)
      BY <1>7, <1>q, SettledWire
    <3>2. CASE wire'[q] = wire[q] /\ ~AnswerApplied(p)
      BY <3>2
    <3>3. ASSUME NEW g \in Carrying, g \in Signals, g \notin Following,
                 wire'[q] = Append(wire[q], g)
          PROVE  /\ Preceded(wire[q], Following, Carrying) =>
                      Preceded(wire'[q], Following, Carrying)
                 /\ Has(wire'[q], Carrying)
      <4>1. Elems(Append(wire[q], g)) = Elems(wire[q]) \cup {g}
        <5>1. g \in Signals /\ wire[q] \in Seq(Signals)
          BY <1>0, <3>3
        <5>. QED
          BY <5>1, AppendElems
      <4>2. Preceded(wire[q], Following, Carrying) => Preceded(wire'[q], Following, Carrying)
        BY <1>0, <3>3, PrecededBehind
      <4>. QED
        BY <3>3, <4>1, <4>2 DEF Has
    <3>. QED
      BY <3>1, <3>2, <3>3
  <2>8. CandidatesFollow(q)'
    BY <1>0, <2>1, <2>2, <2>7 DEF CandidatesFollow
  <2>9. OfferApplied(p) => returned'[p] # <<>>
    <3>1. SUFFICES ASSUME OfferApplied(p) PROVE returned'[p] # <<>>
      OBVIOUS
    <3>2. Head(chain[p]).ice \in Credentials
      BY <3>1, ChainType DEF OfferApplied, Settles, Operations
    <3>3. returned'[p] = Append(returned[p], Head(chain[p]).ice)
          /\ returned[p] \in Seq(Credentials)
      BY <3>1 DEF OfferApplied, TypeOK
    <3>. QED
      BY <3>2, <3>3, AppendElems
  <2>10. Told(p)'
    <3>1. \/ LocalIce(p)' \subseteq LocalIce(p) /\ returned'[p] = returned[p]
          \/ returned'[p] # <<>> \/ Has(wire'[q], Carrying)
      BY <1>7, <2>7, <2>9, SettledIce
    <3>. QED
      BY <1>0, <1>q, <2>1, <2>2, <2>7, <3>1 DEF Told
  <2>11. "in order" \notin lost'[p] /\ "in order" \notin lost'[q]
    <3>1. CASE Reject(p) /\ Head(chain[p]).op = "addIceCandidate"
      <4>1. chain[p] # <<>> /\ Head(chain[p]) \in Operations
        BY <3>1, ChainType DEF Reject
      <4>2. Preceded(chain[p], Needing, Describing)
        BY <1>0, <3>1, RefusedInOrder DEF CandidatesFollow
      <4>3. Head(chain[p]).mark
        <5>1. Head(chain[p]) \notin Needing
          BY <1>0, <4>1, <4>2, PrecededAhead
        <5>. QED
          BY <3>1, <4>1, <5>1 DEF Needing
      <4>4. lost' = [lost EXCEPT ![p] = @ \cup {"overtook"}]
        BY <3>1, <4>3 DEF Reject
      <4>. QED
        BY <1>0, <1>q, <4>4 DEF TypeOK
    <3>2. CASE ~(Reject(p) /\ Head(chain[p]).op = "addIceCandidate")
      <4>1. lost' = lost
        BY <1>7, <3>2 DEF Settle, Reject, OfferCreated, OfferApplied, RemoteOfferApplied,
           AnswerCreated, AnswerApplied, RemoteAnswerApplied, CandidateAdded
      <4>. QED
        BY <1>0, <4>1
    <3>. QED
      BY <3>1, <3>2
  <2>. QED
    BY <2>6, <2>8, <2>10, <2>11
<1>. QED
  BY <1>2, <1>3, <1>4, <1>5, <1>6, <1>7

(***************************************************************************)
(* The invariant and the theorem.                                          *)
(***************************************************************************)
Ordered == \A a \in Peers : callers \subseteq {a} => InOrder

LEMMA OrderedInit == Init => Ordered
<1>. SUFFICES ASSUME Init, NEW p \in Peers
              PROVE  CandidatesFollow(p) /\ Told(p) /\ "in order" \notin lost[p]
  BY DEF Ordered, InOrder
<1>1. /\ chain[p] = <<>> /\ wire[p] = <<>> /\ peers[p].local = None
      /\ peers[p].pend = NoOffer /\ lost[p] = {}
  BY DEF Init, NoPeer
<1>2. LocalIce(p) = {}
  BY <1>1, PeersAssumption DEF LocalIce, Pending, NoOffer
<1>. QED
  BY <1>1, <1>2 DEF CandidatesFollow, Told, Preceded

LEMMA OrderedStep == TypeOK /\ Made /\ Alone /\ Ordered /\ [Next]_vars => Ordered'
<1>. SUFFICES ASSUME TypeOK, Made, Alone, Ordered, [Next]_vars,
                     NEW a \in Peers, callers' \subseteq {a}
              PROVE  InOrder'
  BY DEF Ordered
<1>1. CASE UNCHANGED vars
  <2>1. InOrder /\ UNCHANGED <<peers, chain, wire, returned, lost>>
    BY <1>1 DEF vars, Ordered
  <2>2. \A r \in Peers : LocalIce(r)' = LocalIce(r) /\ RemoteIce(r)' = RemoteIce(r)
    BY <2>1, SameEntries DEF SameEntry
  <2>. QED
    BY <2>1, <2>2, TwoPages DEF InOrder, CandidatesFollow, Told
<1>2. ASSUME NEW p \in Peers,
             \/ Initialize(p) \/ CreateOffer(p) \/ HandleSignal(p)
             \/ Settle(p) \/ OnIceCandidate(p) \/ RelayOffer(p)
      PROVE  InOrder'
  <2>1. callers' = callers \/ callers' = callers \cup {p}
    BY <1>2, SettleElsewhere
       DEF Initialize, CreateOffer, HandleSignal, OnIceCandidate, RelayOffer, history
  <2>2. OneCalls(a) /\ InOrder
    BY <2>1 DEF Alone, Ordered
  <2>. QED
    BY <1>2, <2>2, InOrderStep
<1>. QED
  BY <1>1, <1>2 DEF Next

LEMMA OrderedKeeps == Ordered => OneSidedKeepsCandidates
BY DEF Ordered, InOrder, OneSidedKeepsCandidates, OneCaller

\* While one page only calls createOffer, no candidate is refused but one that
\* overtook the offer it belongs to (webrtc-interop.js 14, 24-25, 28-29, 40-44).
THEOREM OneCallerKeepsCandidates == Spec => []OneSidedKeepsCandidates
<1>1. Spec => [](TypeOK /\ Halfway /\ Alone)
  BY AloneHolds
<1>2. Init => Ordered
  BY OrderedInit
<1>3. TypeOK /\ Halfway /\ Alone /\ Ordered /\ [Next]_vars => Ordered'
  BY OrderedStep DEF Halfway
<1>. QED
  BY <1>1, <1>2, <1>3, OrderedKeeps, PTL DEF Spec
=============================================================================
