-------------------------- MODULE WebRtcSignalling --------------------------
(***************************************************************************)
(* How two browser pages agree on a connection: createOffer, handleSignal  *)
(* and getOrCreatePeer of Transfarr.Client.Core/wwwroot/js/                *)
(* webrtc-interop.js.  Both pages may call createOffer at any time.        *)
(*                                                                         *)
(* The script is an island: nothing in the repository imports it or        *)
(* answers its call-backs yet.  Its two neighbours are external, modelled  *)
(* from how the script uses them:                                          *)
(*   - RTCPeerConnection: one chain of operations per connection, executed *)
(*     in order; what follows an await runs when its operation settles and *)
(*     before the next one does.  A remote offer that meets an own one     *)
(*     rolls that back.  A candidate belongs to the ICE credentials of a   *)
(*     local description and is refused unless they are the remote's.      *)
(*   - the .NET side: SendSignalInternal relays at once, over a relay that *)
(*     keeps the order (SignalingHub.SendSignal); the offer that           *)
(*     createOffer returns is relayed whenever its caller gets to it.      *)
(***************************************************************************)
EXTENDS Naturals, Sequences

CONSTANTS
  Peers,      \* the two pages
  MaxCalls    \* bound: calls of createOffer, of both pages together

ASSUME PeersAssumption == /\ \E a, b \in Peers : a # b /\ Peers = {a, b}
                          /\ "nobody" \notin Peers
ASSUME MaxCallsAssumption == MaxCalls \in Nat \ {0}

VARIABLES
  dotNetRef,  \* window.dotNetRef is set
  peers,      \* the page's entry for the other page: its RTCPeerConnection with
              \* the credentials of its descriptions and the pending offer
  chain,      \* external: the operations of that connection, not yet settled
  credentials,\* external: how many ICE credentials it has made
  gathered,   \* external: those whose candidate has been announced
  known,      \* external: the remote credentials it has a candidate of
  returned,   \* offers that createOffer returned and its caller has not relayed
  wire,       \* signals on their way to a page
  calls,      \* calls of createOffer, by whichever page
  callers,    \* the pages that have made one
  lone,       \* the last call came when nothing was under way
  lost        \* what candidates a page refused: some that "overtook" their
              \* offer, some that came "in order"

vars == <<dotNetRef, peers, chain, credentials, gathered, known, returned, wire,
          calls, callers, lone, lost>>
history == <<calls, callers, lone>>

Other(p) == CHOOSE q \in Peers : q # p

Credentials == Nat \ {0}
None        == 0
NoOffer     == [by |-> "nobody", ice |-> None]
NoPeer      == [made |-> FALSE, local |-> None, remote |-> None, pend |-> NoOffer]
NewPeer     == [NoPeer EXCEPT !.made = TRUE]

\* An operation of a connection, the credentials it is about, and a mark: the
\* candidate overtook its offer, or the answer is not the last one created.
Op(op, ice, mark) == [op |-> op, ice |-> ice, mark |-> mark]

Signalling(p) == IF peers[p].pend = NoOffer THEN "stable"
                 ELSE IF peers[p].pend.by = p THEN "have-local-offer"
                 ELSE "have-remote-offer"

\* The credentials of the descriptions a page has applied.
Pending(p, q) == IF peers[p].pend.by = q THEN {peers[p].pend.ice} ELSE {}
LocalIce(p)   == (Pending(p, p) \cup {peers[p].local}) \ {None}
RemoteIce(p)  == (Pending(p, Other(p)) \cup {peers[p].remote}) \ {None}

\* Nothing is awaited, returned or on its way, and every candidate is out.
Quiet == \A p \in Peers : /\ chain[p] = <<>> /\ wire[p] = <<>> /\ returned[p] = <<>>
                          /\ LocalIce(p) \subseteq gathered[p]

Init ==
  /\ dotNetRef = [p \in Peers |-> FALSE]
  /\ peers = [p \in Peers |-> NoPeer]
  /\ chain = [p \in Peers |-> <<>>]
  /\ credentials = [p \in Peers |-> 0]
  /\ gathered = [p \in Peers |-> {}]
  /\ known = [p \in Peers |-> {}]
  /\ returned = [p \in Peers |-> <<>>]
  /\ wire = [p \in Peers |-> <<>>]
  /\ calls = 0
  /\ callers = {}
  /\ lone = FALSE
  /\ lost = [p \in Peers |-> {}]

(***************************************************************************)
(* The script's entry points, each up to its first await.                  *)
(***************************************************************************)
\* initialize: .NET hands over what the script calls back, before it makes any
\* other call.
Initialize(p) ==
  /\ ~dotNetRef[p]
  /\ dotNetRef' = [dotNetRef EXCEPT ![p] = TRUE]
  /\ UNCHANGED <<peers, chain, credentials, gathered, known, returned, wire, history, lost>>

\* Without the test for an entry: every call starts from a new connection.
GetOrCreatePeerAnew(p) == NewPeer

\* getOrCreatePeer: an entry is kept for good and its connection reused.
GetOrCreatePeer(p) == IF peers[p].made THEN peers[p] ELSE NewPeer

\* createOffer.  The caller awaits one call before it makes the next.
CreateOffer(p) ==
  /\ dotNetRef[p]
  /\ calls < MaxCalls
  /\ \A i \in DOMAIN chain[p] : chain[p][i].op \notin {"createOffer", "setLocalOffer"}
  /\ peers' = [peers EXCEPT ![p] = GetOrCreatePeer(p)]
  /\ chain' = [chain EXCEPT ![p] = Append(@, Op("createOffer", None, FALSE))]
  /\ calls' = calls + 1
  /\ callers' = callers \cup {p}
  /\ lone' = Quiet
  /\ UNCHANGED <<dotNetRef, credentials, gathered, known, returned, wire, lost>>

\* handleSignal: the operation that the type of the signal asks for.
FirstOperation(s) ==
  CASE s.type = "offer"     -> Op("setRemoteOffer", s.ice, FALSE)
    [] s.type = "answer"    -> Op("setRemoteAnswer", s.ice, FALSE)
    [] s.type = "candidate" -> Op("addIceCandidate", s.ice, s.early)

HandleSignal(p) ==
  /\ dotNetRef[p]
  /\ wire[p] # <<>>
  /\ wire' = [wire EXCEPT ![p] = Tail(@)]
  /\ peers' = [peers EXCEPT ![p] = GetOrCreatePeer(p)]
  /\ chain' = [chain EXCEPT ![p] = Append(@, FirstOperation(Head(wire[p])))]
  /\ UNCHANGED <<dotNetRef, credentials, gathered, known, returned, history, lost>>

(***************************************************************************)
(* The operations settle in order.  Each action is the browser's step with *)
(* what the script does between that await and the next.                   *)
(***************************************************************************)
Refused(p) ==
  LET o == Head(chain[p]) IN
  \/ o.op \in {"createOffer", "setLocalOffer"} /\ Signalling(p) = "have-remote-offer"
  \/ o.op = "createAnswer" /\ Signalling(p) # "have-remote-offer"
  \/ o.op = "setLocalAnswer" /\ (o.mark \/ Signalling(p) # "have-remote-offer")
  \/ o.op = "setRemoteAnswer" /\ Signalling(p) # "have-local-offer"
  \/ o.op = "addIceCandidate" /\ o.ice \notin RemoteIce(p)

Settles(p, op) == chain[p] # <<>> /\ Head(chain[p]).op = op /\ ~Refused(p)

\* SendSignalInternal, relayed to the other page.
SendSignal(p, type, ice, early) ==
  wire' = [wire EXCEPT ![Other(p)] =
             Append(@, [type |-> type, ice |-> ice, early |-> early])]

\* A refused operation ends its call: the exception leaves the script.
Reject(p) ==
  /\ chain[p] # <<>> /\ Refused(p)
  /\ chain' = [chain EXCEPT ![p] = Tail(@)]
  /\ lost' = IF Head(chain[p]).op # "addIceCandidate" THEN lost
             ELSE [lost EXCEPT ![p] = @ \cup {IF Head(chain[p]).mark THEN "overtook"
                                                                     ELSE "in order"}]
  /\ UNCHANGED <<dotNetRef, peers, credentials, gathered, known, returned, wire, history>>

\* createOffer, after its first await.  An offer has the credentials of the
\* local description there is, or new ones.
OfferCreated(p) ==
  LET keeps == LocalIce(p) # {}
      ice   == IF ~keeps THEN credentials[p] + 1
               ELSE IF Signalling(p) = "have-local-offer" THEN peers[p].pend.ice
               ELSE peers[p].local
  IN
  /\ Settles(p, "createOffer")
  /\ credentials' = [credentials EXCEPT ![p] = IF keeps THEN @ ELSE @ + 1]
  /\ chain' = [chain EXCEPT ![p] = Append(Tail(@), Op("setLocalOffer", ice, FALSE))]
  /\ UNCHANGED <<dotNetRef, peers, gathered, known, returned, wire, history, lost>>

\* createOffer, after its second await: it returns the offer.
OfferApplied(p) ==
  LET o == Head(chain[p]) IN
  /\ Settles(p, "setLocalOffer")
  /\ peers' = [peers EXCEPT ![p].pend = [by |-> p, ice |-> o.ice]]
  /\ returned' = [returned EXCEPT ![p] = Append(@, o.ice)]
  /\ chain' = [chain EXCEPT ![p] = Tail(@)]
  /\ UNCHANGED <<dotNetRef, credentials, gathered, known, wire, history, lost>>

\* handleSignal of an offer, after its first await.  The offer replaces
\* whatever offer was pending, an own one included.
RemoteOfferApplied(p) ==
  /\ Settles(p, "setRemoteOffer")
  /\ peers' = [peers EXCEPT ![p].pend = [by |-> Other(p), ice |-> Head(chain[p]).ice]]
  /\ chain' = [chain EXCEPT ![p] = Append(Tail(@), Op("createAnswer", None, FALSE))]
  /\ UNCHANGED <<dotNetRef, credentials, gathered, known, returned, wire, history, lost>>

\* The answer goes out without having been applied.
AnswerSentUnapplied(p) ==
  /\ Settles(p, "createAnswer")
  /\ credentials' = [credentials EXCEPT ![p] = @ + 1]
  /\ SendSignal(p, "answer", credentials[p] + 1, FALSE)
  /\ chain' = [chain EXCEPT ![p] = Tail(@)]
  /\ UNCHANGED <<dotNetRef, peers, gathered, known, returned, history, lost>>

\* ... after its second await.  The credentials stay unless the offer's are new,
\* and an answer created before can no longer be applied.
AnswerCreated(p) ==
  LET keeps == peers[p].local # None /\ peers[p].remote = peers[p].pend.ice
      ice   == IF keeps THEN peers[p].local ELSE credentials[p] + 1
      rest  == Tail(chain[p])
      older == [i \in DOMAIN rest |->
                  IF rest[i].op = "setLocalAnswer" THEN [rest[i] EXCEPT !.mark = TRUE]
                                                   ELSE rest[i]]
  IN
  /\ Settles(p, "createAnswer")
  /\ credentials' = [credentials EXCEPT ![p] = IF keeps THEN @ ELSE @ + 1]
  /\ chain' = [chain EXCEPT ![p] = Append(older, Op("setLocalAnswer", ice, FALSE))]
  /\ UNCHANGED <<dotNetRef, peers, gathered, known, returned, wire, history, lost>>

\* ... after its third await: it sends the answer.
AnswerApplied(p) ==
  LET o == Head(chain[p]) IN
  /\ Settles(p, "setLocalAnswer")
  /\ peers' = [peers EXCEPT ![p] = [@ EXCEPT !.local = o.ice, !.remote = peers[p].pend.ice,
                                             !.pend = NoOffer]]
  /\ SendSignal(p, "answer", o.ice, FALSE)
  /\ chain' = [chain EXCEPT ![p] = Tail(@)]
  /\ UNCHANGED <<dotNetRef, credentials, gathered, known, returned, history, lost>>

\* handleSignal of an answer: which offer it answers is not looked at.
RemoteAnswerApplied(p) ==
  LET o == Head(chain[p]) IN
  /\ Settles(p, "setRemoteAnswer")
  /\ peers' = [peers EXCEPT ![p] = [@ EXCEPT !.local = peers[p].pend.ice, !.remote = o.ice,
                                             !.pend = NoOffer]]
  /\ chain' = [chain EXCEPT ![p] = Tail(@)]
  /\ UNCHANGED <<dotNetRef, credentials, gathered, known, returned, wire, history, lost>>

\* A candidate that is taken for something else.
CandidateIgnored(p) ==
  /\ Settles(p, "addIceCandidate")
  /\ chain' = [chain EXCEPT ![p] = Tail(@)]
  /\ UNCHANGED <<dotNetRef, peers, credentials, gathered, known, returned, wire,
                 history, lost>>

\* handleSignal of a candidate.
CandidateAdded(p) ==
  /\ Settles(p, "addIceCandidate")
  /\ known' = [known EXCEPT ![p] = @ \cup {Head(chain[p]).ice}]
  /\ chain' = [chain EXCEPT ![p] = Tail(@)]
  /\ UNCHANGED <<dotNetRef, peers, credentials, gathered, returned, wire, history, lost>>

Settle(p) == \/ Reject(p)
             \/ OfferCreated(p)
             \/ OfferApplied(p)
             \/ RemoteOfferApplied(p)
             \/ AnswerCreated(p)
             \/ AnswerApplied(p)
             \/ RemoteAnswerApplied(p)
             \/ CandidateAdded(p)

\* The event that ends the gathering is sent like a candidate.
OnIceCandidateOrNull(p) ==
  \E g \in (LocalIce(p) \ gathered[p]) \cup {None} :
    /\ LocalIce(p) # {}
    /\ gathered' = [gathered EXCEPT ![p] = @ \cup {g}]
    /\ SendSignal(p, "candidate", g, FALSE)
    /\ UNCHANGED <<dotNetRef, peers, chain, credentials, known, returned, history, lost>>

\* Candidates go out as soon as a description has been created.
OnIceCandidateEarly(p) ==
  \E g \in (1..credentials[p]) \ gathered[p] :
    /\ gathered' = [gathered EXCEPT ![p] = @ \cup {g}]
    /\ SendSignal(p, "candidate", g, \E i \in DOMAIN returned[p] : returned[p][i] = g)
    /\ UNCHANGED <<dotNetRef, peers, chain, credentials, known, returned, history, lost>>

\* onicecandidate: a candidate of a local description is sent at once, before
\* an offer that still waits for the caller to relay it.
OnIceCandidate(p) ==
  \E g \in LocalIce(p) \ gathered[p] :
    /\ gathered' = [gathered EXCEPT ![p] = @ \cup {g}]
    /\ SendSignal(p, "candidate", g, \E i \in DOMAIN returned[p] : returned[p][i] = g)
    /\ UNCHANGED <<dotNetRef, peers, chain, credentials, known, returned, history, lost>>

\* The caller relays the offer that createOffer returned.
RelayOffer(p) ==
  /\ returned[p] # <<>>
  /\ SendSignal(p, "offer", Head(returned[p]), FALSE)
  /\ returned' = [returned EXCEPT ![p] = Tail(@)]
  /\ UNCHANGED <<dotNetRef, peers, chain, credentials, gathered, known, history, lost>>

Next == \E p \in Peers : \/ Initialize(p) \/ CreateOffer(p) \/ HandleSignal(p)
                         \/ Settle(p) \/ OnIceCandidate(p) \/ RelayOffer(p)

\* The browsers and the relay make progress; nobody has to call createOffer.
Fairness == \A p \in Peers : /\ WF_vars(Initialize(p))
                             /\ WF_vars(HandleSignal(p))
                             /\ WF_vars(Settle(p))
                             /\ WF_vars(OnIceCandidate(p))
                             /\ WF_vars(RelayOffer(p))

Spec == Init /\ [][Next]_vars /\ Fairness

(***************************************************************************)
(* Properties.                                                             *)
(***************************************************************************)
Signals    == [type : {"offer", "answer", "candidate"}, ice : Credentials,
               early : BOOLEAN]
Operations == [op  : {"createOffer", "createAnswer"}, ice : {None}, mark : BOOLEAN]
              \cup [op  : {"setLocalOffer", "setRemoteOffer", "setLocalAnswer",
                           "setRemoteAnswer", "addIceCandidate"},
                    ice : Credentials, mark : BOOLEAN]

\* The type of the script's state and of its surroundings.
TypeOK ==
  /\ dotNetRef \in [Peers -> BOOLEAN]
  /\ peers \in [Peers -> [made : BOOLEAN, local : Nat, remote : Nat,
                          pend : [by : Peers, ice : Credentials] \cup {NoOffer}]]
  /\ chain \in [Peers -> Seq(Operations)]
  /\ credentials \in [Peers -> Nat]
  /\ gathered \in [Peers -> SUBSET Credentials]
  /\ known \in [Peers -> SUBSET Credentials]
  /\ returned \in [Peers -> Seq(Credentials)]
  /\ wire \in [Peers -> Seq(Signals)]
  /\ calls \in 0..MaxCalls
  /\ callers \in SUBSET Peers
  /\ lone \in BOOLEAN
  /\ lost \in [Peers -> SUBSET {"overtook", "in order"}]

\* Whatever calls met (both pages at once, a second call before the first was
\* answered, an offer relayed late), when everything has settled no page is
\* left half way: neither waits for an answer that will not come nor sits on
\* an offer it has not answered (webrtc-interop.js 12-13, 21-27).
QuietIsStable == Quiet => \A p \in Peers : Signalling(p) = "stable"

\* Each side's remote credentials are the other side's local ones.
Agree == \A p \in Peers : /\ peers[p].local # None
                          /\ peers[p].local = peers[Other(p)].remote

OneCaller == \E a \in Peers : callers = {a}

\* As long as one page only has called createOffer, any number of times, the
\* two pages agree when everything has settled, although an answer is not
\* matched with the offer it answers and two runs of handleSignal may
\* interleave at their awaits (webrtc-interop.js 21-27).
OneSidedAgrees == (Quiet /\ OneCaller) => Agree

\* As long as one page only has called createOffer, a candidate is refused only
\* if it overtook the offer it belongs to, which waits for the caller to relay
\* it; what the answerer sends after its answer is never lost
\* (webrtc-interop.js 14, 24-25, 28-29, 40-44).
OneSidedKeepsCandidates == OneCaller => \A p \in Peers : "in order" \notin lost[p]

\* A call of createOffer made when nothing is under way, also after two calls
\* that crossed and left the pages with descriptions that do not match, ends
\* with pages that agree and one that has a candidate of the other, unless
\* another call follows (webrtc-interop.js 7-44).
Reachable == Agree /\ \E p \in Peers : peers[p].remote \in known[p]
LoneCallConnects ==
  \A n \in 1..MaxCalls : (lone /\ calls = n) ~> (Reachable \/ calls > n)
=============================================================================
