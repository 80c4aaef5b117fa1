--------------------------- MODULE WebRtcChannels ---------------------------
(***************************************************************************)
(* The data channels of two browser pages: what createOffer,               *)
(* setupDataChannel and sendData of Transfarr.Client.Core/wwwroot/js/      *)
(* webrtc-interop.js make of them.  Every createOffer makes one more       *)
(* channel; the entry of `peers' names the one set up last, which need not *)
(* be the same at both ends.                                               *)
(*                                                                         *)
(* The browser's transport and RTCDataChannel are external.  The transport *)
(* comes up when the pages have agreed, which is module WebRtcSignalling,  *)
(* and may be lost; then it does not come back, for the script keeps the   *)
(* connection it has.                                                      *)
(***************************************************************************)
EXTENDS Naturals

CONSTANTS
  Peers,      \* the two pages
  MaxCalls,   \* bound: calls of createOffer, of both pages together
  MaxSends    \* bound: messages a page gets accepted by sendData

ASSUME PeersAssumption == \E a, b \in Peers : a # b /\ Peers = {a, b}
ASSUME BoundsAssumption == MaxCalls \in Nat \ {0} /\ MaxSends \in Nat

VARIABLES
  dc,       \* peers[peerId].dc of each page
  calls,    \* calls of createOffer, each of which made a channel
  link,     \* external: the transport between the two pages
  ends,     \* readyState of a page's end of each channel
  told,     \* the connection state .NET was told last
  accepted, \* messages of a page for which sendData has returned true
  flight,   \* those on their way, on each channel
  got       \* those .NET of the other page was handed

vars == <<dc, calls, link, ends, told, accepted, flight, got>>
data == <<accepted, flight, got>>

Other(p) == CHOOSE q \in Peers : q # p

Channels  == 1..MaxCalls   \* a channel is the call that made it
NoChannel == 0
Messages  == 1..MaxSends

Init ==
  /\ dc = [p \in Peers |-> NoChannel]
  /\ calls = 0
  /\ link = "new"
  /\ ends = [p \in Peers |-> [c \in Channels |-> "absent"]]
  /\ told = [p \in Peers |-> "nothing"]
  /\ accepted = [p \in Peers |-> 0]
  /\ flight = [p \in Peers |-> [c \in Channels |-> {}]]
  /\ got = [p \in Peers |-> {}]

\* setupDataChannel: the entry names this channel, and its events are handled
\* from now on.
SetupDataChannel(p, c, readyState) ==
  /\ dc' = [dc EXCEPT ![p] = c]
  /\ ends' = [ends EXCEPT ![p][c] = readyState]

\* createOffer, lines before its first await: also when the offer is refused
\* later, the channel stays.
CreateOffer(p) ==
  /\ calls < MaxCalls
  /\ calls' = calls + 1
  /\ SetupDataChannel(p, calls + 1, "connecting")
  /\ UNCHANGED <<link, told, data>>

\* The transport comes up, or ends and drops what is on its way.
Connect ==
  /\ link = "new" /\ calls > 0
  /\ link' = "up"
  /\ UNCHANGED <<dc, calls, ends, told, data>>

Disconnect ==
  /\ link = "up"
  /\ link' = "lost"
  /\ flight' = [p \in Peers |-> [c \in Channels |-> {}]]
  /\ UNCHANGED <<dc, calls, ends, told, accepted, got>>

\* onopen that reports the channel's readyState.
OnOpenRaw(p) ==
  /\ link = "up"
  /\ \E c \in Channels : /\ ends[p][c] = "connecting"
                         /\ ends' = [ends EXCEPT ![p][c] = "open"]
  /\ told' = [told EXCEPT ![p] = "open"]
  /\ UNCHANGED <<dc, calls, link, data>>

\* onopen of a channel that this page made.
OnOpen(p) ==
  /\ link = "up"
  /\ \E c \in Channels : /\ ends[p][c] = "connecting"
                         /\ ends' = [ends EXCEPT ![p][c] = "open"]
  /\ told' = [told EXCEPT ![p] = "Connected"]
  /\ UNCHANGED <<dc, calls, link, data>>

\* Without ondatachannel nobody looks at the channel.
OnDataChannelUnseen(p) ==
  /\ link = "up"
  /\ \E c \in Channels : /\ ends[p][c] = "absent"
                         /\ ends[Other(p)][c] # "absent"
                         /\ ends' = [ends EXCEPT ![p][c] = "open"]
  /\ UNCHANGED <<dc, calls, link, told, data>>

\* ondatachannel, of a channel that the other page made, and its onopen, which
\* the browser fires in the same task.
OnDataChannel(p) ==
  /\ link = "up"
  /\ \E c \in Channels : /\ ends[p][c] = "absent"
                         /\ ends[Other(p)][c] # "absent"
                         /\ SetupDataChannel(p, c, "open")
  /\ told' = [told EXCEPT ![p] = "Connected"]
  /\ UNCHANGED <<calls, link, data>>

\* onclose, of whatever channel, the one the entry names or another.
OnClose(p) ==
  /\ link = "lost"
  /\ \E c \in Channels : /\ ends[p][c] \in {"connecting", "open"}
                         /\ ends' = [ends EXCEPT ![p][c] = "closed"]
  /\ told' = [told EXCEPT ![p] = "Disconnected"]
  /\ UNCHANGED <<dc, calls, link, data>>

\* sendData returns true; otherwise it returns false and does nothing.
Sendable(p) == dc[p] # NoChannel /\ ends[p][dc[p]] = "open"

\* RTCDataChannel.send: on a channel that still says "open" when the transport
\* is lost it throws nothing, and what it is given is lost too.
Transmit(p, c, m) ==
  flight' = IF link = "up" THEN [flight EXCEPT ![p][c] = @ \cup {m}] ELSE flight

SendData(p) ==
  /\ accepted[p] < MaxSends
  /\ Sendable(p)
  /\ accepted' = [accepted EXCEPT ![p] = @ + 1]
  /\ Transmit(p, dc[p], accepted[p] + 1)
  /\ UNCHANGED <<dc, calls, link, ends, told, got>>

\* onmessage that takes what comes on another channel than the entry names for
\* left over from an earlier call.
OnMessageOfTheEntry(p) ==
  \E c \in Channels : \E m \in flight[Other(p)][c] :
    /\ ends[p][c] = "open"
    /\ flight' = [flight EXCEPT ![Other(p)][c] = @ \ {m}]
    /\ got' = IF c = dc[p] THEN [got EXCEPT ![p] = @ \cup {m}] ELSE got
    /\ UNCHANGED <<dc, calls, link, ends, told, accepted>>

\* onmessage, on whichever channel the message comes.
OnMessage(p) ==
  \E c \in Channels : \E m \in flight[Other(p)][c] :
    /\ ends[p][c] = "open"
    /\ flight' = [flight EXCEPT ![Other(p)][c] = @ \ {m}]
    /\ got' = [got EXCEPT ![p] = @ \cup {m}]
    /\ UNCHANGED <<dc, calls, link, ends, told, accepted>>

Event(p) == OnOpen(p) \/ OnDataChannel(p) \/ OnClose(p) \/ OnMessage(p)

Next == \/ \E p \in Peers : CreateOffer(p) \/ Event(p) \/ SendData(p)
        \/ Connect
        \/ Disconnect

\* The browser fires the events there are.
Fairness == \A p \in Peers : WF_vars(Event(p))

Spec == Init /\ [][Next]_vars /\ Fairness

(***************************************************************************)
(* Properties.                                                             *)
(***************************************************************************)
\* The type of the script's state and of its surroundings.
TypeOK ==
  /\ dc \in [Peers -> Channels \cup {NoChannel}]
  /\ calls \in 0..MaxCalls
  /\ link \in {"new", "up", "lost"}
  /\ ends \in [Peers -> [Channels -> {"absent", "connecting", "open", "closed"}]]
  /\ told \in [Peers -> {"nothing", "Connected", "Disconnected"}]
  /\ accepted \in [Peers -> 0..MaxSends]
  /\ flight \in [Peers -> [Channels -> SUBSET Messages]]
  /\ got \in [Peers -> SUBSET Messages]

\* As long as the transport lives, a message for which sendData said true is on
\* its way to the other page's .NET or has been handed to it, although either
\* page's entry may have come to name another channel since
\* (webrtc-interop.js 47, 56, 65-71, 75-84).
Unreceived(p) == UNION {flight[p][c] : c \in Channels}
NothingVanishes ==
  link # "lost" => \A p \in Peers : 1..accepted[p] = got[Other(p)] \cup Unreceived(p)

\* While the transport lives both pages come to be told "Connected" and able to
\* send, again after each further call of createOffer has put a channel that is
\* not open in the place of one that is; once it is lost, no page goes on being
\* told "Connected" or able to send, however many channels there were
\* (webrtc-interop.js 9-10, 46-64).
Usable == \A p \in Peers : told[p] = "Connected" /\ Sendable(p)
Silent == \A p \in Peers : told[p] # "Connected" /\ ~Sendable(p)
ChannelsFollowTheLink ==
  /\ []<>(link = "up" => Usable)
  /\ <>[](link = "lost" => Silent)
=============================================================================
