------------------------ MODULE WebRtcChannelProofs ------------------------
(***************************************************************************)
(* Theorems about WebRtcChannels, for any number of channels and messages. *)
(***************************************************************************)
EXTENDS WebRtcChannels, TLAPS

LEMMA TwoPages ==
  ASSUME NEW p \in Peers
  PROVE  Other(p) \in Peers /\ Other(p) # p /\ Other(Other(p)) = p
<1>1. PICK a, b \in Peers : a # b /\ Peers = {a, b}
  BY PeersAssumption
<1>2. \A q \in Peers : Other(q) \in Peers /\ Other(q) # q
  BY <1>1 DEF Other
<1>. QED
  BY <1>1, <1>2

LEMMA InFlight ==
  ASSUME NEW p \in Peers
  PROVE  /\ \A m : m \in Unreceived(p) <=> \E c \in Channels : m \in flight[p][c]
         /\ \A m : m \in Unreceived(p)' <=> \E c \in Channels : m \in flight'[p][c]
BY DEF Unreceived

\* What a message needs to leave is there: a channel opens only on a transport,
\* and there is never a new one.
Opened == \A p \in Peers, c \in Channels : ends[p][c] = "open" => link # "new"

LEMMA ChannelsInit == Init => TypeOK /\ Opened /\ NothingVanishes
<1>. SUFFICES ASSUME Init PROVE TypeOK /\ Opened /\ NothingVanishes
  OBVIOUS
<1>1. MaxCalls \in Nat \ {0} /\ MaxSends \in Nat
  BY BoundsAssumption
<1>2. TypeOK
  BY <1>1 DEF Init, TypeOK, NoChannel
<1>3. Opened
  BY DEF Init, Opened
<1>4. NothingVanishes
  <2>1. ASSUME NEW p \in Peers
        PROVE  1..accepted[p] = got[Other(p)] \cup Unreceived(p)
    <3>1. accepted[p] = 0 /\ got[Other(p)] = {} /\ \A c \in Channels : flight[p][c] = {}
      BY TwoPages DEF Init
    <3>2. 1..0 = {}
      OBVIOUS
    <3>3. Unreceived(p) = {}
      BY <3>1 DEF Unreceived
    <3>. QED
      BY <3>1, <3>2, <3>3
  <2>. QED
    BY <2>1 DEF NothingVanishes
<1>. QED
  BY <1>2, <1>3, <1>4

LEMMA ChannelsTypeStep == TypeOK /\ [Next]_vars => TypeOK'
<1>. SUFFICES ASSUME TypeOK, [Next]_vars PROVE TypeOK'
  OBVIOUS
<1>. USE BoundsAssumption DEF TypeOK, data
<1>1. CASE UNCHANGED vars
  BY <1>1 DEF vars
<1>2. ASSUME NEW p \in Peers, CreateOffer(p) PROVE TypeOK'
  <2>1. calls + 1 \in Channels /\ calls' \in 0..MaxCalls
    BY <1>2 DEF CreateOffer, Channels
  <2>. QED
    BY <1>2, <2>1 DEF CreateOffer, SetupDataChannel
<1>3. ASSUME NEW p \in Peers, OnOpen(p) PROVE TypeOK'
  BY <1>3 DEF OnOpen
<1>4. ASSUME NEW p \in Peers, OnDataChannel(p) PROVE TypeOK'
  BY <1>4 DEF OnDataChannel, SetupDataChannel
<1>5. ASSUME NEW p \in Peers, OnClose(p) PROVE TypeOK'
  BY <1>5 DEF OnClose
<1>6. ASSUME NEW p \in Peers, OnMessage(p) PROVE TypeOK'
  BY <1>6, TwoPages DEF OnMessage
<1>7. ASSUME NEW p \in Peers, SendData(p) PROVE TypeOK'
  <2>1. accepted[p] + 1 \in Messages /\ accepted[p] + 1 \in 0..MaxSends
    BY <1>7 DEF SendData, Messages
  <2>2. accepted' \in [Peers -> 0..MaxSends]
    BY <1>7, <2>1 DEF SendData
  <2>3. flight' \in [Peers -> [Channels -> SUBSET Messages]]
    <3>. DEFINE m == accepted[p] + 1
    <3>1. flight' = flight \/ flight' = [flight EXCEPT ![p][dc[p]] = @ \cup {m}]
      BY <1>7 DEF SendData, Transmit
    <3>2. dc[p] \in Channels
      BY <1>7 DEF SendData, Sendable
    <3>3. m \in Messages
      BY <2>1
    <3>. HIDE DEF m
    <3>4. flight \in [Peers -> [Channels -> SUBSET Messages]]
      OBVIOUS
    <3>5. [flight[p] EXCEPT ![dc[p]] = @ \cup {m}] \in [Channels -> SUBSET Messages]
      BY <3>2, <3>3, <3>4
    <3>6. flight' = flight
          \/ flight' = [flight EXCEPT ![p] = [flight[p] EXCEPT ![dc[p]] = @ \cup {m}]]
      BY <3>1
    <3>. QED
      BY <3>4, <3>5, <3>6
  <2>. QED
    BY <1>7, <2>2, <2>3 DEF SendData
<1>8. CASE Connect \/ Disconnect
  BY <1>8 DEF Connect, Disconnect
<1>. QED
  BY <1>1, <1>2, <1>3, <1>4, <1>5, <1>6, <1>7, <1>8 DEF Next, Event

LEMMA OpenedStep == TypeOK /\ Opened /\ [Next]_vars => Opened'
<1>. SUFFICES ASSUME TypeOK, Opened, [Next]_vars PROVE Opened'
  OBVIOUS
<1>. USE DEF TypeOK, Opened, data
<1>1. CASE UNCHANGED vars
  BY <1>1 DEF vars
<1>2. ASSUME NEW p \in Peers, CreateOffer(p) PROVE Opened'
  BY <1>2 DEF CreateOffer, SetupDataChannel
<1>3. ASSUME NEW p \in Peers, OnOpen(p) \/ OnDataChannel(p) PROVE Opened'
  BY <1>3 DEF OnOpen, OnDataChannel
<1>4. ASSUME NEW p \in Peers, OnClose(p) \/ OnMessage(p) \/ SendData(p) PROVE Opened'
  <2>1. CASE OnClose(p)
    BY <2>1 DEF OnClose
  <2>2. CASE OnMessage(p) \/ SendData(p)
    BY <2>2 DEF OnMessage, SendData
  <2>. QED
    BY <1>4, <2>1, <2>2
<1>5. CASE Connect \/ Disconnect
  BY <1>5 DEF Connect, Disconnect
<1>. QED
  BY <1>1, <1>2, <1>3, <1>4, <1>5 DEF Next, Event

LEMMA NothingVanishesStep ==
  TypeOK /\ Opened /\ NothingVanishes /\ [Next]_vars => NothingVanishes'
<1>. SUFFICES ASSUME TypeOK, Opened, NothingVanishes, [Next]_vars, link' # "lost",
                     NEW r \in Peers
              PROVE  1..accepted'[r] = got'[Other(r)] \cup Unreceived(r)'
  BY DEF NothingVanishes
<1>0. ASSUME link # "lost"
      PROVE  1..accepted[r] = got[Other(r)] \cup Unreceived(r)
  BY <1>0 DEF NothingVanishes
<1>1. CASE UNCHANGED <<accepted, flight, got>> /\ link # "lost"
  BY <1>0, <1>1 DEF Unreceived
<1>2. CASE UNCHANGED vars
  BY <1>1, <1>2 DEF vars
<1>3. ASSUME NEW p \in Peers, CreateOffer(p) \/ OnOpen(p) \/ OnDataChannel(p)
      PROVE  UNCHANGED <<accepted, flight, got>> /\ link # "lost"
  BY <1>3 DEF CreateOffer, OnOpen, OnDataChannel, data
<1>4. ASSUME NEW p \in Peers, OnMessage(p)
      PROVE  1..accepted'[r] = got'[Other(r)] \cup Unreceived(r)'
  <2>1. PICK c \in Channels : \E n \in flight[Other(p)][c] :
          /\ flight' = [flight EXCEPT ![Other(p)][c] = @ \ {n}]
          /\ got' = [got EXCEPT ![p] = @ \cup {n}]
          /\ accepted' = accepted /\ link' = link
    BY <1>4 DEF OnMessage
  <2>m. PICK m \in flight[Other(p)][c] :
          /\ flight' = [flight EXCEPT ![Other(p)][c] = @ \ {m}]
          /\ got' = [got EXCEPT ![p] = @ \cup {m}]
          /\ accepted' = accepted /\ link' = link
    BY <2>1
  <2>2. CASE r = Other(p)
    <3>1. Other(r) = p /\ got'[p] = got[p] \cup {m}
      BY <2>m, <2>2, TwoPages DEF TypeOK
    <3>2. \A d \in Channels : flight'[r][d] = IF d = c THEN flight[r][c] \ {m} ELSE flight[r][d]
      BY <2>m, <2>2 DEF TypeOK
    <3>3. got'[p] \cup Unreceived(r)' = got[p] \cup Unreceived(r)
      BY <2>m, <2>2, <3>1, <3>2 DEF Unreceived
    <3>. QED
      BY <1>0, <2>m, <3>1, <3>3
  <2>3. CASE r # Other(p)
    <3>1. Other(r) # p
      BY <2>3, TwoPages
    <3>2. got'[Other(r)] = got[Other(r)] /\ flight'[r] = flight[r]
      BY <2>m, <2>3, <3>1, TwoPages DEF TypeOK
    <3>. QED
      BY <1>0, <2>m, <3>2 DEF Unreceived
  <2>. QED
    BY <2>2, <2>3
<1>5. ASSUME NEW p \in Peers, SendData(p)
      PROVE  1..accepted'[r] = got'[Other(r)] \cup Unreceived(r)'
  <2>. DEFINE m == accepted[p] + 1
  <2>1. /\ dc[p] \in Channels /\ ends[p][dc[p]] = "open"
        /\ accepted' = [accepted EXCEPT ![p] = m] /\ got' = got /\ link' = link
    BY <1>5 DEF SendData, Sendable, TypeOK
  <2>2. link = "up"
    BY <2>1 DEF Opened, TypeOK
  <2>3. flight' = [flight EXCEPT ![p][dc[p]] = @ \cup {m}]
    BY <1>5, <2>1, <2>2 DEF SendData, Transmit
  <2>4. CASE r = p
    <3>1. accepted[p] \in Nat /\ accepted'[p] = m
      BY <2>1, BoundsAssumption DEF TypeOK
    <3>2. 1..accepted'[p] = 1..accepted[p] \cup {m}
      BY <3>1
    <3>. HIDE DEF m
    <3>3. \A d \in Channels : flight'[p][d] = IF d = dc[p] THEN flight[p][d] \cup {m}
                                                          ELSE flight[p][d]
      BY <2>1, <2>3 DEF TypeOK
    <3>4. Unreceived(p)' = Unreceived(p) \cup {m}
      BY <2>1, <3>3, InFlight
    <3>. QED
      BY <1>0, <2>1, <2>2, <2>4, <3>2, <3>4
  <2>5. CASE r # p
    <3>1. accepted'[r] = accepted[r] /\ flight'[r] = flight[r]
      BY <2>1, <2>3, <2>5 DEF TypeOK
    <3>. QED
      BY <1>0, <2>1, <2>2, <3>1 DEF Unreceived
  <2>. QED
    BY <2>4, <2>5
<1>6. CASE Connect
  BY <1>0, <1>6 DEF Connect, data, Unreceived
<1>7. ~Disconnect /\ \A p \in Peers : ~OnClose(p)
  BY DEF Disconnect, OnClose
<1>. QED
  BY <1>1, <1>2, <1>3, <1>4, <1>5, <1>6, <1>7 DEF Next, Event

LEMMA ChannelsHold == Spec => [](TypeOK /\ Opened /\ NothingVanishes)
<1>1. Init => TypeOK /\ Opened /\ NothingVanishes
  BY ChannelsInit
<1>2. TypeOK /\ Opened /\ NothingVanishes /\ [Next]_vars
        => (TypeOK /\ Opened /\ NothingVanishes)'
  BY ChannelsTypeStep, OpenedStep, NothingVanishesStep
<1>. QED
  BY <1>1, <1>2, PTL DEF Spec

\* The script's state keeps its type: what .NET is told of a connection is that
\* it is connected or that it is not (webrtc-interop.js 57-64).
THEOREM ChannelTypesHold == Spec => []TypeOK
<1>. QED
  BY ChannelsHold, PTL

\* While the transport lives, what sendData accepted arrives or is on its way,
\* whichever channel the entries name meanwhile (webrtc-interop.js 47, 56, 65-84).
THEOREM AcceptedArrives == Spec => []NothingVanishes
<1>. QED
  BY ChannelsHold, PTL
=============================================================================
