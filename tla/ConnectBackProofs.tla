-------------------------- MODULE ConnectBackProofs --------------------------
(***************************************************************************)
(* Theorems about ConnectBack, for any number of attempts and of calls of  *)
(* ConnectToGlobalHub, and whatever the attempts want.                     *)
(***************************************************************************)
EXTENDS ConnectBack, TLAPS

(***************************************************************************)
(* Types.  An attempt that uses a connection has one.                      *)
(***************************************************************************)
HasConnection ==
    \A a \in Attempts : at[a] \in {"won", "reading"} => tcs[a] \in Attempts

LEMMA Ids == \A a \in Attempts : ReqId(a) \in ReqIds
BY DEF ReqId, ReqIds

LEMMA TypeInit == Init => TypeOK /\ HasConnection
<1>. SUFFICES ASSUME Init PROVE TypeOK /\ HasConnection
  OBVIOUS
<1>1. 0 \in 0 .. MaxConnects
  BY ConnectBackAssumption
<1>2. inbox \in Seq(Attempts)
  BY DEF Init
<1>3. HasConnection
  BY DEF Init, HasConnection
<1>. QED
  BY <1>1, <1>2, <1>3 DEF Init, TypeOK

LEMMA TypeStep == TypeOK /\ HasConnection /\ [Next]_vars => TypeOK' /\ HasConnection'
<1>. SUFFICES ASSUME TypeOK, HasConnection, [Next]_vars
              PROVE  TypeOK' /\ HasConnection'
  OBVIOUS
<1>. USE ConnectBackAssumption, Ids DEF TypeOK, HasConnection, downVars
<1>1. CASE UNCHANGED vars
  BY <1>1 DEF vars
<1>2. CASE ConnectToGlobalHub
  BY <1>2 DEF ConnectToGlobalHub
<1>3. CASE DisconnectFromGlobalHub
  BY <1>3 DEF DisconnectFromGlobalHub
<1>4. CASE ConnectBack
  <2>1. Head(inbox) \in Attempts /\ Tail(inbox) \in Seq(Attempts)
    BY <1>4 DEF ConnectBack
  <2>. QED
    BY <1>4, <2>1 DEF ConnectBack
<1>5. CASE CandidatesFail
  <2>1. Tail(inbox) \in Seq(Attempts)
    BY <1>5 DEF CandidatesFail
  <2>. QED
    BY <1>5, <2>1 DEF CandidatesFail
<1>6. ASSUME NEW a \in Attempts, Register(a) \/ AttemptStep(a)
      PROVE  TypeOK' /\ HasConnection'
  <2>1. CASE Register(a)
    BY <2>1 DEF Register, Goto
  <2>2. CASE Ask(a) \/ AskThrows(a)
    <3>1. inbox' = inbox \/ inbox' = Append(inbox, a)
      BY <2>2 DEF Ask, AskThrows
    <3>2. Append(inbox, a) \in Seq(Attempts)
      OBVIOUS
    <3>3. inbox' \in Seq(Attempts)
      BY <3>1, <3>2
    <3>4. CASE Ask(a)
      BY <3>3, <3>4 DEF Ask, Goto
    <3>5. CASE AskThrows(a)
      BY <3>3, <3>5 DEF AskThrows, Goto
    <3>. QED
      BY <2>2, <3>4, <3>5
  <2>3. CASE Win(a) \/ Timeout(a)
    BY <2>3 DEF Win, Timeout, Goto
  <2>4. CASE SendRequest(a)
    BY <2>4, Ids DEF SendRequest, Goto, ReqId
  <2>5. CASE ReadAnswer(a)
    BY <2>5 DEF ReadAnswer, Goto
  <2>. QED
    BY <1>6, <2>1, <2>2, <2>3, <2>4, <2>5 DEF AttemptStep
<1>7. ASSUME NEW c \in Attempts, ConnectionStep(c) \/ Finalize(c)
      PROVE  TypeOK' /\ HasConnection'
  <2>1. CASE SendCbReady(c) \/ HandleRequest(c) \/ SeeEndOfStream(c)
    BY <2>1 DEF SendCbReady, HandleRequest, SeeEndOfStream
  <2>2. CASE ReadCbReady(c)
    BY <2>2 DEF ReadCbReady
  <2>3. CASE HandleReverseConnection(c)
    <3>1. ReqId(c) \in ReqIds /\ pending[ReqId(c)] \in Attempts \cup {None}
      OBVIOUS
    <3>2. handlers' \in [Attempts -> 0 .. MaxConnects]
      BY <2>3 DEF HandleReverseConnection
    <3>3. CASE pending[ReqId(c)] = None
      BY <2>3, <3>2, <3>3 DEF HandleReverseConnection
    <3>4. ASSUME NEW a \in Attempts, pending[ReqId(c)] = a
          PROVE  TypeOK' /\ HasConnection'
      <4>1. /\ pending' = [pending EXCEPT ![ReqId(c)] = None]
            /\ tcs' = [tcs EXCEPT ![a] = c]
        BY <2>3, <3>4 DEF HandleReverseConnection
      <4>. QED
        BY <2>3, <3>2, <4>1 DEF HandleReverseConnection
    <3>. QED
      BY <3>1, <3>3, <3>4
  <2>4. CASE Finalize(c)
    BY <2>4 DEF Finalize
  <2>. QED
    BY <1>7, <2>1, <2>2, <2>3, <2>4 DEF ConnectionStep
<1>. QED
  BY <1>1, <1>2, <1>3, <1>4, <1>5, <1>6, <1>7 DEF Next

\* Type correctness: attempts, connections and the uploader are in states the
\* code has (DownloadManager.cs 556-613; NodeConnectionManager.cs 355-394;
\* TransferServer.cs 65-302).
THEOREM TypesHold == Spec => []TypeOK
<1>1. Spec => [](TypeOK /\ HasConnection)
  BY TypeInit, TypeStep, PTL DEF Spec
<1>. QED
  BY <1>1, PTL

(***************************************************************************)
(* A connection is made once, for a request that was asked for.            *)
(***************************************************************************)
Asked(a) == \E i \in 1 .. Len(inbox) : inbox[i] = a

MadeOnce ==
    /\ \A a \in Attempts : at[a] \in {"idle", "ask"} => ~Asked(a) /\ sock[a] = "none"
    /\ \A a \in Attempts : Asked(a) => sock[a] = "none"
    /\ \A i, j \in 1 .. Len(inbox) : inbox[i] = inbox[j] => i = j
    /\ \A c \in Attempts : handlers[c] > 0 \/ (\E a \in Attempts : tcs[a] = c)
          => sock[c] \in {"open", "disposed"}

LEMMA MadeInit == Init => MadeOnce
BY ConnectBackAssumption DEF Init, MadeOnce, Asked

\* Appending what is not there leaves each member in one place.
LEMMA StillOnce ==
  ASSUME NEW a, ~Asked(a), Len(inbox) \in Nat, Len(inbox') = Len(inbox) + 1,
         \A i, j \in 1 .. Len(inbox) : inbox[i] = inbox[j] => i = j,
         \A i \in 1 .. Len(inbox) : inbox'[i] = inbox[i],
         inbox'[Len(inbox) + 1] = a
  PROVE  \A i, j \in 1 .. Len(inbox') : inbox'[i] = inbox'[j] => i = j
<1>1. \A i \in 1 .. Len(inbox') : i \in 1 .. Len(inbox) \/ i = Len(inbox) + 1
  OBVIOUS
<1>2. \A i \in 1 .. Len(inbox) : inbox'[i] # a
  BY DEF Asked
<1>. QED
  BY <1>1, <1>2

LEMMA MadeStep == TypeOK /\ HasConnection /\ MadeOnce /\ [Next]_vars => MadeOnce'
<1>. SUFFICES ASSUME TypeOK, HasConnection, MadeOnce, [Next]_vars
              PROVE  MadeOnce'
  OBVIOUS
<1>. USE ConnectBackAssumption, Ids DEF TypeOK, HasConnection, MadeOnce, downVars
<1>1. CASE UNCHANGED vars
  BY <1>1 DEF vars, Asked
<1>2. CASE ConnectToGlobalHub \/ DisconnectFromGlobalHub
  BY <1>2 DEF ConnectToGlobalHub, DisconnectFromGlobalHub, Asked
<1>3. CASE ConnectBack \/ CandidatesFail
  <2>1. /\ inbox # <<>> /\ inbox' = Tail(inbox) /\ Len(inbox) \in Nat \ {0}
        /\ Len(inbox') = Len(inbox) - 1
        /\ \A i \in 1 .. Len(inbox') : inbox'[i] = inbox[i + 1]
        /\ Head(inbox) = inbox[1] /\ inbox[1] \in Attempts
    <3>1. inbox # <<>> /\ inbox' = Tail(inbox)
      BY <1>3 DEF ConnectBack, CandidatesFail
    <3>. QED
      BY <3>1
  <2>2. \A a \in Attempts : Asked(a)' => Asked(a) /\ a # inbox[1]
    BY <2>1 DEF Asked
  <2>3. \A i, j \in 1 .. Len(inbox') : inbox'[i] = inbox'[j] => i = j
    BY <2>1
  <2>4. Asked(inbox[1])
    BY <2>1 DEF Asked
  <2>5. CASE ConnectBack
    BY <2>1, <2>2, <2>3, <2>4, <2>5 DEF ConnectBack
  <2>6. CASE CandidatesFail
    BY <2>1, <2>2, <2>3, <2>6 DEF CandidatesFail
  <2>. QED
    BY <1>3, <2>5, <2>6
<1>4. ASSUME NEW a \in Attempts, Ask(a) \/ AskThrows(a)
      PROVE  MadeOnce'
  <2>1. CASE inbox' = Append(inbox, a)
    <3>1. /\ inbox' = Append(inbox, a) /\ Len(inbox) \in Nat /\ Len(inbox') = Len(inbox) + 1
          /\ \A i \in 1 .. Len(inbox) : inbox'[i] = inbox[i]
          /\ inbox'[Len(inbox) + 1] = a
          /\ \A i \in 1 .. Len(inbox') : i \in 1 .. Len(inbox) \/ i = Len(inbox) + 1
      BY <2>1
    <3>2. \A b \in Attempts : Asked(b)' => Asked(b) \/ b = a
      BY <3>1 DEF Asked
    <3>3. ~Asked(a) /\ sock[a] = "none"
      BY <1>4 DEF Ask, AskThrows, Goto
    <3>4. \A i, j \in 1 .. Len(inbox') : inbox'[i] = inbox'[j] => i = j
      BY <3>1, <3>3, StillOnce
    <3>5. /\ sock' = sock /\ handlers' = handlers /\ tcs' = tcs
          /\ at'[a] \notin {"idle", "ask"}
          /\ \A b \in Attempts \ {a} : at'[b] = at[b]
      BY <1>4 DEF Ask, AskThrows, Goto
    <3>6. \A b \in Attempts : at'[b] \in {"idle", "ask"} => ~Asked(b)' /\ sock'[b] = "none"
      BY <3>2, <3>5
    <3>7. \A b \in Attempts : Asked(b)' => sock'[b] = "none"
      BY <3>2, <3>3, <3>5
    <3>8. \A c \in Attempts : handlers'[c] > 0 \/ (\E b \in Attempts : tcs'[b] = c)
             => sock'[c] \in {"open", "disposed"}
      BY <3>5
    <3>. QED
      BY <3>4, <3>6, <3>7, <3>8
  <2>2. CASE inbox' = inbox
    BY <1>4, <2>2 DEF Ask, AskThrows, Goto, Asked
  <2>. QED
    BY <1>4, <2>1, <2>2 DEF Ask, AskThrows
<1>5. ASSUME NEW a \in Attempts, Register(a) \/ (AttemptStep(a) /\ ~Ask(a) /\ ~AskThrows(a))
      PROVE  MadeOnce'
  <2>1. CASE Register(a) \/ Win(a) \/ Timeout(a)
    <3>1. inbox' = inbox /\ tcs' = tcs /\ handlers' = handlers /\ sock' = sock
      BY <2>1 DEF Register, Win, Timeout
    <3>2. \A b \in Attempts : at'[b] \in {"idle", "ask"} => at[b] \in {"idle", "ask"}
      BY <2>1 DEF Register, Win, Timeout, Goto
    <3>3. \A b \in Attempts : Asked(b)' <=> Asked(b)
      BY <3>1 DEF Asked
    <3>4. \A i, j \in 1 .. Len(inbox') : inbox'[i] = inbox'[j] => i = j
      BY <3>1
    <3>5. \A b \in Attempts : at'[b] \in {"idle", "ask"} => ~Asked(b)' /\ sock'[b] = "none"
      BY <3>1, <3>2, <3>3
    <3>. QED
      BY <3>1, <3>3, <3>4, <3>5
  <2>2. CASE SendRequest(a)
    BY <2>2 DEF SendRequest, Goto, Asked
  <2>3. CASE ReadAnswer(a)
    <3>1. PICK c \in Attempts : tcs[a] = c /\ sock' = [sock EXCEPT ![c] = "disposed"]
      BY <2>3 DEF ReadAnswer
    <3>2. inbox' = inbox /\ tcs' = tcs /\ handlers' = handlers
      BY <2>3 DEF ReadAnswer
    <3>3. \A b \in Attempts : at'[b] \in {"idle", "ask"} => at[b] = at'[b]
      BY <2>3 DEF ReadAnswer, Goto
    <3>4. sock[c] # "none"
      BY <3>1
    <3>. QED
      BY <3>1, <3>2, <3>3, <3>4 DEF Asked
  <2>. QED
    BY <1>5, <2>1, <2>2, <2>3 DEF AttemptStep
<1>6. ASSUME NEW c \in Attempts, ConnectionStep(c) \/ Finalize(c)
      PROVE  MadeOnce'
  <2>1. CASE SendCbReady(c) \/ HandleRequest(c) \/ SeeEndOfStream(c)
    BY <2>1 DEF SendCbReady, HandleRequest, SeeEndOfStream, Asked
  <2>2. CASE ReadCbReady(c)
    BY <2>2 DEF ReadCbReady, Asked
  <2>3. CASE HandleReverseConnection(c)
    <3>1. /\ inbox' = inbox /\ handlers[c] > 0 /\ sock[c] \in {"open", "disposed"}
          /\ \A a \in Attempts : at[a] \in {"idle", "ask"} => at'[a] = at[a] /\ a # c
      BY <2>3 DEF HandleReverseConnection
    <3>. QED
      <4>1. \A a \in Attempts : at'[a] \in {"idle", "ask"} => at[a] = at'[a] /\ a # c
        BY <2>3, <3>1 DEF HandleReverseConnection
      <4>2. \A a \in Attempts : a # c => sock'[a] = sock[a]
        BY <2>3 DEF HandleReverseConnection
      <4>3. sock[c] # "none" /\ sock'[c] \in {"open", "disposed"}
        BY <2>3, <3>1 DEF HandleReverseConnection
      <4>4. ~Asked(c)
        BY <4>3
      <4>5. \A d \in Attempts :
              handlers'[d] > 0 \/ (\E a \in Attempts : tcs'[a] = d)
                => d = c \/ handlers[d] > 0 \/ (\E a \in Attempts : tcs[a] = d)
        BY <2>3 DEF HandleReverseConnection
      <4>. QED
        <5>1. inbox' = inbox /\ sock[c] \in {"open", "disposed"}
          BY <3>1
        <5>2. \A a \in Attempts : Asked(a)' <=> Asked(a)
          BY <5>1 DEF Asked
        <5>3. \A a \in Attempts : Asked(a) => a # c
          BY <4>4
        <5>4. \A a \in Attempts : at'[a] \in {"idle", "ask"} => ~Asked(a)' /\ sock'[a] = "none"
          BY <4>1, <4>2, <5>2
        <5>5. \A a \in Attempts : Asked(a)' => sock'[a] = "none"
          BY <4>2, <5>2, <5>3
        <5>6. \A d \in Attempts :
                handlers'[d] > 0 \/ (\E a \in Attempts : tcs'[a] = d)
                  => sock'[d] \in {"open", "disposed"}
          BY <4>2, <4>3, <4>5
        <5>7. \A i, j \in 1 .. Len(inbox') : inbox'[i] = inbox'[j] => i = j
          BY <5>1
        <5>. QED
          BY <5>4, <5>5, <5>6, <5>7
  <2>4. CASE Finalize(c)
    BY <2>4 DEF Finalize, Unreachable, Asked
  <2>. QED
    BY <1>6, <2>1, <2>2, <2>3, <2>4 DEF ConnectionStep
<1>. QED
  BY <1>1, <1>2, <1>3, <1>4, <1>5, <1>6 DEF Next

(***************************************************************************)
(* With one subscriber a connection has one handler, and thus one waiter.  *)
(***************************************************************************)
HandedOnce ==
    /\ \A c \in Attempts : handlers[c] <= 1
    /\ \A c \in Attempts : handlers[c] > 0 =>
          sock[c] = "open" /\ \A a \in Attempts : tcs[a] # c
    /\ \A a, b \in Attempts : tcs[a] = tcs[b] /\ tcs[a] # None => a = b
    /\ \A a \in Attempts : ~Over(a) /\ tcs[a] # None => sock[tcs[a]] = "open"

OneHandler == subscribed <= 1 => HandedOnce

LEMMA HandlerStep ==
  TypeOK /\ HasConnection /\ MadeOnce /\ OneHandler /\ [Next]_vars => OneHandler'
<1>. SUFFICES ASSUME TypeOK, HasConnection, MadeOnce, OneHandler, [Next]_vars,
                     subscribed' <= 1
              PROVE  HandedOnce'
  BY DEF OneHandler
<1>0. HandedOnce
  <2>1. subscribed' = subscribed \/ subscribed' = subscribed + 1
    BY DEF Next, vars, downVars, ConnectToGlobalHub, DisconnectFromGlobalHub, ConnectBack,
           CandidatesFail, Register, AttemptStep, Ask, AskThrows, Win, Timeout, SendRequest, ReadAnswer,
           ConnectionStep, SendCbReady, HandleRequest, SeeEndOfStream, ReadCbReady,
           HandleReverseConnection, Finalize
  <2>. QED
    BY <2>1 DEF OneHandler, TypeOK
<1>. USE <1>0, ConnectBackAssumption, Ids DEF TypeOK, HasConnection, HandedOnce, Over, downVars
<1>1. CASE UNCHANGED vars
  BY <1>1 DEF vars
<1>2. CASE ConnectToGlobalHub \/ DisconnectFromGlobalHub \/ CandidatesFail
  BY <1>2 DEF ConnectToGlobalHub, DisconnectFromGlobalHub, CandidatesFail
<1>3. CASE ConnectBack
  <2>1. Head(inbox) \in Attempts /\ sock[Head(inbox)] = "none"
    BY <1>3 DEF ConnectBack, MadeOnce, Asked
  <2>. QED
    BY <1>3, <2>1 DEF ConnectBack
<1>4. ASSUME NEW a \in Attempts, Register(a) \/ AttemptStep(a)
      PROVE  HandedOnce'
  <2>1. CASE Register(a) \/ Ask(a) \/ AskThrows(a) \/ Win(a) \/ Timeout(a) \/ SendRequest(a)
    <3>1. tcs' = tcs /\ sock' = sock /\ handlers' = handlers
          /\ \A b \in Attempts : Over(b) => Over(b)'
      BY <2>1 DEF Register, Ask, AskThrows, Win, Timeout, SendRequest, Goto
    <3>. QED
      BY <3>1
  <2>2. CASE ReadAnswer(a)
    <3>1. PICK c \in Attempts : tcs[a] = c /\ sock' = [sock EXCEPT ![c] = "disposed"]
      BY <2>2 DEF ReadAnswer
    <3>2. tcs' = tcs /\ handlers' = handlers /\ Over(a)'
          /\ \A b \in Attempts \ {a} : at'[b] = at[b]
      BY <2>2 DEF ReadAnswer, Goto
    <3>3. \A b \in Attempts \ {a} : tcs[b] # c
      BY <3>1
    <3>4. ~(handlers[c] > 0)
      BY <3>1
    <3>5. \A b \in Attempts : ~Over(b)' /\ tcs[b] # None => sock[tcs[b]] = "open" /\ tcs[b] # c
      BY <3>2, <3>3
    <3>. QED
      BY <3>1, <3>2, <3>4, <3>5
  <2>. QED
    BY <1>4, <2>1, <2>2 DEF AttemptStep
<1>5. ASSUME NEW c \in Attempts, ConnectionStep(c) \/ Finalize(c)
      PROVE  HandedOnce'
  <2>1. CASE SendCbReady(c) \/ HandleRequest(c) \/ SeeEndOfStream(c)
    BY <2>1 DEF SendCbReady, HandleRequest, SeeEndOfStream
  <2>2. CASE ReadCbReady(c)
    <3>1. /\ sock[c] = "accepted" /\ sock' = [sock EXCEPT ![c] = "open"]
          /\ handlers' = [handlers EXCEPT ![c] = subscribed]
          /\ tcs' = tcs /\ at' = at /\ subscribed' = subscribed
      BY <2>2 DEF ReadCbReady
    <3>2. \A a \in Attempts : tcs[a] # c
      BY <3>1 DEF MadeOnce
    <3>3. subscribed \in 0 .. 1
      BY <3>1
    <3>. QED
      BY <3>1, <3>2, <3>3
  <2>3. CASE HandleReverseConnection(c)
    <3>1. /\ handlers' = [handlers EXCEPT ![c] = 0] /\ at' = at
          /\ sock[c] = "open" /\ \A a \in Attempts : tcs[a] # c
      <4>1. handlers[c] > 0 /\ handlers' = [handlers EXCEPT ![c] = handlers[c] - 1]
            /\ at' = at
        BY <2>3 DEF HandleReverseConnection
      <4>2. handlers[c] \in Nat /\ handlers[c] <= 1
        OBVIOUS
      <4>3. handlers[c] = 1
        BY <4>1, <4>2
      <4>4. handlers[c] - 1 = 0
        BY <4>3
      <4>. QED
        BY <4>1, <4>4
    <3>2. CASE pending[ReqId(c)] = None
      <4>1. tcs' = tcs /\ sock' = [sock EXCEPT ![c] = "disposed"]
        BY <2>3, <3>2 DEF HandleReverseConnection
      <4>. QED
        BY <3>1, <4>1
    <3>3. ASSUME NEW a \in Attempts, pending[ReqId(c)] = a
          PROVE  HandedOnce'
      <4>1. tcs' = [tcs EXCEPT ![a] = c] /\ sock' = sock
        BY <2>3, <3>3 DEF HandleReverseConnection
      <4>. QED
        BY <3>1, <4>1
    <3>. QED
      BY <3>2, <3>3
  <2>4. CASE Finalize(c)
    BY <2>4 DEF Finalize, Unreachable
  <2>. QED
    BY <1>5, <2>1, <2>2, <2>3, <2>4 DEF ConnectionStep
<1>. QED
  BY <1>1, <1>2, <1>3, <1>4, <1>5 DEF Next

\* A connection is open when its waiter takes it over, as long as the node has
\* subscribed to the event once, however attempts and timers interleave
\* (DownloadManager.cs 323-334, 563-575; TransferServer.cs 100-120).
THEOREM HandedOverOpen == Spec => []HandedIsOpen
<1>1. Init => OneHandler
  BY DEF Init, OneHandler, HandedOnce
<1>2. TypeOK /\ HasConnection /\ OneHandler => HandedIsOpen
  <2>1. ASSUME HasConnection, NEW a \in Attempts, at[a] = "won"
        PROVE  ~Over(a) /\ tcs[a] # None
    BY <2>1, ConnectBackAssumption DEF HasConnection, Over
  <2>. QED
    BY <2>1 DEF OneHandler, HandedOnce, HandedIsOpen
<1>3. Spec => [](TypeOK /\ HasConnection /\ MadeOnce /\ OneHandler)
  BY TypeInit, TypeStep, MadeInit, MadeStep, <1>1, HandlerStep, PTL DEF Spec
<1>. QED
  BY <1>2, <1>3, PTL
=============================================================================
