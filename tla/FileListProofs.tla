---------------------------- MODULE FileListProofs ----------------------------
(***************************************************************************)
(* Theorems about FileListRequests, for any number of callers, requests    *)
(* and changes of the list: a peer's list is fetched by one call at a      *)
(* time, nobody who waits for it is forgotten, no negotiation is left      *)
(* behind, and what the user sees never goes back.                         *)
(***************************************************************************)
EXTENDS FileListRequests, TLAPS

USE RequestAssumption DEF Requests, Lists, NoList

-----------------------------------------------------------------------------
(* Types. *)

(* Every variable begins in its type.                                        *)
LEMMA TypeInit == Init => TypeOK
<1>. SUFFICES ASSUME Init PROVE TypeOK
  OBVIOUS
<1>1. remote \in Lists
  BY DEF Init
<1>2. at \in [Callers -> Places]
  BY DEF Init, Places
<1>3. task \in [Requests -> {"none", "open", "ended"}]
  BY DEF Init
<1>4. my \in [Callers -> 0 .. MaxRequests] /\ awaits \in [Callers -> 0 .. MaxRequests]
  BY DEF Init
<1>5. got \in [Callers -> Lists \cup {NoList}]
  BY DEF Init
<1>6. online \in BOOLEAN /\ hubFault \in BOOLEAN
  BY Zenon DEF Init
<1>7. /\ pending \in 0 .. MaxRequests /\ requests \in 0 .. MaxRequests
      /\ negotiations \subseteq Requests /\ asked \subseteq Requests
  BY DEF Init
<1>8. cache \in Lists \cup {NoList} /\ shown \in Lists \cup {NoList}
  BY DEF Init
<1>. QED
  BY <1>1, <1>2, <1>3, <1>4, <1>5, <1>6, <1>7, <1>8 DEF TypeOK

(* Every step of callers, peer and hub leaves every variable in its type.    *)
LEMMA TypeStep ==
    ASSUME TypeOK, CallsApart, [Next]_vars
    PROVE  TypeOK'
<1> USE DEF TypeOK, peerVars, listVars, taskVars, negVars, callVars, Goto,
            Places
<1>1. CASE UNCHANGED vars
  <2> HIDE DEF Goto, Places
  <2>. QED
    BY <1>1 DEF vars
<1>2. ASSUME NEW c \in Callers, RequestRemoteFileList(c) PROVE TypeOK'
  BY <1>2 DEF RequestRemoteFileList
<1>3. ASSUME NEW c \in Callers, CheckPending(c) \/ IndexPending(c) PROVE TypeOK'
  <2>1. ASSUME NEW from, Await(c, from) PROVE TypeOK'
    BY <2>1 DEF Await
  <2>2. CASE CheckPending(c)
    BY <2>1, <2>2 DEF CheckPending
  <2>3. CASE IndexPending(c)
    BY <2>1, <2>3 DEF IndexPending
  <2>. QED
    BY <1>3, <2>2, <2>3
<1>4. ASSUME NEW c \in Callers, AddPending(c) PROVE TypeOK'
  <2>1. CASE pending = 0 /\ pending' = my[c]
    <3>1. task' \in [Requests -> {"none", "open", "ended"}]
      BY <1>4, <2>1 DEF AddPending
    <3>2. at' \in [Callers -> Places]
      BY <1>4 DEF AddPending
    <3>. QED
      BY <1>4, <2>1, <3>1, <3>2 DEF AddPending
  <2>2. CASE pending # 0
    BY <1>4, <2>2 DEF AddPending
  <2>. QED
    BY <1>4, <2>1, <2>2 DEF AddPending
<1>16. ASSUME NEW c \in Callers, ForgetPending(c) PROVE TypeOK'
  BY <1>16 DEF ForgetPending
<1>5. ASSUME NEW c \in Callers, AwaitPending(c) \/ ShowCached(c)
                                \/ FindPeer(c) \/ SearchFails(c)
      PROVE  TypeOK'
  BY <1>5 DEF AwaitPending, ShowCached, FindPeer, SearchFails
<1>6. ASSUME NEW c \in Callers, PeerIsGone(c) \/ Complete(c) \/ Fail(c)
      PROVE  TypeOK'
  BY <1>6 DEF PeerIsGone, Complete, Fail
<1>7. ASSUME NEW c \in Callers, AwaitConnectBack(c) \/ Dial(c) \/ ReadList(c)
                                \/ ConnectionCloses(c)
      PROVE  TypeOK'
  BY <1>7 DEF AwaitConnectBack, Dial, ReadList, ConnectionCloses
<1>8. ASSUME NEW c \in Callers, SendFullFileList(c) \/ StoreList(c) \/ ShowList(c)
      PROVE  TypeOK'
  <2>1. CASE SendFullFileList(c)
    BY <2>1 DEF SendFullFileList
  <2>2. CASE StoreList(c)
    BY <2>2 DEF StoreList
  <2>3. CASE ShowList(c)
    BY <2>3 DEF ShowList
  <2>. QED
    BY <1>8, <2>1, <2>2, <2>3
<1>9. ASSUME NEW c \in Callers, RegisterNegotiation(c) PROVE TypeOK'
  <2>1. my[c] \in Requests
    BY <1>9 DEF RegisterNegotiation, CallsApart
  <2>. QED
    BY <1>9, <2>1 DEF RegisterNegotiation
<1>10. ASSUME NEW c \in Callers, InitiateConnectionNegotiation(c) PROVE TypeOK'
  <2>1. my[c] \in Requests
    BY <1>10 DEF InitiateConnectionNegotiation, CallsApart
  <2>. QED
    BY <1>10, <2>1 DEF InitiateConnectionNegotiation
<1>11. ASSUME NEW c \in Callers, AwaitCandidates(c) PROVE TypeOK'
  BY <1>11 DEF AwaitCandidates
<1>12. ASSUME NEW r \in Requests, ReceiveCandidates(r) PROVE TypeOK'
  BY <1>12 DEF ReceiveCandidates
<1>13. CASE PeerJoined \/ PeerList
  BY <1>13 DEF PeerJoined, PeerList
<1>14. CASE PeerLeft
  BY <1>14 DEF PeerLeft
<1>15. CASE ListChanges
  BY <1>15 DEF ListChanges
<1>. QED
  BY <1>1, <1>2, <1>3, <1>4, <1>5, <1>6, <1>7, <1>8, <1>9, <1>10, <1>11,
     <1>12, <1>13, <1>14, <1>15, <1>16
     DEF Next, NodeStep, PeerStep

-----------------------------------------------------------------------------
(* One request at a time. *)

(* In the beginning no call is running and the dictionary is empty.          *)
LEMMA CallsInit == Init => CallsApart
  BY DEF Init, CallsApart, OneRequestAtATime, Working

(* A call moves from one place to another of the same kind, or nobody moves, *)
(* and no entry and no number changes.                                       *)
LEMMA CallsUndisturbed ==
    ASSUME TypeOK, CallsApart, UNCHANGED <<my, requests, pending>>,
           \/ UNCHANGED at
           \/ \E c \in Callers : \E p \in Places :
                 /\ at' = [at EXCEPT ![c] = p]
                 /\ at[c] # "idle"
                 /\ Working(c) <=> Working(c)'
    PROVE  CallsApart'
<1>1. CASE UNCHANGED at
  BY <1>1 DEF CallsApart, OneRequestAtATime, Working
<1>2. ASSUME NEW c \in Callers, NEW p \in Places, at' = [at EXCEPT ![c] = p],
             at[c] # "idle", Working(c) <=> Working(c)'
      PROVE  CallsApart'
  <2>1. \A d \in Callers : Working(d)' <=> Working(d)
    BY <1>2 DEF TypeOK, Working
  <2>2. \A d \in Callers : at'[d] # "idle" => at[d] # "idle"
    BY <1>2 DEF TypeOK
  <2>. QED
    BY <2>1, <2>2 DEF CallsApart, OneRequestAtATime
<1>. QED
  BY <1>1, <1>2

(* No step gives two calls one number or the dictionary a stranger's entry.  *)
LEMMA CallsStep ==
    ASSUME TypeOK, CallsApart, [Next]_vars
    PROVE  CallsApart'
<1> USE DEF peerVars, listVars, taskVars, negVars, callVars, Goto
<1>1. CASE UNCHANGED vars
  BY <1>1, CallsUndisturbed DEF vars
<1>2. ASSUME NEW c \in Callers, RequestRemoteFileList(c) PROVE CallsApart'
  <2>1. at' = [at EXCEPT ![c] = "check"] /\ my' = [my EXCEPT ![c] = requests + 1]
    BY <1>2 DEF RequestRemoteFileList
  <2>2. at[c] = "idle" /\ requests' = requests + 1 /\ pending' = pending
    BY <1>2 DEF RequestRemoteFileList
  <2>3. \A d \in Callers : Working(d)' <=> Working(d)
    BY <2>1, <2>2 DEF Working, TypeOK
  <2>4. \A d \in Callers \ {c} : my'[d] = my[d] /\ at'[d] = at[d]
    BY <2>1 DEF TypeOK
  <2>. QED
    BY <2>1, <2>2, <2>3, <2>4 DEF CallsApart, OneRequestAtATime, TypeOK, Working
<1>3. ASSUME NEW c \in Callers, AddPending(c), pending = 0 PROVE CallsApart'
  <2>1. at' = [at EXCEPT ![c] = "cached"] /\ pending' = my[c] /\ at[c] = "add"
    BY <1>3 DEF AddPending
  <2>2. my' = my /\ requests' = requests
    BY <1>3 DEF AddPending
  <2>3. \A d \in Callers : ~Working(d)
    BY <1>3 DEF CallsApart, OneRequestAtATime, Working
  <2>4. \A d \in Callers : Working(d)' <=> d = c
    BY <2>1, <2>3 DEF Working, TypeOK
  <2>5. \A d \in Callers : at'[d] # "idle" => at[d] # "idle"
    BY <2>1 DEF TypeOK
  <2>. QED
    BY <2>1, <2>2, <2>4, <2>5 DEF CallsApart, OneRequestAtATime
<1>4. ASSUME NEW c \in Callers, ForgetPending(c) PROVE CallsApart'
  <2>1. at' = [at EXCEPT ![c] = "idle"] /\ pending' = 0 /\ Working(c)
    BY <1>4 DEF ForgetPending, Working
  <2>2. my' = my /\ requests' = requests
    BY <1>4 DEF ForgetPending
  <2>3. \A d \in Callers \ {c} : ~Working(d)
    BY <2>1 DEF CallsApart, OneRequestAtATime, Working
  <2>4. \A d \in Callers : ~Working(d)'
    BY <2>1, <2>3 DEF Working, TypeOK
  <2>5. \A d \in Callers : at'[d] # "idle" => at[d] # "idle"
    BY <2>1 DEF TypeOK
  <2>. QED
    BY <2>1, <2>2, <2>4, <2>5 DEF CallsApart, OneRequestAtATime
<1>5. ASSUME NEW c \in Callers, CheckPending(c) \/ IndexPending(c)
                                \/ AwaitPending(c) \/ (AddPending(c) /\ pending # 0)
      PROVE  CallsApart'
  <2>1. PICK p \in {"await", "add", "index", "idle"} : at' = [at EXCEPT ![c] = p]
    BY <1>5 DEF CheckPending, IndexPending, AwaitPending, AddPending, Await
  <2>2. at[c] \in {"check", "index", "await", "add"}
    BY <1>5 DEF CheckPending, IndexPending, AwaitPending, AddPending, Await
  <2>3. UNCHANGED <<my, requests, pending>>
    BY <1>5 DEF CheckPending, IndexPending, AwaitPending, AddPending, Await
  <2>4. p \in Places /\ at[c] # "idle" /\ ~Working(c)
    BY <2>1, <2>2 DEF Working, Places
  <2>5. ~Working(c)'
    BY <2>1 DEF Working, TypeOK
  <2>. QED
    BY <2>1, <2>3, <2>4, <2>5, CallsUndisturbed
<1>6. ASSUME NEW c \in Callers, ShowCached(c) \/ PeerIsGone(c)
                                \/ FindPeer(c) \/ SearchFails(c)
                                \/ AwaitConnectBack(c) \/ RegisterNegotiation(c)
                                \/ InitiateConnectionNegotiation(c)
      PROVE  CallsApart'
  <2>1. PICK p \in {"peer", "forget", "callback", "register", "ask", "fail",
                  "negotiate", "answer"} : at' = [at EXCEPT ![c] = p]
    BY <1>6 DEF ShowCached, PeerIsGone, FindPeer, SearchFails,
                AwaitConnectBack,
                RegisterNegotiation, InitiateConnectionNegotiation
  <2>2. Working(c) /\ UNCHANGED <<my, requests, pending>>
    BY <1>6 DEF ShowCached, PeerIsGone, FindPeer, SearchFails,
                AwaitConnectBack, Working,
                RegisterNegotiation, InitiateConnectionNegotiation
  <2>3. p \in Places /\ at[c] # "idle"
    BY <2>1, <2>2 DEF Working, Places
  <2>4. Working(c)'
    BY <2>1 DEF Working, TypeOK
  <2>. QED
    BY <2>1, <2>2, <2>3, <2>4, CallsUndisturbed
<1>7. ASSUME NEW c \in Callers, AwaitCandidates(c) \/ Dial(c) \/ StoreList(c)
                                \/ ShowList(c) \/ Complete(c) \/ Fail(c) \/ PeerStep(c)
      PROVE  CallsApart'
  <2>1. PICK p \in {"dial", "ask", "fail", "read", "store", "show", "complete",
                  "forget"} : at' = [at EXCEPT ![c] = p]
    BY <1>7 DEF AwaitCandidates, Dial, StoreList, ShowList, Complete, Fail,
                PeerStep, SendFullFileList, ReadList, ConnectionCloses
  <2>2. Working(c) /\ UNCHANGED <<my, requests, pending>>
    BY <1>7 DEF AwaitCandidates, Dial, StoreList, ShowList, Complete, Fail,
                PeerStep, SendFullFileList, ReadList, ConnectionCloses, Working
  <2>3. p \in Places /\ at[c] # "idle"
    BY <2>1, <2>2 DEF Working, Places
  <2>4. Working(c)'
    BY <2>1 DEF Working, TypeOK
  <2>. QED
    BY <2>1, <2>2, <2>3, <2>4, CallsUndisturbed
<1>8. ASSUME NEW r \in Requests, ReceiveCandidates(r) PROVE CallsApart'
  BY <1>8, CallsUndisturbed DEF ReceiveCandidates
<1>9. CASE PeerJoined \/ PeerLeft \/ PeerList \/ ListChanges
  BY <1>9, CallsUndisturbed DEF PeerJoined, PeerLeft, PeerList, ListChanges
<1>. QED
  BY <1>1, <1>2, <1>3, <1>4, <1>5, <1>6, <1>7, <1>8, <1>9
     DEF Next, NodeStep, AddPending

-----------------------------------------------------------------------------
(* Nobody is stranded. *)

(* In the beginning nobody waits.                                            *)
LEMMA TasksInit == Init => TasksCompleted
  BY DEF Init, TasksCompleted, NobodyIsStranded

(* A call only moves on: it does not begin to wait, nor to give up its       *)
(* entry, and tasks stay as they are.                                        *)
LEMMA TasksUndisturbed ==
    ASSUME TypeOK, TasksCompleted, UNCHANGED <<my, awaits, task>>,
           \/ UNCHANGED at
           \/ \E c \in Callers : \E p \in Places \ {"await", "forget"} :
                 /\ at' = [at EXCEPT ![c] = p]
                 /\ Working(c) /\ at[c] # "forget" => Working(c)'
    PROVE  TasksCompleted'
<1>1. CASE UNCHANGED at
  BY <1>1 DEF TasksCompleted, NobodyIsStranded, Working
<1>2. ASSUME NEW c \in Callers, NEW p \in Places \ {"await", "forget"},
             at' = [at EXCEPT ![c] = p],
             Working(c) /\ at[c] # "forget" => Working(c)'
      PROVE  TasksCompleted'
  <2>1. \A d \in Callers : Working(d) /\ at[d] # "forget" =>
                               Working(d)' /\ at'[d] # "forget"
    BY <1>2 DEF TypeOK, Working
  <2>2. \A d \in Callers : at'[d] \in {"await", "forget"} => at[d] = at'[d]
    BY <1>2 DEF TypeOK
  <2>. QED
    BY <2>1, <2>2 DEF TasksCompleted, NobodyIsStranded
<1>. QED
  BY <1>1, <1>2

(* The task of a call is completed when it comes to give up its entry.       *)
LEMMA TasksEnded ==
    ASSUME TypeOK, CallsApart, TasksCompleted, UNCHANGED <<my, awaits>>,
           NEW c \in Callers, Working(c), at' = [at EXCEPT ![c] = "forget"],
           task' = [task EXCEPT ![my[c]] = "ended"]
    PROVE  TasksCompleted'
<1>1. my[c] \in Requests
  BY DEF Working, CallsApart, TypeOK
<1>2. task'[my[c]] = "ended" /\ \A r \in Requests \ {my[c]} : task'[r] = task[r]
  BY <1>1 DEF TypeOK
<1>3. \A d \in Callers \ {c} : at'[d] = at[d] /\ (Working(d)' <=> Working(d))
  BY DEF TypeOK, Working
<1>4. \A d \in Callers : at'[d] = "forget" => task'[my'[d]] # "open"
  <2>. TAKE d \in Callers
  <2>1. CASE d = c
    BY <2>1, <1>2
  <2>2. CASE d # c
    BY <2>2, <1>3 DEF Working, CallsApart, OneRequestAtATime
  <2>. QED
    BY <2>1, <2>2
<1>5. NobodyIsStranded'
  <2>. SUFFICES ASSUME NEW d \in Callers, at'[d] = "await",
                       task'[awaits[d]] = "open"
                PROVE  \E e \in Callers : /\ Working(e)' /\ at'[e] # "forget"
                                          /\ my[e] = awaits[d]
    BY DEF NobodyIsStranded
  <2>1. d # c /\ at[d] = "await"
    BY <1>3 DEF TypeOK
  <2>2. awaits[d] # my[c] /\ task[awaits[d]] = "open"
    BY <1>1, <1>2 DEF TypeOK
  <2>3. PICK e \in Callers : /\ Working(e) /\ at[e] # "forget"
                             /\ my[e] = awaits[d]
    BY <2>1, <2>2 DEF TasksCompleted, NobodyIsStranded
  <2>. QED
    BY <2>2, <2>3, <1>3
<1>. QED
  BY <1>4, <1>5 DEF TasksCompleted

(* No step leaves a waiter with a task that nobody will complete.            *)
LEMMA TasksStep ==
    ASSUME TypeOK, CallsApart, TasksCompleted, [Next]_vars
    PROVE  TasksCompleted'
<1> USE DEF peerVars, listVars, taskVars, negVars, callVars, Goto
<1>1. CASE UNCHANGED vars
  BY <1>1, TasksUndisturbed DEF vars
<1>2. ASSUME NEW c \in Callers, RequestRemoteFileList(c) PROVE TasksCompleted'
  <2>1. /\ at' = [at EXCEPT ![c] = "check"] /\ at[c] = "idle"
        /\ UNCHANGED <<awaits, task>>
    BY <1>2 DEF RequestRemoteFileList
  <2>2. \A d \in Callers \ {c} : at'[d] = at[d] /\ my'[d] = my[d]
    BY <1>2 DEF RequestRemoteFileList, TypeOK
  <2>3. at'[c] = "check" /\ ~Working(c)
    BY <2>1 DEF TypeOK, Working
  <2>4. \A d \in Callers : Working(d) => Working(d)' /\ d # c
    BY <2>2, <2>3 DEF Working
  <2>. QED
    BY <2>1, <2>2, <2>3, <2>4 DEF TasksCompleted, NobodyIsStranded
<1>3. ASSUME NEW c \in Callers, NEW from \in {"check", "index"}, Await(c, from)
      PROVE  TasksCompleted'
  <2>1. /\ at' = [at EXCEPT ![c] = "await"] /\ at[c] = from /\ pending \in Requests
        /\ UNCHANGED <<my, task>>
    BY <1>3 DEF Await, TypeOK
  <2>2. awaits'[c] = pending /\ at'[c] = "await" /\ ~Working(c)
    BY <1>3 DEF Await, TypeOK, Working
  <2>3. \A d \in Callers \ {c} : at'[d] = at[d] /\ awaits'[d] = awaits[d]
    BY <1>3 DEF Await, TypeOK
  <2>4. PICK w \in Callers : Working(w) /\ my[w] = pending
    BY <2>1 DEF CallsApart, OneRequestAtATime
  <2>5. w # c /\ (at[w] = "forget" => task[pending] # "open")
    BY <2>2, <2>4 DEF TasksCompleted
  <2>6. \A d \in Callers : Working(d) => Working(d)' /\ d # c
    BY <2>2, <2>3 DEF Working
  <2>. QED
    BY <2>1, <2>2, <2>3, <2>4, <2>5, <2>6 DEF TasksCompleted, NobodyIsStranded
<1>4. ASSUME NEW c \in Callers, AddPending(c), pending = 0 PROVE TasksCompleted'
  <2>1. at' = [at EXCEPT ![c] = "cached"] /\ at[c] = "add" /\ UNCHANGED <<my, awaits>>
    BY <1>4 DEF AddPending
  <2>2. my[c] \in Requests
    BY <2>1 DEF CallsApart, TypeOK
  <2>3. \A r \in Requests \ {my[c]} : task'[r] = task[r]
    BY <1>4, <2>2 DEF AddPending, TypeOK
  <2>4. at'[c] = "cached" /\ \A d \in Callers \ {c} : at'[d] = at[d]
    BY <2>1 DEF TypeOK
  <2>5. Working(c)' /\ \A d \in Callers : Working(d) => Working(d)'
    BY <2>1, <2>4 DEF Working
  <2>6. \A d \in Callers : ~Working(d)
    BY <1>4 DEF CallsApart, OneRequestAtATime, Working
  <2>7. \A d \in Callers : at'[d] # "forget"
    BY <2>4, <2>6 DEF Working
  <2>8. \A d \in Callers : at[d] = "await" => task[awaits[d]] # "open"
    BY <2>6 DEF TasksCompleted, NobodyIsStranded
  <2>9. NobodyIsStranded'
    <3>. SUFFICES ASSUME NEW d \in Callers, at'[d] = "await",
                         task'[awaits[d]] = "open"
                  PROVE  awaits[d] = my[c]
      BY <2>1, <2>4, <2>5 DEF NobodyIsStranded
    <3>1. at[d] = "await" /\ awaits[d] \in Requests
      BY <2>1, <2>4 DEF TasksCompleted
    <3>. QED
      BY <3>1, <2>3, <2>8
  <2>. QED
    BY <2>1, <2>4, <2>7, <2>9 DEF TasksCompleted
<1>5. ASSUME NEW c \in Callers, PeerIsGone(c) \/ Complete(c) \/ Fail(c)
      PROVE  TasksCompleted'
  BY <1>5, TasksEnded DEF PeerIsGone, Complete, Fail, Working
<1>6. ASSUME NEW c \in Callers, ForgetPending(c) \/ AwaitPending(c)
                                \/ (IndexPending(c) /\ pending = 0)
      PROVE  TasksCompleted'
  <2>1. at' = [at EXCEPT ![c] = "idle"] /\ UNCHANGED <<my, awaits, task>>
    BY <1>6 DEF ForgetPending, AwaitPending, IndexPending, Await
  <2>2. ~(Working(c) /\ at[c] # "forget")
    BY <1>6 DEF ForgetPending, AwaitPending, IndexPending, Await, Working
  <2>. QED
    BY <2>1, <2>2, TasksUndisturbed DEF Places
<1>7. ASSUME NEW c \in Callers, (CheckPending(c) /\ pending = 0)
                                \/ (AddPending(c) /\ pending # 0)
      PROVE  TasksCompleted'
  <2>1. \E p \in {"add", "index"} : at' = [at EXCEPT ![c] = p]
    BY <1>7 DEF CheckPending, AddPending, Await
  <2>2. ~Working(c) /\ UNCHANGED <<my, awaits, task>>
    BY <1>7 DEF CheckPending, AddPending, Await, Working
  <2>. QED
    BY <2>1, <2>2, TasksUndisturbed DEF Places
<1>8. ASSUME NEW c \in Callers, ShowCached(c) \/ FindPeer(c)
                                \/ SearchFails(c) \/ AwaitConnectBack(c)
                                \/ RegisterNegotiation(c)
                                \/ InitiateConnectionNegotiation(c)
      PROVE  TasksCompleted'
  <2>1. \E p \in {"peer", "callback", "register", "ask", "fail",
                  "negotiate", "answer"} : at' = [at EXCEPT ![c] = p]
    BY <1>8 DEF ShowCached, FindPeer, SearchFails,
                AwaitConnectBack,
                RegisterNegotiation, InitiateConnectionNegotiation
  <2>2. UNCHANGED <<my, awaits, task>>
    BY <1>8 DEF ShowCached, FindPeer, SearchFails,
                AwaitConnectBack,
                RegisterNegotiation, InitiateConnectionNegotiation
  <2>3. Working(c)'
    BY <2>1 DEF Working, TypeOK
  <2>. QED
    BY <2>1, <2>2, <2>3, TasksUndisturbed DEF Places
<1>9. ASSUME NEW c \in Callers, AwaitCandidates(c) \/ Dial(c) \/ StoreList(c)
                                \/ ShowList(c) \/ PeerStep(c)
      PROVE  TasksCompleted'
  <2>1. \E p \in {"dial", "ask", "fail", "read", "store", "show", "complete"} :
           at' = [at EXCEPT ![c] = p]
    BY <1>9 DEF AwaitCandidates, Dial, StoreList, ShowList,
                PeerStep, SendFullFileList, ReadList, ConnectionCloses
  <2>2. UNCHANGED <<my, awaits, task>>
    BY <1>9 DEF AwaitCandidates, Dial, StoreList, ShowList,
                PeerStep, SendFullFileList, ReadList, ConnectionCloses
  <2>3. Working(c)'
    BY <2>1 DEF Working, TypeOK
  <2>. QED
    BY <2>1, <2>2, <2>3, TasksUndisturbed DEF Places
<1>10. ASSUME NEW r \in Requests, ReceiveCandidates(r) PROVE TasksCompleted'
  BY <1>10, TasksUndisturbed DEF ReceiveCandidates
<1>11. CASE PeerJoined \/ PeerLeft \/ PeerList \/ ListChanges
  BY <1>11, TasksUndisturbed DEF PeerJoined, PeerLeft, PeerList, ListChanges
<1>. QED
  BY <1>1, <1>2, <1>3, <1>4, <1>5, <1>6, <1>7, <1>8, <1>9, <1>10, <1>11
     DEF Next, NodeStep, AddPending, CheckPending, IndexPending

-----------------------------------------------------------------------------
(* Each task is made once, completed once, and then given up. *)

(* In the beginning no task is made.                                         *)
LEMMA PhasesInit == Init => TasksInPhase
  BY DEF Init, TasksInPhase

(* No task changes, and nobody moves but one call, within its phase or home. *)
LEMMA PhasesUndisturbed ==
    ASSUME TypeOK, CallsApart, TasksInPhase, UNCHANGED <<my, awaits, requests, task>>,
           \/ UNCHANGED at
           \/ \E c \in Callers : \E p \in Places \ {"await"} :
                 /\ at' = [at EXCEPT ![c] = p]
                 /\ at[c] # "idle"
                 /\ p = "idle" \/ TaskOf(c)' = TaskOf(c)
    PROVE  TasksInPhase'
<1>1. CASE UNCHANGED at
  BY <1>1 DEF TasksInPhase, TaskOf, Working
<1>2. ASSUME NEW c \in Callers, NEW p \in Places \ {"await"},
             at' = [at EXCEPT ![c] = p],
             at[c] # "idle", p = "idle" \/ TaskOf(c)' = TaskOf(c)
      PROVE  TasksInPhase'
  <2>1. at'[c] = p /\ \A d \in Callers \ {c} : at'[d] = at[d]
    BY <1>2 DEF TypeOK
  <2>2. ASSUME NEW d \in Callers, at'[d] # "idle"
        PROVE  at[d] # "idle" /\ TaskOf(d)' = TaskOf(d)
    BY <1>2, <2>1, <2>2 DEF TaskOf, Working
  <2>3. \A d \in Callers : at'[d] = "await" => at[d] = "await"
    BY <1>2, <2>1
  <2>. QED
    BY <2>2, <2>3 DEF TasksInPhase
<1>. QED
  BY <1>1, <1>2

(* A call moves on to the next phase, and its task with it.                  *)
LEMMA PhaseBegun ==
    ASSUME TypeOK, CallsApart, TasksCompleted, TasksInPhase,
           UNCHANGED <<my, awaits, requests>>,
           NEW c \in Callers, NEW p \in Places \ {"await"}, at[c] # "idle",
           at' = [at EXCEPT ![c] = p], Working(c)',
           task' = [task EXCEPT ![my[c]] = TaskOf(c)']
    PROVE  TasksInPhase'
<1>1. my[c] \in 1 .. requests /\ my[c] \in Requests
  BY DEF CallsApart, TypeOK
<1>2. task'[my[c]] = TaskOf(c)' /\ \A r \in Requests \ {my[c]} : task'[r] = task[r]
  BY <1>1 DEF TypeOK
<1>3. \A d \in Callers \ {c} : at'[d] = at[d] /\ TaskOf(d)' = TaskOf(d)
  BY DEF TypeOK, TaskOf, Working
<1>4. ASSUME NEW d \in Callers, at'[d] # "idle" PROVE task'[my[d]] = TaskOf(d)'
  <2>1. CASE d = c
    BY <1>2, <2>1
  <2>2. CASE d # c
    <3>1. at[d] # "idle" /\ TaskOf(d)' = TaskOf(d)
      BY <1>3, <1>4, <2>2
    <3>2. my[d] # my[c] /\ my[d] \in Requests
      BY <2>2, <3>1 DEF CallsApart, TypeOK
    <3>. QED
      BY <1>2, <3>1, <3>2 DEF TasksInPhase
  <2>. QED
    BY <2>1, <2>2
<1>5. ASSUME NEW r \in Requests, r > requests PROVE task'[r] = "none"
  BY <1>1, <1>2, <1>5 DEF TasksInPhase, TypeOK
<1>6. ASSUME NEW d \in Callers, at'[d] = "await" PROVE task'[awaits[d]] # "none"
  <2>1. at[d] = "await" /\ awaits[d] \in Requests
    BY <1>6 DEF TasksCompleted, TypeOK
  <2>2. TaskOf(c)' # "none"
    BY DEF TaskOf
  <2>. QED
    BY <1>2, <2>1, <2>2 DEF TasksInPhase
<1>. QED
  BY <1>4, <1>5, <1>6 DEF TasksInPhase

(* No step makes a task twice, completes one twice, or gives up one that is  *)
(* not completed.                                                            *)
LEMMA PhasesStep ==
    ASSUME TypeOK, CallsApart, TasksCompleted, TasksInPhase, [Next]_vars
    PROVE  TasksInPhase'
<1> USE DEF peerVars, listVars, taskVars, negVars, callVars, Goto
<1>1. CASE UNCHANGED vars
  BY <1>1, PhasesUndisturbed DEF vars
<1>2. ASSUME NEW c \in Callers, RequestRemoteFileList(c) PROVE TasksInPhase'
  <2>1. /\ at'[c] = "check" /\ my'[c] = requests + 1 /\ requests' = requests + 1
        /\ UNCHANGED <<task, awaits>> /\ requests + 1 \in Requests
        /\ \A d \in Callers \ {c} : at'[d] = at[d] /\ my'[d] = my[d]
    BY <1>2 DEF RequestRemoteFileList, TypeOK
  <2>2. TaskOf(c)' = "none" /\ \A d \in Callers \ {c} : TaskOf(d)' = TaskOf(d)
    BY <2>1 DEF TaskOf, Working
  <2>3. task[requests + 1] = "none"
    BY <2>1 DEF TasksInPhase, TypeOK
  <2>4. ASSUME NEW d \in Callers, at'[d] # "idle" PROVE task'[my'[d]] = TaskOf(d)'
    BY <2>1, <2>2, <2>3, <2>4 DEF TasksInPhase
  <2>5. ASSUME NEW r \in Requests, r > requests' PROVE task'[r] = "none"
    BY <2>1, <2>5 DEF TasksInPhase, TypeOK
  <2>6. ASSUME NEW d \in Callers, at'[d] = "await" PROVE task'[awaits'[d]] # "none"
    BY <2>1, <2>6 DEF TasksInPhase
  <2>. QED
    BY <2>4, <2>5, <2>6 DEF TasksInPhase
<1>3. ASSUME NEW c \in Callers, AddPending(c), pending = 0 PROVE TasksInPhase'
  <2>1. /\ at' = [at EXCEPT ![c] = "cached"] /\ at[c] = "add"
        /\ task' = [task EXCEPT ![my[c]] = "open"] /\ UNCHANGED <<my, awaits, requests>>
    BY <1>3 DEF AddPending
  <2>2. TaskOf(c)' = "open" /\ Working(c)'
    BY <2>1 DEF TypeOK, TaskOf, Working
  <2>. QED
    BY <2>1, <2>2, PhaseBegun DEF Places
<1>4. ASSUME NEW c \in Callers, PeerIsGone(c) \/ Complete(c) \/ Fail(c)
      PROVE  TasksInPhase'
  <2>1. /\ at' = [at EXCEPT ![c] = "forget"] /\ at[c] # "idle"
        /\ task' = [task EXCEPT ![my[c]] = "ended"] /\ UNCHANGED <<my, awaits, requests>>
    BY <1>4 DEF PeerIsGone, Complete, Fail
  <2>2. TaskOf(c)' = "ended" /\ Working(c)'
    BY <2>1 DEF TypeOK, TaskOf, Working
  <2>. QED
    BY <2>1, <2>2, PhaseBegun DEF Places
<1>5. ASSUME NEW c \in Callers,
             \/ (CheckPending(c) /\ pending = 0) \/ (IndexPending(c) /\ pending = 0)
             \/ AwaitPending(c) \/ (AddPending(c) /\ pending # 0) \/ ForgetPending(c)
      PROVE  TasksInPhase'
  <2>1. PICK p \in {"add", "index", "idle"} : at' = [at EXCEPT ![c] = p]
    BY <1>5 DEF CheckPending, IndexPending, AwaitPending, AddPending, Await, ForgetPending
  <2>2. UNCHANGED <<my, awaits, requests, task>> /\ at[c] # "idle"
    BY <1>5 DEF CheckPending, IndexPending, AwaitPending, AddPending, Await, ForgetPending
  <2>3. p = "idle" \/ at[c] \in {"check", "add", "index"}
    BY <1>5, <2>1 DEF CheckPending, IndexPending, AwaitPending, AddPending, Await,
                      ForgetPending, TypeOK
  <2>4. p = "idle" \/ TaskOf(c)' = TaskOf(c)
    BY <2>1, <2>3 DEF TaskOf, Working, TypeOK
  <2>. QED
    BY <2>1, <2>2, <2>4, PhasesUndisturbed DEF Places
<1>6. ASSUME NEW c \in Callers, \/ ShowCached(c) \/ FindPeer(c) \/ SearchFails(c)
                                \/ AwaitConnectBack(c) \/ RegisterNegotiation(c)
                                \/ InitiateConnectionNegotiation(c)
      PROVE  TasksInPhase'
  <2>1. PICK p \in {"peer", "callback", "register", "ask", "fail", "negotiate",
                    "answer"} : at' = [at EXCEPT ![c] = p]
    BY <1>6 DEF ShowCached, FindPeer, SearchFails, AwaitConnectBack,
                RegisterNegotiation, InitiateConnectionNegotiation
  <2>2. /\ UNCHANGED <<my, awaits, requests, task>>
        /\ at[c] \in {"cached", "peer", "callback", "register", "negotiate"}
    BY <1>6 DEF ShowCached, FindPeer, SearchFails, AwaitConnectBack,
                RegisterNegotiation, InitiateConnectionNegotiation
  <2>3. TaskOf(c)' = TaskOf(c)
    BY <2>1, <2>2 DEF TaskOf, Working, TypeOK
  <2>. QED
    BY <2>1, <2>2, <2>3, PhasesUndisturbed DEF Places
<1>7. ASSUME NEW c \in Callers, \/ AwaitCandidates(c) \/ Dial(c) \/ StoreList(c)
                                \/ ShowList(c) \/ PeerStep(c)
      PROVE  TasksInPhase'
  <2>1. PICK p \in {"dial", "ask", "fail", "read", "store", "show", "complete"} :
               at' = [at EXCEPT ![c] = p]
    BY <1>7 DEF AwaitCandidates, Dial, StoreList, ShowList, PeerStep,
                SendFullFileList, ReadList, ConnectionCloses
  <2>2. /\ UNCHANGED <<my, awaits, requests, task>>
        /\ at[c] \in {"answer", "dial", "ask", "read", "store", "show"}
    BY <1>7 DEF AwaitCandidates, Dial, StoreList, ShowList, PeerStep,
                SendFullFileList, ReadList, ConnectionCloses
  <2>3. TaskOf(c)' = TaskOf(c)
    BY <2>1, <2>2 DEF TaskOf, Working, TypeOK
  <2>. QED
    BY <2>1, <2>2, <2>3, PhasesUndisturbed DEF Places
<1>8. ASSUME NEW c \in Callers, NEW from \in {"check", "index"}, Await(c, from)
       PROVE  TasksInPhase'
  <2>1. /\ at[c] = from /\ at'[c] = "await" /\ awaits'[c] = pending /\ pending # 0
        /\ \A d \in Callers \ {c} : at'[d] = at[d] /\ awaits'[d] = awaits[d]
        /\ UNCHANGED <<my, requests, task>>
    BY <1>8 DEF Await, TypeOK
  <2>2. \A d \in Callers : at'[d] # "idle" => at[d] # "idle" /\ TaskOf(d)' = TaskOf(d)
    BY <2>1 DEF TaskOf, Working
  <2>3. PICK w \in Callers : Working(w)
    BY <2>1 DEF CallsApart
  <2>4. task[pending] # "none"
    BY <2>3 DEF TasksInPhase, TaskOf, CallsApart, OneRequestAtATime, Working
  <2>. QED
    BY <2>1, <2>2, <2>4 DEF TasksInPhase
<1>9. ASSUME NEW r \in Requests, ReceiveCandidates(r) PROVE TasksInPhase'
  BY <1>9, PhasesUndisturbed DEF ReceiveCandidates
<1>10. CASE PeerJoined \/ PeerLeft \/ PeerList \/ ListChanges
  BY <1>10, PhasesUndisturbed DEF PeerJoined, PeerLeft, PeerList, ListChanges
<1>11. ASSUME NEW c \in Callers, CheckPending(c) \/ IndexPending(c) \/ AddPending(c)
       PROVE  TasksInPhase'
  <2>1. CASE Await(c, "check") \/ Await(c, "index")
    BY <1>8, <2>1
  <2>2. CASE ~Await(c, "check") /\ ~Await(c, "index") /\ ~AddPending(c)
    <3>1. (CheckPending(c) /\ pending = 0) \/ (IndexPending(c) /\ pending = 0)
      BY <1>11, <2>2 DEF CheckPending, IndexPending
    <3>. QED
      BY <1>5, <3>1
  <2>. QED
    BY <1>3, <1>5, <2>1, <2>2
<1>. QED
  BY <1>1, <1>2, <1>4, <1>5, <1>6, <1>7, <1>9, <1>10, <1>11 DEF Next, NodeStep

-----------------------------------------------------------------------------
(* What the user sees. *)

(* In the beginning there is no list to be shown.                            *)
LEMMA ListsInit == Init => ListsOrdered
  BY DEF Init, ListsOrdered

(* A call only moves on, and to no place where it has read a list.           *)
LEMMA ListsUndisturbed ==
    ASSUME TypeOK, ListsOrdered, UNCHANGED <<listVars, remote, got>>,
           \/ UNCHANGED at
           \/ \E c \in Callers : \E p \in Places \ {"read", "store", "show"} :
                 at' = [at EXCEPT ![c] = p]
    PROVE  ListsOrdered'
<1>1. \A d \in Callers : at'[d] \in {"read", "store", "show"} => at'[d] = at[d]
  BY DEF TypeOK
<1>. QED
  BY <1>1 DEF ListsOrdered, listVars

(* Only one call reads at a time.                                            *)
LEMMA OneWorker ==
    ASSUME TypeOK, CallsApart, NEW c \in Callers, Working(c),
           NEW d \in Callers, Working(d)
    PROVE  d = c
  BY DEF CallsApart, OneRequestAtATime, Working

(* No step makes what may be shown next older than what was shown, so        *)
(* nothing older is shown.                                                   *)
LEMMA ListsStep ==
    ASSUME TypeOK, CallsApart, ListsOrdered, [Next]_vars
    PROVE  ListsOrdered' /\ shown' >= shown
<1> USE DEF peerVars, listVars, taskVars, negVars, callVars, Goto
<1>. DEFINE Aim == ListsOrdered' /\ shown' >= shown
<1>0. shown >= shown
  BY DEF TypeOK
<1>1. CASE UNCHANGED vars
  BY <1>0, <1>1, ListsUndisturbed DEF vars
<1>2. ASSUME NEW c \in Callers, RequestRemoteFileList(c) \/ CheckPending(c)
                                \/ IndexPending(c) \/ AwaitPending(c)
                                \/ AddPending(c) \/ ForgetPending(c)
      PROVE  Aim
  <2>1. \E p \in {"check", "await", "add", "index", "idle", "cached"} :
           at' = [at EXCEPT ![c] = p]
    BY <1>2 DEF RequestRemoteFileList, CheckPending, IndexPending, AwaitPending,
                AddPending, ForgetPending, Await
  <2>2. UNCHANGED <<listVars, remote, got>>
    BY <1>2 DEF RequestRemoteFileList, CheckPending, IndexPending, AwaitPending,
                AddPending, ForgetPending, Await
  <2>. QED
    BY <1>0, <2>1, <2>2, ListsUndisturbed DEF Places
<1>3. ASSUME NEW c \in Callers, PeerIsGone(c) \/ FindPeer(c)
                                \/ SearchFails(c) \/ AwaitConnectBack(c)
                                \/ RegisterNegotiation(c)
                                \/ InitiateConnectionNegotiation(c)
                                \/ AwaitCandidates(c)
      PROVE  Aim
  <2>1. \E p \in {"forget", "callback", "register", "ask", "fail", "negotiate",
                  "answer", "dial"} : at' = [at EXCEPT ![c] = p]
    BY <1>3 DEF PeerIsGone, FindPeer, SearchFails,
                AwaitConnectBack, RegisterNegotiation,
                InitiateConnectionNegotiation, AwaitCandidates
  <2>2. UNCHANGED <<listVars, remote, got>>
    BY <1>3 DEF PeerIsGone, FindPeer, SearchFails,
                AwaitConnectBack, RegisterNegotiation,
                InitiateConnectionNegotiation, AwaitCandidates
  <2>. QED
    BY <1>0, <2>1, <2>2, ListsUndisturbed DEF Places
<1>4. ASSUME NEW c \in Callers, Dial(c) \/ ConnectionCloses(c) \/ Complete(c)
                                \/ Fail(c)
      PROVE  Aim
  <2>1. \E p \in {"ask", "fail", "forget"} : at' = [at EXCEPT ![c] = p]
    BY <1>4 DEF Dial, ConnectionCloses, Complete, Fail
  <2>2. UNCHANGED <<listVars, remote, got>>
    BY <1>4 DEF Dial, ConnectionCloses, Complete, Fail
  <2>. QED
    BY <1>0, <2>1, <2>2, ListsUndisturbed DEF Places
<1>5. ASSUME NEW c \in Callers, ShowCached(c) PROVE Aim
  <2>1. Working(c) /\ UNCHANGED <<cache, remote, got>>
    BY <1>5 DEF ShowCached, Working
  <2>2. shown' \in {shown, cache} /\ shown' >= shown /\ (cache # NoList => shown' = cache)
    BY <1>5 DEF ShowCached, ListsOrdered, TypeOK
  <2>3. \A d \in Callers : at'[d] \notin {"read", "store", "show"}
    BY <1>5, <2>1, OneWorker DEF ShowCached, Working, TypeOK
  <2>. QED
    BY <2>1, <2>2, <2>3 DEF ListsOrdered, TypeOK
<1>6. ASSUME NEW c \in Callers, SendFullFileList(c) PROVE Aim
  <2>1. UNCHANGED <<cache, shown, remote>> /\ at'[c] = "read" /\ got'[c] = remote
    BY <1>6 DEF SendFullFileList, TypeOK
  <2>2. \A d \in Callers \ {c} : at'[d] = at[d] /\ got'[d] = got[d]
    BY <1>6 DEF SendFullFileList, TypeOK
  <2>3. shown <= remote /\ remote <= remote
    BY DEF ListsOrdered, TypeOK
  <2>4. \A d \in Callers : at'[d] \in {"read", "store", "show"} =>
                               shown <= got'[d] /\ got'[d] <= remote
    BY <2>1, <2>2, <2>3 DEF ListsOrdered
  <2>5. \A d \in Callers : at'[d] = "show" => cache \in {NoList, got'[d]}
    BY <2>1, <2>2 DEF ListsOrdered
  <2>. QED
    BY <1>0, <2>1, <2>4, <2>5 DEF ListsOrdered
<1>7. ASSUME NEW c \in Callers, ReadList(c) PROVE Aim
  <2>1. /\ UNCHANGED <<cache, shown, remote, got>>
        /\ at[c] = "read" /\ at'[c] = "store"
    BY <1>7 DEF ReadList, TypeOK
  <2>2. \A d \in Callers \ {c} : at'[d] = at[d]
    BY <1>7 DEF ReadList, TypeOK
  <2>. QED
    BY <2>1, <2>2 DEF ListsOrdered, TypeOK
<1>8. ASSUME NEW c \in Callers, StoreList(c) PROVE Aim
  <2>1. /\ UNCHANGED <<shown, remote, got>> /\ cache' = got[c]
        /\ at[c] = "store" /\ at'[c] = "show" /\ Working(c)
    BY <1>8 DEF StoreList, TypeOK, Working
  <2>2. \A d \in Callers \ {c} : at'[d] = at[d] /\ ~Working(d)
    BY <1>8, <2>1, OneWorker DEF StoreList, TypeOK
  <2>3. shown <= got[c] /\ got[c] <= remote
    BY <2>1 DEF ListsOrdered
  <2>4. \A d \in Callers \ {c} : at'[d] \notin {"read", "store", "show"}
    BY <2>2 DEF Working
  <2>. QED
    BY <1>0, <2>1, <2>3, <2>4 DEF ListsOrdered
<1>9. ASSUME NEW c \in Callers, ShowList(c) PROVE Aim
  <2>1. /\ UNCHANGED <<cache, remote, got>> /\ shown' = got[c]
        /\ at[c] = "show" /\ at'[c] = "complete" /\ Working(c)
    BY <1>9 DEF ShowList, TypeOK, Working
  <2>2. \A d \in Callers \ {c} : at'[d] = at[d] /\ ~Working(d)
    BY <1>9, <2>1, OneWorker DEF ShowList, TypeOK
  <2>3. shown <= got[c] /\ got[c] <= remote /\ cache \in {NoList, got[c]}
    BY <2>1 DEF ListsOrdered
  <2>4. \A d \in Callers : at'[d] \notin {"read", "store", "show"}
    BY <2>1, <2>2 DEF Working
  <2>. QED
    BY <2>1, <2>3, <2>4 DEF ListsOrdered, TypeOK
<1>10. ASSUME NEW r \in Requests, ReceiveCandidates(r) PROVE Aim
  BY <1>0, <1>10, ListsUndisturbed DEF ReceiveCandidates
<1>11. CASE PeerJoined \/ PeerList
  BY <1>0, <1>11, ListsUndisturbed DEF PeerJoined, PeerList
<1>12. CASE PeerLeft
  BY <1>0, <1>12 DEF PeerLeft, ListsOrdered, TypeOK
<1>13. CASE ListChanges
  BY <1>0, <1>13 DEF ListChanges, ListsOrdered, TypeOK
<1>. QED
  BY <1>1, <1>2, <1>3, <1>4, <1>5, <1>6, <1>7, <1>8, <1>9, <1>10, <1>11,
     <1>12, <1>13
     DEF Next, NodeStep, PeerStep

-----------------------------------------------------------------------------
(* Negotiations. *)

(* In the beginning nobody negotiates.                                       *)
LEMMA NegotiationsInit == Init => NegotiationsCleared
  BY DEF Init, NegotiationsCleared

(* Nobody stops negotiating.                                                 *)
LEMMA NegotiationsUndisturbed ==
    ASSUME TypeOK, NegotiationsCleared, UNCHANGED hubFault,
           negotiations' \subseteq negotiations,
           \A c \in Callers : Negotiating(c) => Negotiating(c)' /\ my'[c] = my[c]
    PROVE  NegotiationsCleared'
  BY DEF NegotiationsCleared

(* No step leaves behind the entry of a negotiation that is over, unless a   *)
(* call of the hub throws.                                                   *)
LEMMA NegotiationsStep ==
    ASSUME TypeOK, CallsApart, NegotiationsCleared, [Next]_vars
    PROVE  NegotiationsCleared'
<1> USE DEF peerVars, listVars, taskVars, negVars, callVars, Goto
<1>1. CASE UNCHANGED vars
  BY <1>1, NegotiationsUndisturbed DEF vars, Negotiating
<1>2. ASSUME NEW c \in Callers, RequestRemoteFileList(c) PROVE NegotiationsCleared'
  <2>1. UNCHANGED <<hubFault, negotiations>> /\ ~Negotiating(c)
    BY <1>2 DEF RequestRemoteFileList, Negotiating
  <2>2. \A d \in Callers \ {c} : at'[d] = at[d] /\ my'[d] = my[d]
    BY <1>2 DEF RequestRemoteFileList, TypeOK
  <2>. QED
    BY <2>1, <2>2, NegotiationsUndisturbed DEF Negotiating
<1>3. ASSUME NEW c \in Callers, \/ CheckPending(c) \/ IndexPending(c)
                                \/ AwaitPending(c) \/ AddPending(c)
                                \/ ForgetPending(c) \/ ShowCached(c)
                                \/ PeerIsGone(c) \/ FindPeer(c) \/ SearchFails(c)
      PROVE  NegotiationsCleared'
  <2>1. /\ UNCHANGED <<hubFault, negotiations, my>> /\ ~Negotiating(c)
        /\ \E p \in Places : at' = [at EXCEPT ![c] = p]
    BY <1>3 DEF CheckPending, IndexPending, AwaitPending, AddPending, Await,
                ForgetPending, ShowCached, PeerIsGone, FindPeer, SearchFails,
                Negotiating, Places
  <2>. QED
    BY <2>1, NegotiationsUndisturbed DEF Negotiating, TypeOK
<1>4. ASSUME NEW c \in Callers, \/ AwaitConnectBack(c) \/ Dial(c) \/ StoreList(c)
                                \/ ShowList(c) \/ Complete(c) \/ Fail(c) \/ PeerStep(c)
      PROVE  NegotiationsCleared'
  <2>1. /\ UNCHANGED <<hubFault, negotiations, my>> /\ ~Negotiating(c)
        /\ \E p \in Places : at' = [at EXCEPT ![c] = p]
    BY <1>4 DEF AwaitConnectBack, Dial, StoreList, ShowList, Complete, Fail, PeerStep,
                SendFullFileList, ReadList, ConnectionCloses, Negotiating, Places
  <2>. QED
    BY <2>1, NegotiationsUndisturbed DEF Negotiating, TypeOK
<1>5. ASSUME NEW c \in Callers, RegisterNegotiation(c) PROVE NegotiationsCleared'
  <2>1. /\ UNCHANGED <<hubFault, my>> /\ ~Negotiating(c)
        /\ negotiations' = negotiations \cup {my[c]}
    BY <1>5 DEF RegisterNegotiation, Negotiating
  <2>2. at'[c] = "negotiate" /\ \A d \in Callers \ {c} : at'[d] = at[d]
    BY <1>5 DEF RegisterNegotiation, TypeOK
  <2>. QED
    BY <2>1, <2>2 DEF NegotiationsCleared, Negotiating
<1>6. ASSUME NEW c \in Callers, InitiateConnectionNegotiation(c)
      PROVE  NegotiationsCleared'
  <2>1. CASE hubFault'
    BY <2>1 DEF NegotiationsCleared
  <2>2. CASE hubFault' = hubFault /\ at' = [at EXCEPT ![c] = "answer"]
    BY <1>6, <2>2, NegotiationsUndisturbed
       DEF InitiateConnectionNegotiation, Negotiating, TypeOK
  <2>. QED
    BY <1>6, <2>1, <2>2 DEF InitiateConnectionNegotiation
<1>7. ASSUME NEW c \in Callers, AwaitCandidates(c) PROVE NegotiationsCleared'
  <2>1. /\ UNCHANGED <<hubFault, my>> /\ negotiations' = negotiations \ {my[c]}
        /\ \A d \in Callers \ {c} : at'[d] = at[d]
    BY <1>7 DEF AwaitCandidates, TypeOK
  <2>. QED
    BY <2>1 DEF NegotiationsCleared, Negotiating
<1>8. ASSUME NEW r \in Requests, ReceiveCandidates(r) PROVE NegotiationsCleared'
  BY <1>8, NegotiationsUndisturbed DEF ReceiveCandidates, Negotiating
<1>9. CASE PeerJoined \/ PeerLeft \/ PeerList \/ ListChanges
  BY <1>9, NegotiationsUndisturbed
     DEF PeerJoined, PeerLeft, PeerList, ListChanges, Negotiating
<1>. QED
  BY <1>1, <1>2, <1>3, <1>4, <1>5, <1>6, <1>7, <1>8, <1>9 DEF Next, NodeStep

-----------------------------------------------------------------------------
(* The calls implement SharedFetch. *)

LEMMA SharedInit == Init => Shared!Init
  BY DEF Init, Shared!Init, Joined

(* Whoever moves neither begins to wait nor stops to has joined as before.   *)
LEMMA JoinedAsBefore ==
    ASSUME TypeOK, UNCHANGED awaits,
           \/ UNCHANGED at
           \/ \E c \in Callers : \E p \in Places \ {"await"} :
                 at' = [at EXCEPT ![c] = p] /\ at[c] # "await"
    PROVE  Joined' = Joined
<1>1. ASSUME NEW d \in Callers PROVE (at'[d] = "await") <=> (at[d] = "await")
  BY DEF TypeOK
<1>. QED
  BY <1>1 DEF Joined

(* The call that works is the one that fetches, and its task is open until   *)
(* it comes to give up its entry.                                            *)
LEMMA WorkerFetches ==
    ASSUME TypeOK, CallsApart, TasksInPhase, NEW c \in Callers, Working(c)
    PROVE  /\ pending = my[c] /\ pending # 0 /\ pending \in Requests
           /\ task[pending] = IF at[c] = "forget" THEN "ended" ELSE "open"
<1>1. at[c] # "idle" /\ pending = my[c] /\ my[c] \in 1 .. requests
  BY DEF Working, CallsApart, OneRequestAtATime
<1>2. task[my[c]] = TaskOf(c) /\ my[c] \in Requests
  BY <1>1 DEF TasksInPhase, TypeOK
<1>. QED
  BY <1>1, <1>2 DEF TaskOf

(* Steps that SharedFetch does not see.                                      *)
LEMMA Unseen ==
    ASSUME TypeOK, UNCHANGED <<remote, shown, pending, task, awaits>>,
           \/ UNCHANGED at
           \/ \E c \in Callers : \E p \in Places \ {"await"} :
                 at' = [at EXCEPT ![c] = p] /\ at[c] # "await"
    PROVE  UNCHANGED (Shared!vars)
  BY JoinedAsBefore DEF Shared!vars

(* Every step of callers, hub and peer is a step of SharedFetch or unseen.   *)
LEMMA SharedStep ==
    ASSUME TypeOK, CallsApart, TasksCompleted, TasksInPhase, ListsOrdered, [Next]_vars
    PROVE  [Shared!Next]_(Shared!vars)
<1> USE DEF peerVars, listVars, taskVars, negVars, callVars, Goto
<1>1. CASE UNCHANGED vars
  BY <1>1, Unseen DEF vars
<1>2. ASSUME NEW c \in Callers, NEW from \in {"check", "index"}, Await(c, from)
      PROVE  Shared!Join(c)
  <2>1. /\ at'[c] = "await" /\ awaits'[c] = pending /\ at[c] # "await" /\ pending # 0
        /\ \A d \in Callers \ {c} : at'[d] = at[d] /\ awaits'[d] = awaits[d]
        /\ UNCHANGED <<remote, shown, pending, task>>
    BY <1>2 DEF Await, TypeOK
  <2>2. Joined[c] = 0 /\ Joined' = [Joined EXCEPT ![c] = pending]
    BY <2>1 DEF Joined
  <2>. QED
    BY <2>1, <2>2 DEF Shared!Join
<1>3. ASSUME NEW c \in Callers, AddPending(c), pending = 0 PROVE Shared!Begin(my[c])
  <2>1. /\ at' = [at EXCEPT ![c] = "cached"] /\ at[c] = "add" /\ pending' = my[c]
        /\ task' = [task EXCEPT ![my[c]] = "open"]
        /\ UNCHANGED <<remote, shown, awaits>>
    BY <1>3 DEF AddPending
  <2>2. task[my[c]] = "none"
    BY <2>1 DEF TasksInPhase, TaskOf, Working
  <2>3. Joined' = Joined
    BY <2>1, JoinedAsBefore DEF Places
  <2>. QED
    BY <1>3, <2>1, <2>2, <2>3 DEF Shared!Begin
<1>4. ASSUME NEW c \in Callers, AwaitPending(c) PROVE Shared!Leave(c)
  <2>1. /\ at[c] = "await" /\ at'[c] = "idle" /\ task[awaits[c]] # "open"
        /\ \A d \in Callers \ {c} : at'[d] = at[d]
        /\ UNCHANGED <<remote, shown, pending, task, awaits>>
    BY <1>4 DEF AwaitPending, TypeOK
  <2>2. awaits[c] \in Requests /\ task[awaits[c]] = "ended"
    BY <2>1 DEF TasksCompleted, TasksInPhase, TypeOK
  <2>3. Joined[c] = awaits[c] /\ Joined' = [Joined EXCEPT ![c] = 0]
    BY <2>1 DEF Joined
  <2>. QED
    BY <2>1, <2>2, <2>3 DEF Shared!Leave
<1>5. ASSUME NEW c \in Callers, PeerIsGone(c) \/ Complete(c) \/ Fail(c)
      PROVE  Shared!Complete
  <2>1. /\ at' = [at EXCEPT ![c] = "forget"] /\ at[c] \in {"peer", "complete", "fail"}
        /\ task' = [task EXCEPT ![my[c]] = "ended"]
        /\ UNCHANGED <<remote, shown, pending, awaits>>
    BY <1>5 DEF PeerIsGone, Complete, Fail
  <2>2. pending = my[c] /\ Shared!Fetching
    BY <2>1, WorkerFetches DEF Working, Shared!Fetching
  <2>3. Joined' = Joined
    BY <2>1, JoinedAsBefore DEF Places
  <2>. QED
    BY <2>1, <2>2, <2>3 DEF Shared!Complete
<1>6. ASSUME NEW c \in Callers, ForgetPending(c) PROVE Shared!End
  <2>1. /\ at' = [at EXCEPT ![c] = "idle"] /\ at[c] = "forget" /\ pending' = 0
        /\ UNCHANGED <<remote, shown, task, awaits>>
    BY <1>6 DEF ForgetPending
  <2>2. pending # 0 /\ task[pending] = "ended"
    BY <2>1, WorkerFetches DEF Working
  <2>3. Joined' = Joined
    BY <2>1, JoinedAsBefore DEF Places
  <2>. QED
    BY <2>1, <2>2, <2>3 DEF Shared!End
<1>7. ASSUME NEW c \in Callers, ShowCached(c) \/ ShowList(c) PROVE Shared!Show
  <2>1. /\ at[c] \in {"cached", "show"}
        /\ \E p \in {"peer", "complete"} : at' = [at EXCEPT ![c] = p]
        /\ UNCHANGED <<remote, pending, task, awaits>>
    BY <1>7 DEF ShowCached, ShowList
  <2>2. Shared!Fetching
    BY <2>1, WorkerFetches DEF Working, Shared!Fetching
  <2>3. shown' \in shown .. remote
    <3>1. CASE ShowCached(c)
      BY <3>1 DEF ShowCached, ListsOrdered, TypeOK
    <3>2. CASE ShowList(c)
      BY <3>2 DEF ShowList, ListsOrdered, TypeOK
    <3>. QED
      BY <1>7, <3>1, <3>2
  <2>4. Joined' = Joined
    BY <2>1, JoinedAsBefore DEF Places
  <2>. QED
    BY <2>1, <2>2, <2>3, <2>4 DEF Shared!Show
<1>8. ASSUME ListChanges PROVE Shared!Change
  <2>1. Joined' = Joined
    BY <1>8, JoinedAsBefore DEF ListChanges
  <2>. QED
    BY <1>8, <2>1 DEF ListChanges, Shared!Change
<1>9. ASSUME NEW c \in Callers,
             \/ RequestRemoteFileList(c)
             \/ (CheckPending(c) /\ pending = 0) \/ (IndexPending(c) /\ pending = 0)
             \/ AddPending(c) /\ pending # 0
      PROVE  UNCHANGED (Shared!vars)
  <2>1. /\ \E p \in {"check", "add", "idle", "index"} : at' = [at EXCEPT ![c] = p]
        /\ at[c] # "await" /\ UNCHANGED <<remote, shown, pending, task, awaits>>
    BY <1>9 DEF RequestRemoteFileList, CheckPending, IndexPending, AddPending, Await
  <2>. QED
    BY <2>1, Unseen DEF Places
<1>10. ASSUME NEW c \in Callers,
              \/ FindPeer(c) \/ SearchFails(c) \/ AwaitConnectBack(c)
              \/ RegisterNegotiation(c) \/ InitiateConnectionNegotiation(c)
              \/ AwaitCandidates(c) \/ Dial(c) \/ StoreList(c) \/ PeerStep(c)
       PROVE  UNCHANGED (Shared!vars)
  <2>1. /\ \E p \in Places \ {"await"} : at' = [at EXCEPT ![c] = p]
        /\ at[c] # "await" /\ UNCHANGED <<remote, shown, pending, task, awaits>>
    BY <1>10 DEF FindPeer, SearchFails, AwaitConnectBack, RegisterNegotiation,
                 InitiateConnectionNegotiation, AwaitCandidates, Dial, StoreList,
                 PeerStep, SendFullFileList, ReadList, ConnectionCloses, Places
  <2>. QED
    BY <2>1, Unseen
<1>11. ASSUME \/ \E r \in Requests : ReceiveCandidates(r)
              \/ PeerJoined \/ PeerLeft \/ PeerList
       PROVE  UNCHANGED (Shared!vars)
  BY <1>11, Unseen DEF ReceiveCandidates, PeerJoined, PeerLeft, PeerList
<1>. QED
  <2>1. ASSUME NEW c \in Callers, CheckPending(c) \/ IndexPending(c) \/ AddPending(c)
        PROVE  Shared!Next \/ UNCHANGED (Shared!vars)
    <3>1. CASE AddPending(c) /\ pending = 0
      <4>1. my[c] \in Requests
        BY <3>1 DEF AddPending, CallsApart, TypeOK
      <4>. QED
        BY <1>3, <3>1, <4>1 DEF Shared!Next
    <3>2. CASE Await(c, "check") \/ Await(c, "index")
      BY <1>2, <3>2 DEF Shared!Next
    <3>. QED
      BY <1>9, <2>1, <3>1, <3>2 DEF CheckPending, IndexPending
  <2>. QED
    BY <1>1, <1>4, <1>5, <1>6, <1>7, <1>8, <1>9, <1>10, <1>11, <2>1
       DEF Next, NodeStep, Shared!Next

-----------------------------------------------------------------------------
(* The theorems. *)

(* The types and the five parts of Inductive hold in every state.            *)
THEOREM Induction == Spec => [](TypeOK /\ Inductive)
<1>1. Init => TypeOK /\ Inductive
  BY TypeInit, CallsInit, TasksInit, PhasesInit, ListsInit, NegotiationsInit DEF Inductive
<1>2. TypeOK /\ Inductive /\ [Next]_vars => (TypeOK /\ Inductive)'
  BY TypeStep, CallsStep, TasksStep, PhasesStep, ListsStep, NegotiationsStep DEF Inductive
<1>. QED
  BY <1>1, <1>2, PTL DEF Spec

(* Every state of the requests is of its type.                               *)
THEOREM TypesHold == Spec => []TypeOK
  BY Induction, PTL

(* The list of a peer is fetched by one call at a time, the one that the     *)
(* dictionary names, however many ask for it.                                *)
THEOREM OneFetch == Spec => []OneRequestAtATime
<1>1. Inductive => OneRequestAtATime
  BY DEF Inductive, CallsApart
<1>. QED
  BY <1>1, Induction, PTL

(* Whoever awaits a task that is not completed awaits one whose call is      *)
(* still at work.                                                            *)
THEOREM WaitersHaveWorkers == Spec => []NobodyIsStranded
<1>1. Inductive => NobodyIsStranded
  BY DEF Inductive, TasksCompleted
<1>. QED
  BY <1>1, Induction, PTL

(* Unless a call of the hub throws, only calls that are negotiating have an  *)
(* entry in pendingNegotiations.                                             *)
THEOREM NoNegotiationLeft == Spec => []NegotiationsCleared
<1>1. Inductive => NegotiationsCleared
  BY DEF Inductive
<1>. QED
  BY <1>1, Induction, PTL

(* What the user is shown of a peer's list is never older than what was      *)
(* shown before.                                                             *)
THEOREM ShownNeverGoesBack == Spec => ListsNeverGoBack
<1>1. TypeOK /\ Inductive /\ [Next]_vars => [shown' >= shown]_vars
  BY ListsStep DEF Inductive
<1>. QED
  BY <1>1, Induction, PTL DEF Spec, ListsNeverGoBack

(* Every step of the calls, of the hub and of the peer is one of SharedFetch *)
(* or unseen there: overlapping calls share one fetch, each fetch is         *)
(* completed once before the next begins, nobody returns from a fetch before *)
(* that, and what is shown only moves forward.                               *)
THEOREM CallsShareFetches == Spec => ImplementsShared
<1>1. Init => Shared!Init
  BY SharedInit
<1>2. TypeOK /\ Inductive /\ [Next]_vars => [Shared!Next]_(Shared!vars)
  BY SharedStep DEF Inductive
<1>. QED
  BY <1>1, <1>2, Induction, PTL DEF Spec, ImplementsShared, Shared!Spec

=============================================================================
