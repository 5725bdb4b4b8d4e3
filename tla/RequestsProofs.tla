--------------------------- MODULE RequestsProofs ---------------------------
(* Theorems on the answers to clients, for any requests, actors, number of panics and *)
(* capacity of the panic channel.                                                     *)
EXTENDS Requests, SequenceTheorems, TLAPS

USE ZenonT(2), SMTT(60), ZenonT(60)

ClientStates == {"idle", "waiting", "ok", "error", "invalid", "closed", "timed out", "refused"}
WorkStages == {"none", "new", "pending", "refused", "done"}
Ends == {"TransactionApplied", "SendTransactionFailure", "RegistrationSuccess",
         "CallTransactionAsyncPending", "CallTransactionApplied", "CallTransactionFailure"}
Messages == [is : {"request", "RegistrationFailure"} \union Ends, of : Requests]

Supervised ==
    /\ status \in [Actors -> {"running", "stopping", "stopped"}]
    /\ incarnation \in [Actors -> Nat]
    /\ events \in [Actors -> Seq(Nat)]
    /\ channel \in Seq(Actors \X Nat)
    /\ Len(channel) <= Capacity

Typed ==
    /\ client \in [Requests -> ClientStates]
    /\ rpcMail \subseteq Requests
    /\ mail \subseteq Messages
    /\ replies \in [Txs -> Requests \union {None}]
    /\ work \in [Requests -> WorkStages]
    /\ \A t \in Txs : replies[t] # None => /\ Tx[replies[t]] = t
                                          /\ Method[replies[t]] # "getAccount"

\* What the node may tell the scheduler of a request, by its method.
May(method) ==
    CASE method = "send" -> {"TransactionApplied", "SendTransactionFailure"}
      [] method = "call" -> {"CallTransactionAsyncPending", "CallTransactionApplied",
                             "CallTransactionFailure", "SendTransactionFailure"}
      [] method = "registerProgram" -> {"RegistrationSuccess", "RegistrationFailure",
                                        "CallTransactionFailure", "SendTransactionFailure"}
      [] method = "getAccount" -> {}

\* What the mailbox of the scheduler says has happened, and is something the node says of
\* such a request.
TrueMail ==
    \A m \in mail : m.is # "request" =>
        <<Tx[m.of], m.is>> \in happened /\ m.is \in May(Method[m.of])

\* A request the engine works on was made and scheduled: if its client waits, its port is in
\* the map.
Kept ==
    /\ \A r \in Requests : client[r] = "idle" =>
          r \notin rpcMail /\ work[r] = "none" /\ \A m \in mail : m.of # r
    /\ \A r \in Requests : client[r] = "waiting" /\ work[r] # "none" => replies[Tx[r]] = r
    /\ \A m \in mail : m.is # "request" => work[m.of] # "none"

IInv == Supervised /\ Typed /\ TrueMail /\ Kept /\ AnswerIsTrue
-----------------------------------------------------------------------------
\* The responses the scheduler makes, and that the method of a request knows those it is
\* sent.
LEMMA Responses ==
    /\ DOMAIN Response = Ends
    /\ \A r \in Requests : \A o \in Ends \intersect May(Method[r]) :
          Sees(Method[r], Response[o]) \in {"ok", "error"}
<1>1. DOMAIN Response = Ends
  BY DEF Response, Ends
<1>2. ASSUME NEW r \in Requests, NEW o \in Ends \intersect May(Method[r])
      PROVE  Sees(Method[r], Response[o]) \in {"ok", "error"}
  <2> USE <1>2, RequestsConstants DEF May, Sees, Takes
  <2>1. CASE Method[r] = "send"
    BY <2>1, SMTT(60) DEF Response, SendTakes
  <2>2. CASE Method[r] = "call"
    BY <2>2, SMTT(60) DEF Response, CallTakes
  <2>3. CASE Method[r] = "registerProgram"
    BY <2>3, SMTT(60) DEF Response, RegisterProgramTakes, Ends
  <2>4. CASE Method[r] = "getAccount"
    BY <2>4
  <2> QED
    BY <2>1, <2>2, <2>3, <2>4
<1> QED
  BY <1>1, <1>2

\* Whatever becomes of a request, it is something the node says of requests of its method.
LEMMA OutcomesMay ==
    ASSUME NEW r \in Requests, NEW o \in Outcomes(r)
    PROVE  /\ o[1] \in May(Method[r])
           /\ o[1] \in Ends \union {"RegistrationFailure"}
           /\ o[2] \in WorkStages \ {"none"}
           /\ work[r] # "none"
<1> USE RequestsConstants DEF Outcomes, May, Ends, WorkStages
<1>1. CASE Method[r] = "send"
  BY <1>1, SMTT(60)
<1>2. CASE Method[r] = "call"
  BY <1>2, SMTT(60)
<1>3. CASE Method[r] = "registerProgram"
  BY <1>3, SMTT(60)
<1>4. CASE Method[r] = "getAccount"
  BY <1>4
<1> QED
  BY <1>1, <1>2, <1>3, <1>4

\* A client that does not wait sees nothing of a dropped port, and one that waits sees its
\* channel closed.
LEMMA DroppedPorts ==
    ASSUME Typed, NEW ports
    PROVE  /\ Dropped(ports) \in [Requests -> ClientStates]
           /\ \A r \in Requests :
                 Dropped(ports)[r] = IF r \in ports /\ client[r] = "waiting"
                                     THEN "closed" ELSE client[r]
BY Zenon DEF Typed, Dropped, ClientStates

\* An answer is seen by the client of the port, if it still waits.
LEMMA AnsweredPort ==
    ASSUME Typed, NEW port \in Requests \union {None}, NEW response
    PROVE  /\ Answered(port, response) \in [Requests -> ClientStates]
           /\ \A r \in Requests :
                 Answered(port, response)[r] =
                     IF r = port /\ client[r] = "waiting"
                     THEN Sees(Method[r], response) ELSE client[r]
           /\ \A r \in Requests : Sees(Method[r], response) \in {"ok", "error", "invalid"}
<1>1. \A r \in Requests : Sees(Method[r], response) \in {"ok", "error", "invalid"}
  BY RequestsConstants
  DEF Sees, Takes, CallTakes, SendTakes, RegisterProgramTakes, GetAccountTakes
<1>2. CASE port # None /\ client[port] = "waiting"
  <2>1. Answered(port, response) = [client EXCEPT ![port] = Sees(Method[port], response)]
    BY <1>2 DEF Answered
  <2>2. port \in Requests /\ Sees(Method[port], response) \in ClientStates
    BY <1>1, <1>2, Zenon DEF ClientStates
  <2> QED
    BY <1>1, <1>2, <2>1, <2>2, SMTT(60) DEF Typed
<1>3. CASE ~(port # None /\ client[port] = "waiting")
  BY <1>1, <1>3, RequestsConstants, SMTT(60) DEF Typed, Answered
<1> QED
  BY <1>2, <1>3

-----------------------------------------------------------------------------
\* The invariant when the node starts.
LEMMA InitInv == Init => IInv
<1> SUFFICES ASSUME Init PROVE IInv
    OBVIOUS
<1> USE RequestsConstants, SupervisionConstants DEF Init
<1>1. Supervised
  BY SMTT(60) DEF Supervised, SuperInit
<1>2. Typed
  BY DEF Typed, ClientStates, WorkStages
<1>3. TrueMail /\ Kept
  BY DEF TrueMail, Kept
<1>4. AnswerIsTrue
  BY DEF AnswerIsTrue
<1> QED
  BY <1>1, <1>2, <1>3, <1>4 DEF IInv

\* A supervisor waits for room in the panic channel, so it never holds more than its
\* capacity.
LEMMA SupervisedStep ==
    ASSUME Supervised, Next
    PROVE  Supervised'
<1> USE RequestsConstants, SupervisionConstants DEF Supervised
<1>1. ASSUME NEW a \in Actors, Dies(a)
      PROVE  Supervised'
  BY <1>1, SMTT(60) DEF Dies
<1>2. ASSUME NEW a \in Actors, Forward(a)
      PROVE  Supervised'
  <2>1. Head(events[a]) \in Nat /\ Tail(events[a]) \in Seq(Nat)
    BY <1>2, HeadTailProperties, SMTT(30) DEF Forward
  <2>2. channel' \in Seq(Actors \X Nat) /\ Len(channel') = Len(channel) + 1
    BY <1>2, <2>1, SMTT(30) DEF Forward
  <2>3. events' \in [Actors -> Seq(Nat)]
    BY <1>2, <2>1 DEF Forward
  <2>4. Len(channel) < Capacity /\ UNCHANGED <<status, incarnation>>
    BY <1>2 DEF Forward
  <2>5. Len(channel') <= Capacity
    BY <2>2, <2>4, SMTT(60)
  <2> QED
    BY <2>2, <2>3, <2>4, <2>5, Zenon
<1>3. CASE Supervise
  <2>1. Head(channel) \in Actors \X Nat
    BY <1>3, HeadTailProperties, SMTT(30) DEF Supervise
  <2>2. channel' \in Seq(Actors \X Nat) /\ Len(channel') <= Capacity
    BY <1>3, HeadTailProperties, SMTT(60) DEF Supervise
  <2>3. ASSUME NEW a \in Actors, Respawn(a) \/ UNCHANGED <<status, incarnation>>
        PROVE  /\ status' \in [Actors -> {"running", "stopping", "stopped"}]
               /\ incarnation' \in [Actors -> Nat]
    <3>1. CASE Respawn(a)
      <4>1. incarnation[a] + 1 \in Nat
        BY SMTT(60)
      <4> QED
        BY <3>1, <4>1 DEF Respawn
    <3> QED
      BY <2>3, <3>1
  <2>4. Head(channel)[1] \in Actors
    BY <2>1
  <2>5. Respawn(Head(channel)[1]) \/ UNCHANGED <<status, incarnation>>
    BY <1>3 DEF Supervise
  <2>6. UNCHANGED events
    BY <1>3 DEF Supervise
  <2> QED
    BY <2>2, <2>3, <2>4, <2>5, <2>6
<1>4. ASSUME NEW a \in Actors, Stop(a)
      PROVE  Supervised'
  BY <1>4 DEF Stop
<1>5. CASE UNCHANGED superVars
  BY <1>5 DEF superVars
<1>6. CASE Supervises
  BY <1>2, <1>3, <1>4, <1>6, Zenon DEF Supervises, SuperStep
<1>7. CASE RpcPanics \/ SchedulerPanics
  BY <1>1, <1>7, SMTT(30) DEF RpcPanics, RpcDies, SchedulerPanics, Panic
<1>8. CASE Handles
  BY <1>1, <1>5, <1>8, Zenon
  DEF Handles, RpcHandles, RpcDies, Schedules, GetsAccount, Answers, Ignores
<1>9. CASE \E r \in Requests : Request(r) \/ TimesOut(r) \/ Tells(r)
  BY <1>5, <1>9, Zenon DEF Request, TimesOut, Tells
<1> QED
  BY <1>6, <1>7, <1>8, <1>9, SMTT(30) DEF Next

\* The steps of the requests, one by one; supervision leaves the requests alone.
LEMMA Steps ==
    ASSUME Next
    PROVE  \/ \E r \in Requests : \/ Request(r) \/ TimesOut(r) \/ Tells(r)
                                  \/ RpcHandles(r) \/ Schedules(r) \/ GetsAccount(r)
           \/ \E m \in mail : Answers(m) \/ Ignores(m)
           \/ RpcPanics \/ SchedulerPanics
           \/ UNCHANGED reqVars
BY DEF Next, Handles, Supervises

\* The variables keep their types, and a port is kept under its transaction.
LEMMA TypedStep ==
    ASSUME Typed, Next
    PROVE  Typed'
<1> USE RequestsConstants
<1>1. ASSUME NEW r \in Requests, Request(r) \/ TimesOut(r)
      PROVE  Typed'
  <2>1. PICK s \in {"waiting", "refused", "timed out"} : client' = [client EXCEPT ![r] = s]
    BY <1>1, Zenon DEF Request, TimesOut
  <2>2. rpcMail' \subseteq rpcMail \union {r} /\ UNCHANGED <<mail, replies, work>>
    BY <1>1, Zenon DEF Request, TimesOut
  <2> QED
    BY <2>1, <2>2, Zenon DEF Typed, ClientStates
<1>2. ASSUME NEW r \in Requests, Tells(r)
      PROVE  Typed'
  <2>1. PICK o \in Outcomes(r) :
           /\ work' = [work EXCEPT ![r] = o[2]]
           /\ mail' \in {mail, mail \union {[is |-> o[1], of |-> r]}}
    BY <1>2, Zenon DEF Tells
  <2>2. [is |-> o[1], of |-> r] \in Messages /\ o[2] \in WorkStages
    BY OutcomesMay DEF Messages
  <2>3. mail' \subseteq Messages /\ work' \in [Requests -> WorkStages]
    BY <2>1, <2>2 DEF Typed
  <2> QED
    BY <1>2, <2>3 DEF Tells, Typed
<1>3. ASSUME NEW r \in Requests, RpcHandles(r)
      PROVE  Typed'
  BY <1>3, DroppedPorts, SMTT(60) DEF RpcHandles, RpcDies, Typed, Messages
<1>4. ASSUME NEW r \in Requests, Schedules(r)
      PROVE  Typed'
  <2>1. client' \in [Requests -> ClientStates]
    BY <1>4, DroppedPorts DEF Schedules
  <2>2. work' \in [Requests -> WorkStages]
    BY <1>4, ZenonT(60) DEF Schedules, Typed, WorkStages
  <2> QED
    BY <1>4, <2>1, <2>2, Zenon DEF Schedules, Typed
<1>5. ASSUME NEW r \in Requests, GetsAccount(r)
      PROVE  Typed'
  <2>1. client' \in [Requests -> ClientStates]
    BY <1>5, AnsweredPort, SMTT(60) DEF GetsAccount
  <2> QED
    BY <1>5, <2>1 DEF GetsAccount, Typed
<1>6. ASSUME NEW m \in mail, Answers(m)
      PROVE  Typed'
  <2>1. Tx[m.of] \in Txs
    BY DEF Typed, Messages
  <2>2. client' \in [Requests -> ClientStates]
    BY <1>6, <2>1, AnsweredPort DEF Answers, Typed
  <2> QED
    BY <1>6, <2>1, <2>2 DEF Answers, Typed
<1>7. ASSUME NEW m \in mail, Ignores(m)
      PROVE  Typed'
  BY <1>7 DEF Ignores, Typed
<1>8. CASE RpcPanics \/ SchedulerPanics
  BY <1>8, DroppedPorts, SMTT(60) DEF RpcPanics, RpcDies, SchedulerPanics, Typed
<1>9. CASE UNCHANGED reqVars
  BY <1>9 DEF reqVars, Typed
<1> QED
  BY <1>1, <1>2, <1>3, <1>4, <1>5, <1>6, <1>7, <1>8, <1>9, Steps

\* What the node tells the scheduler has happened, and stays so.
LEMMA TrueMailStep ==
    ASSUME Typed, TrueMail, Next
    PROVE  TrueMail'
<1> USE RequestsConstants DEF TrueMail
<1>1. ASSUME NEW r \in Requests, Tells(r)
      PROVE  TrueMail'
  <2>1. PICK o \in Outcomes(r) :
           /\ happened' = happened \union {<<Tx[r], o[1]>>}
           /\ mail' \in {mail, mail \union {[is |-> o[1], of |-> r]}}
    BY <1>1 DEF Tells
  <2>2. o[1] \in May(Method[r])
    BY OutcomesMay
  <2> QED
    BY <2>1, <2>2, SMTT(60)
<1>2. ASSUME NEW r \in Requests,
             \/ Request(r) \/ TimesOut(r) \/ RpcHandles(r) \/ Schedules(r) \/ GetsAccount(r)
      PROVE  TrueMail'
  <2>1. /\ mail' \subseteq mail \union {[is |-> "request", of |-> r]}
        /\ UNCHANGED happened
    BY <1>2, Zenon DEF Request, TimesOut, RpcHandles, Schedules, GetsAccount
  <2> QED
    BY <2>1, SMTT(60)
<1>3. ASSUME NEW m \in mail, Answers(m) \/ Ignores(m)
      PROVE  TrueMail'
  BY <1>3 DEF Answers, Ignores
<1>4. CASE RpcPanics \/ SchedulerPanics \/ UNCHANGED reqVars
  BY <1>4 DEF RpcPanics, SchedulerPanics, reqVars
<1> QED
  BY <1>1, <1>2, <1>3, <1>4, Steps

\* The port of a client that waits for the engine is in the map: it is put there in the same
\* step in which the engine is given the transaction, and is taken out only to be used or
\* dropped.
LEMMA KeptStep ==
    ASSUME Typed, Kept, Next
    PROVE  Kept'
<1> USE RequestsConstants
<1>1. ASSUME NEW r \in Requests, Request(r) \/ TimesOut(r)
      PROVE  Kept'
  <2>1. PICK s \in {"waiting", "refused", "timed out"} :
           /\ client' = [client EXCEPT ![r] = s]
           /\ s = "waiting" => client[r] = "idle"
    BY <1>1, Zenon DEF Request, TimesOut
  <2>2. rpcMail' \subseteq rpcMail \union {r} /\ UNCHANGED <<mail, replies, work>>
    BY <1>1, Zenon DEF Request, TimesOut
  <2> QED
    BY <2>1, <2>2, ZenonT(60) DEF Kept, Typed
<1>2. ASSUME NEW r \in Requests, Tells(r)
      PROVE  Kept'
  <2>1. PICK o \in Outcomes(r) :
           /\ work' = [work EXCEPT ![r] = o[2]]
           /\ mail' \in {mail, mail \union {[is |-> o[1], of |-> r]}}
    BY <1>2, Zenon DEF Tells
  <2>2. o[2] # "none" /\ work[r] # "none"
    BY OutcomesMay
  <2>3. UNCHANGED <<client, rpcMail, replies>>
    BY <1>2 DEF Tells
  <2> QED
    BY <2>1, <2>2, <2>3, SMTT(60) DEF Kept, Typed
<1>3. ASSUME NEW r \in Requests, RpcHandles(r)
      PROVE  Kept'
  <2>1. CASE Running(Scheduler)
    BY <1>3, <2>1, SMTT(60) DEF RpcHandles, Kept
  <2>2. CASE ~Running(Scheduler)
    BY <1>3, <2>2, DroppedPorts, SMTT(60) DEF RpcHandles, RpcDies, Kept
  <2> QED
    BY <2>1, <2>2
<1>4. ASSUME NEW r \in Requests, Schedules(r)
      PROVE  Kept'
  <2>1. client[r] # "idle" /\ r \in Requests
    BY <1>4 DEF Schedules, Kept
  <2>2. \A s \in Requests : client'[s] = IF s \in {replies[Tx[r]]} \ {r} /\ client[s] = "waiting"
                                         THEN "closed" ELSE client[s]
    BY <1>4, DroppedPorts DEF Schedules
  <2>3. \A s \in Requests : s # r => work'[s] = work[s]
    BY <1>4 DEF Schedules, Typed
  <2>4. work[r] # "none" => work'[r] # "none"
    BY <1>4 DEF Schedules, Typed
  <2>5. /\ replies' = [replies EXCEPT ![Tx[r]] = r] /\ Tx[r] \in Txs
        /\ mail' \subseteq mail /\ UNCHANGED rpcMail
    BY <1>4 DEF Schedules
  <2> QED
    BY <2>1, <2>2, <2>3, <2>4, <2>5, SMTT(60) DEF Kept, Typed, Messages
<1>5. ASSUME NEW r \in Requests, GetsAccount(r)
      PROVE  Kept'
  <2>1. \A s \in Requests : client'[s] = client[s] \/ client'[s] \notin {"idle", "waiting"}
    BY <1>5, AnsweredPort, SMTT(30) DEF GetsAccount
  <2> QED
    BY <1>5, <2>1 DEF GetsAccount, Kept
<1>6. ASSUME NEW m \in mail, Answers(m)
      PROVE  Kept'
  <2>1. Tx[m.of] \in Txs
    BY DEF Typed, Messages
  <2>2. \A s \in Requests :
           /\ client'[s] = client[s] \/ client'[s] \notin {"idle", "waiting"}
           /\ s = replies[Tx[m.of]] => client'[s] # "waiting"
    BY <1>6, <2>1, AnsweredPort, SMTT(60) DEF Answers, Typed
  <2> QED
    BY <1>6, <2>1, <2>2, ZenonT(60) DEF Answers, Kept, Typed
<1>7. ASSUME NEW m \in mail, Ignores(m)
      PROVE  Kept'
  BY <1>7 DEF Ignores, Kept
<1>8. CASE RpcPanics
  BY <1>8, DroppedPorts, SMTT(60) DEF RpcPanics, RpcDies, Kept
<1>9. CASE SchedulerPanics
  BY <1>9, DroppedPorts, SMTT(60) DEF SchedulerPanics, Ports, Kept
<1>10. CASE UNCHANGED reqVars
  BY <1>10 DEF reqVars, Kept
<1> QED
  BY <1>1, <1>2, <1>3, <1>4, <1>5, <1>6, <1>7, <1>8, <1>9, <1>10, Steps

\* The scheduler answers a port with what happened to its transaction, in words the method
\* of the port knows: the requests of a transaction are of one method.
LEMMA TrueStep ==
    ASSUME Typed, TrueMail, AnswerIsTrue, Next
    PROVE  AnswerIsTrue'
<1> USE RequestsConstants
<1>1. ASSUME NEW m \in mail, Answers(m), NEW r \in Requests, client'[r] # client[r]
      PROVE  /\ client'[r] \in {"ok", "error"} /\ Method[r] # "getAccount"
             /\ m.is \in DOMAIN Response /\ <<Tx[r], m.is>> \in happened
             /\ Sees(Method[r], Response[m.is]) = client'[r]
  <2>1. m.of \in Requests /\ Tx[m.of] \in Txs
    BY SMTT(30) DEF Typed, Messages
  <2>2. r = replies[Tx[m.of]] /\ client'[r] = Sees(Method[r], Response[m.is])
    BY <1>1, <2>1, AnsweredPort, SMTT(60) DEF Answers, Typed
  <2>3. Tx[r] = Tx[m.of] /\ Method[r] # "getAccount"
    BY <2>1, <2>2 DEF Typed
  <2>4. Method[r] = Method[m.of]
    BY <2>1, <2>3, OneMethod
  <2>5. m.is \in Ends /\ DOMAIN Response = Ends
    BY <1>1, Responses DEF Answers
  <2>6. m.is # "request"
    BY <2>5 DEF Ends
  <2>7. m.is \in May(Method[r]) /\ <<Tx[r], m.is>> \in happened
    BY <2>3, <2>4, <2>6 DEF TrueMail
  <2> QED
    BY <2>2, <2>3, <2>5, <2>7, Responses
<1>2. ASSUME NEW m \in mail, Answers(m)
      PROVE  AnswerIsTrue'
  <2>1. UNCHANGED happened
    BY <1>2 DEF Answers
  <2> QED
    BY <1>1, <1>2, <2>1, Zenon DEF AnswerIsTrue
<1>3. ASSUME happened \subseteq happened',
             \A r \in Requests : \/ client'[r] = client[r]
                                 \/ client'[r] \notin {"ok", "error", "invalid"}
                                 \/ Method[r] = "getAccount"
      PROVE  AnswerIsTrue'
  BY <1>3, Zenon DEF AnswerIsTrue
<1>4. ASSUME NEW r \in Requests, Request(r) \/ TimesOut(r)
      PROVE  AnswerIsTrue'
  <2>1. PICK s \in {"waiting", "refused", "timed out"} : client' = [client EXCEPT ![r] = s]
    BY <1>4, Zenon DEF Request, TimesOut
  <2>2. UNCHANGED happened
    BY <1>4, Zenon DEF Request, TimesOut
  <2> QED
    BY <1>3, <2>1, <2>2, Zenon DEF Typed
<1>5. ASSUME NEW r \in Requests, Tells(r)
      PROVE  AnswerIsTrue'
  BY <1>3, <1>5 DEF Tells
<1>6. ASSUME NEW r \in Requests, RpcHandles(r) \/ Schedules(r)
      PROVE  AnswerIsTrue'
  BY <1>3, <1>6, DroppedPorts, SMTT(60) DEF RpcHandles, RpcDies, Schedules
<1>7. ASSUME NEW r \in Requests, GetsAccount(r)
      PROVE  AnswerIsTrue'
  <2>1. \A s \in Requests : client'[s] = client[s] \/ s = r
    BY <1>7, AnsweredPort, SMTT(60) DEF GetsAccount
  <2> QED
    BY <1>3, <1>7, <2>1 DEF GetsAccount
<1>8. ASSUME NEW m \in mail, Ignores(m)
      PROVE  AnswerIsTrue'
  BY <1>3, <1>8 DEF Ignores
<1>9. CASE RpcPanics \/ SchedulerPanics
  BY <1>3, <1>9, DroppedPorts, SMTT(60) DEF RpcPanics, RpcDies, SchedulerPanics
<1>10. CASE UNCHANGED reqVars
  BY <1>3, <1>10 DEF reqVars
<1> QED
  BY <1>2, <1>4, <1>5, <1>6, <1>7, <1>8, <1>9, <1>10, Steps

-----------------------------------------------------------------------------
\* Every step keeps the invariant.
LEMMA StepInv == IInv /\ [Next]_vars => IInv'
<1> SUFFICES ASSUME IInv, [Next]_vars PROVE IInv'
    OBVIOUS
<1>1. CASE Next
  BY <1>1, SupervisedStep, TypedStep, TrueMailStep, KeptStep, TrueStep DEF IInv
<1>2. CASE UNCHANGED vars
  BY <1>2, ZenonT(60)
  DEF vars, superVars, reqVars, IInv, Supervised, Typed, TrueMail, Kept, AnswerIsTrue
<1> QED
  BY <1>1, <1>2

\* The invariant holds throughout.
LEMMA Invariance == Spec => []IInv
BY InitInv, StepInv, PTL DEF Spec

\* The variables have their types, no panic channel holds more than its capacity, and the
\* scheduler keeps a port under the transaction it is of.
THEOREM RequestsTypeOK == Spec => []TypeOK
<1>1. IInv => TypeOK
  BY Zenon DEF IInv, Supervised, Typed, ClientStates, Messages, TypeOK
<1> QED
  BY <1>1, Invariance, PTL

\* A client is told by handle_actor_response only what happened to its transaction, however
\* often the transaction was sent and whatever actors panicked.
THEOREM AnswersAreTrue == Spec => []AnswerIsTrue
BY Invariance, PTL DEF IInv

\* When the scheduler takes from its mailbox what ends a request, or loses it in a panic, the
\* client of the request waits no more.
THEOREM AnswersReachClients == Spec => AnswerReachesClient
<1> DEFINE Reaches == \A m \in mail \ mail' : m.is \in DOMAIN Response => client'[m.of] # "waiting"
<1>1. ASSUME IInv, Next PROVE Reaches
  <2> SUFFICES ASSUME NEW m \in mail \ mail', m.is \in DOMAIN Response
               PROVE  client'[m.of] # "waiting"
    OBVIOUS
  <2>1. m.is \in Ends /\ m.is \notin {"request", "RegistrationFailure"}
    BY Responses DEF Ends
  <2>2. m.of \in Requests /\ Tx[m.of] \in Txs
    BY <1>1, RequestsConstants DEF IInv, Typed, Messages
  <2>3. client[m.of] = "waiting" => replies[Tx[m.of]] = m.of
    BY <1>1, <2>1, <2>2 DEF IInv, Kept
  <2>4. Answers(m) \/ SchedulerPanics
    <3>1. ASSUME NEW r \in Requests
          PROVE  ~(\/ Request(r) \/ TimesOut(r) \/ Tells(r)
                   \/ RpcHandles(r) \/ Schedules(r) \/ GetsAccount(r))
      <4>1. m # [is |-> "request", of |-> r]
        BY <2>1
      <4>2. ~(Request(r) \/ TimesOut(r))
        BY Zenon DEF Request, TimesOut
      <4>3. ~(Tells(r) \/ RpcHandles(r))
        BY DEF Tells, RpcHandles
      <4>4. ~(Schedules(r) \/ GetsAccount(r))
        BY <4>1 DEF Schedules, GetsAccount
      <4> QED
        BY <4>2, <4>3, <4>4
    <3>2. ASSUME NEW n \in mail, Answers(n) \/ Ignores(n)
          PROVE  Answers(m)
      BY <2>1, <3>2 DEF Answers, Ignores
    <3>3. ~RpcPanics /\ ~UNCHANGED reqVars
      BY ZenonT(60) DEF RpcPanics, reqVars
    <3> QED
      BY <1>1, <3>1, <3>2, <3>3, Steps
  <2>5. CASE Answers(m)
    BY <1>1, <2>2, <2>3, <2>5, AnsweredPort, SMTT(30) DEF IInv, Typed, Answers
  <2>6. CASE SchedulerPanics
    BY <1>1, <2>2, <2>3, <2>6, DroppedPorts, SMTT(60) DEF IInv, SchedulerPanics, Ports
  <2> QED
    BY <2>4, <2>5, <2>6
<1>2. IInv /\ [Next]_vars => [Reaches]_vars
  BY <1>1
<1> QED
  BY <1>2, Invariance, PTL DEF Spec, AnswerReachesClient
=============================================================================
