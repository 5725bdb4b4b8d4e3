------------------------------ MODULE Requests ------------------------------
(***************************************************************************)
(* How a client's request gets an answer: the methods of the RPC server,   *)
(* the RPC actor, the scheduler with its map of reply ports, and what the  *)
(* rest of the node tells the scheduler, on actors that panic and are      *)
(* respawned (crates/actors/src/rpc_server.rs, scheduler.rs, helpers.rs).  *)
(*                                                                         *)
(* A reply port is the sending end of a oneshot channel: a client whose    *)
(* port is dropped sees its channel closed.                                *)
(***************************************************************************)
EXTENDS Supervision, FiniteSets

CONSTANTS Requests,     \* requests of clients
          Method,       \* the method of each
          Tx,           \* the transaction of each: two may be of one transaction
          Txs,
          Rpc, Scheduler,   \* actors
          MaxRequests,  \* bound: requests made
          None

ASSUME RequestsConstants ==
    /\ {Rpc, Scheduler} \subseteq Actors
    /\ Method \in [Requests -> {"call", "send", "registerProgram", "getAccount"}]
    /\ Tx \in [Requests -> Txs]
    /\ MaxRequests \in Nat
    /\ None \notin Requests

\* A transaction is sent by the method of its type, which its hash covers. The server does
\* not check this.
ASSUME OneMethod == \A r, s \in Requests : Tx[r] = Tx[s] => Method[r] = Method[s]

VARIABLES client,    \* what each client sees
          rpcMail,   \* requests in the mailbox of the RPC actor
          mail,      \* the mailbox of the scheduler
          replies,   \* its reply map
          work,      \* where the rest of the node is with each request
          happened   \* history: what became of each transaction

reqVars == <<client, rpcMail, mail, replies, work, happened>>
vars == <<superVars, reqVars>>

Init ==
    /\ SuperInit
    /\ client = [r \in Requests |-> "idle"]
    /\ rpcMail = {}
    /\ mail = {}
    /\ replies = [t \in Txs |-> None]
    /\ work = [r \in Requests |-> "none"]
    /\ happened = {}

Made == {r \in Requests : client[r] # "idle"}

\* Whoever still waits for one of these ports finds the channel closed.
Dropped(ports) ==
    [r \in Requests |-> IF r \in ports /\ client[r] = "waiting" THEN "closed" ELSE client[r]]
Ports == {replies[t] : t \in Txs} \union {m.of : m \in {n \in mail : n.is = "request"}}

-----------------------------------------------------------------------------
(* The client's side: LasrRpcServerImpl *)

\* A method casts the request to the RPC actor main started, whatever became of it.
Request(r) ==
    /\ client[r] = "idle"
    /\ Cardinality(Made) < MaxRequests
    /\ IF Running(Rpc) /\ incarnation[Rpc] = 0
       THEN /\ client' = [client EXCEPT ![r] = "waiting"]
            /\ rpcMail' = rpcMail \union {r}
       ELSE /\ client' = [client EXCEPT ![r] = "refused"]
            /\ UNCHANGED rpcMail
    /\ UNCHANGED <<superVars, mail, replies, work, happened>>

NeverTimesOut(r) == FALSE /\ UNCHANGED vars
\* handle_actor_response: fifteen seconds are over.
TimesOut(r) ==
    /\ client[r] = "waiting"
    /\ client' = [client EXCEPT ![r] = "timed out"]
    /\ UNCHANGED <<superVars, rpcMail, mail, replies, work, happened>>

\* What each method makes of the response it gets.
Takes(response, wanted, errors) ==
    IF response \in wanted THEN "ok" ELSE IF response \in errors THEN "error" ELSE "invalid"
CallTakes(response) == Takes(response, {"AsyncCall", "Call"}, {"TransactionError"})
SendTakes(response) == Takes(response, {"Send"}, {"TransactionError"})
RegisterProgramTakes(response) == Takes(response, {"RegisterProgram"}, {"TransactionError"})
GetAccountTakes(response) == Takes(response, {"GetAccount"}, {})

Sees(method, response) ==
    CASE method = "call" -> CallTakes(response)
      [] method = "send" -> SendTakes(response)
      [] method = "registerProgram" -> RegisterProgramTakes(response)
      [] method = "getAccount" -> GetAccountTakes(response)

\* The port is used up; a client that gave up hears nothing.
Answered(r, response) ==
    IF r # None /\ client[r] = "waiting"
    THEN [client EXCEPT ![r] = Sees(Method[r], response)] ELSE client

-----------------------------------------------------------------------------
(* The RPC actor *)

RpcDies == Dies(Rpc) /\ rpcMail' = {} /\ client' = Dropped(rpcMail)

\* handle_request_method: without a scheduler the handler fails, and the actor with it.
RpcHandles(r) ==
    /\ r \in rpcMail /\ Running(Rpc)
    /\ IF Running(Scheduler)
       THEN /\ mail' = mail \union {[is |-> "request", of |-> r]}
            /\ rpcMail' = rpcMail \ {r}
            /\ UNCHANGED <<superVars, client>>
       ELSE RpcDies /\ UNCHANGED <<panics, mail>>
    /\ UNCHANGED <<replies, work, happened>>

-----------------------------------------------------------------------------
(* The scheduler *)

SchedulesLater(r) ==
    LET m == [is |-> "request", of |-> r] IN
    /\ m \in mail /\ Running(Scheduler) /\ Method[r] # "getAccount"
    /\ \/ /\ work[r] = "none"
          /\ work' = [work EXCEPT ![r] = "new"]
          /\ UNCHANGED <<mail, client, replies>>
       \/ /\ work[r] # "none"
          /\ mail' = mail \ {m}
          /\ client' = Dropped({replies[Tx[r]]} \ {r})
          /\ replies' = [replies EXCEPT ![Tx[r]] = r]
          /\ UNCHANGED work
    /\ UNCHANGED <<superVars, rpcMail, happened>>
\* Call, Send, RegisterProgram: the transaction goes to the engine, if one runs, and the
\* port into the map, in place of the port of an earlier request of the transaction.
Schedules(r) ==
    LET m == [is |-> "request", of |-> r] IN
    /\ m \in mail /\ Running(Scheduler) /\ Method[r] # "getAccount"
    /\ mail' = mail \ {m}
    /\ \/ work' = [work EXCEPT ![r] = "new"]
       \/ UNCHANGED work
    /\ client' = Dropped({replies[Tx[r]]} \ {r})
    /\ replies' = [replies EXCEPT ![Tx[r]] = r]
    /\ UNCHANGED <<superVars, rpcMail, happened>>

\* GetAccount is answered with the account, or with an error.
GetsAccount(r) ==
    LET m == [is |-> "request", of |-> r] IN
    /\ m \in mail /\ Running(Scheduler) /\ Method[r] = "getAccount"
    /\ mail' = mail \ {m}
    /\ \E response \in {"GetAccount", "Err"} : client' = Answered(r, response)
    /\ UNCHANGED <<superVars, rpcMail, replies, work, happened>>

\* The messages that end a request, and the response each becomes.
Response == [TransactionApplied |-> "Send", SendTransactionFailure |-> "TransactionError",
             RegistrationSuccess |-> "RegisterProgram",
             CallTransactionAsyncPending |-> "AsyncCall", CallTransactionApplied |-> "Call",
             CallTransactionFailure |-> "TransactionError"]

AnswersAnyone(m) ==
    /\ m \in mail /\ Running(Scheduler) /\ m.is \in DOMAIN Response
    /\ mail' = mail \ {m}
    /\ \E t \in Txs : /\ client' = Answered(replies[t], Response[m.is])
                      /\ replies' = [replies EXCEPT ![t] = None]
    /\ UNCHANGED <<superVars, rpcMail, work, happened>>
\* The port of the transaction is removed from the map and used.
Answers(m) ==
    /\ m \in mail /\ Running(Scheduler) /\ m.is \in DOMAIN Response
    /\ mail' = mail \ {m}
    /\ client' = Answered(replies[Tx[m.of]], Response[m.is])
    /\ replies' = [replies EXCEPT ![Tx[m.of]] = None]
    /\ UNCHANGED <<superVars, rpcMail, work, happened>>

\* RegistrationFailure is not matched.
Ignores(m) ==
    /\ m \in mail /\ Running(Scheduler) /\ m.is = "RegistrationFailure"
    /\ mail' = mail \ {m}
    /\ UNCHANGED <<superVars, client, rpcMail, replies, work, happened>>

-----------------------------------------------------------------------------
(* The rest of the node: what each request may come to, from where it stands. A panic or a *)
(* failed read may end the work on it without a word. A registration without a deployer is *)
(* reported twice, by the batcher and by the task that polls it.                           *)

Outcomes(r) ==
    CASE Method[r] = "send" /\ work[r] = "new" ->
            {<<"TransactionApplied", "done">>, <<"SendTransactionFailure", "done">>}
      [] Method[r] = "call" /\ work[r] = "new" ->
            {<<"CallTransactionAsyncPending", "pending">>, <<"CallTransactionFailure", "done">>}
      [] Method[r] = "call" /\ work[r] = "pending" ->
            {<<"CallTransactionApplied", "done">>, <<"CallTransactionFailure", "done">>,
             <<"SendTransactionFailure", "done">>}
      [] Method[r] = "registerProgram" /\ work[r] = "new" ->
            {<<"RegistrationSuccess", "done">>, <<"RegistrationFailure", "pending">>,
             <<"CallTransactionFailure", "refused">>, <<"SendTransactionFailure", "done">>}
      [] Method[r] = "registerProgram" /\ work[r] = "pending" ->
            {<<"RegistrationSuccess", "done">>, <<"CallTransactionFailure", "refused">>,
             <<"SendTransactionFailure", "done">>}
      [] Method[r] = "registerProgram" /\ work[r] = "refused" ->
            {<<"SendTransactionFailure", "done">>}
      [] OTHER -> {}

\* A message to a scheduler that does not run is lost.
Tells(r) ==
    /\ \E o \in Outcomes(r) :
          /\ work' = [work EXCEPT ![r] = o[2]]
          /\ happened' = happened \union {<<Tx[r], o[1]>>}
          /\ mail' = IF Running(Scheduler) THEN mail \union {[is |-> o[1], of |-> r]} ELSE mail
    /\ UNCHANGED <<superVars, client, rpcMail, replies>>

-----------------------------------------------------------------------------
(* Panics *)

RpcPanics ==
    /\ panics < MaxPanics /\ panics' = panics + 1 /\ RpcDies
    /\ UNCHANGED <<mail, replies, work, happened>>

\* The mailbox and the map of the scheduler go with it.
SchedulerPanics ==
    /\ Panic(Scheduler)
    /\ mail' = {}
    /\ replies' = [t \in Txs |-> None]
    /\ client' = Dropped(Ports)
    /\ UNCHANGED <<rpcMail, work, happened>>

Handles == \/ \E r \in Requests : RpcHandles(r) \/ Schedules(r) \/ GetsAccount(r)
           \/ \E m \in mail : Answers(m) \/ Ignores(m)
Supervises == SuperStep /\ UNCHANGED reqVars

Next == \/ \E r \in Requests : Request(r) \/ TimesOut(r) \/ Tells(r)
        \/ Handles \/ Supervises
        \/ RpcPanics \/ SchedulerPanics

\* Time passes, actors handle their mail, supervision goes on. That the node ever tells
\* the scheduler anything is not assumed.
Fairness == /\ WF_vars(\E r \in Requests : TimesOut(r))
            /\ WF_vars(Handles) /\ WF_vars(Supervises)

Spec == Init /\ [][Next]_vars
FairSpec == Spec /\ Fairness

-----------------------------------------------------------------------------
\* Types; a port in the map is of the transaction it is kept under.
TypeOK ==
    /\ status \in [Actors -> {"running", "stopping", "stopped"}]
    /\ Len(channel) <= Capacity
    /\ client \in [Requests -> {"idle", "waiting", "ok", "error", "invalid", "closed",
                                "timed out", "refused"}]
    /\ rpcMail \subseteq Requests
    /\ \A m \in mail : m.of \in Requests
    /\ \A t \in Txs : replies[t] # None => Tx[replies[t]] = t

\* What a client is told of its transaction is true of it, also when the transaction was
\* sent twice and one port took the place of the other: a success or a failure that did
\* happen, and never a response its method does not know, but for a failed getAccount.
AnswerIsTrue ==
    \A r \in Requests :
        /\ client[r] \in {"ok", "error"} /\ Method[r] # "getAccount" =>
              \E o \in DOMAIN Response :
                  <<Tx[r], o>> \in happened /\ Sees(Method[r], Response[o]) = client[r]
        /\ client[r] = "invalid" => Method[r] = "getAccount"

\* When the scheduler has handled what the node says of a request, the client of that
\* request waits no more: its port was in the map, though the engine was given the
\* transaction before the port was put there.
AnswerReachesClient ==
    [][\A m \in mail \ mail' : m.is \in DOMAIN Response => client'[m.of] # "waiting"]_vars

\* Every client returns, also when its answer or its port is lost, an actor is gone for
\* good, or the answer is one that the scheduler ignores.
EveryRequestReturns == <>[](\A r \in Requests : client[r] # "waiting")
=============================================================================
