----------------------------- MODULE PipelineProofs -----------------------------
(* Proofs about Pipeline, for every set of accounts and transactions and any number *)
(* of late reads. *)
EXTENDS Pipeline, TLAPS

USE ZenonT(2), SMTT(60), ZenonT(60)

NoQueue == [a \in Accounts |-> <<>>]
NoDependents == [t \in Txs |-> {}]
JobType == [at : Stages, held : Account \union {None}, writes : [Accounts -> Account \union {None}]]

\* The graph holds vertices only: no transaction is ever queued behind another.
Inert == graph = [vertices |-> graph.vertices, index |-> NoQueue, dependents |-> NoDependents]

Base == TypeOK /\ Inert

\* An empty queue holds nothing, and nothing is removed from it.
LEMMA EmptyQueue == Queued(<<>>) = {} /\ \A t : Without(<<>>, t) = <<>>
<1>1. DOMAIN <<>> = {}
  OBVIOUS
<1>2. Queued(<<>>) = {}
  BY <1>1, Zenon DEF Queued
<1>3. QED
  BY <1>2, Zenon DEF Without

\* add_transaction on a graph without queues finds no dependency: it schedules the
\* transaction at once and queues nothing.
LEMMA AddSchedules ==
  ASSUME NEW g, NEW V \in SUBSET Txs, NEW t \in Txs, NEW first \in AccountsInvolved(t),
         g = [vertices |-> V, index |-> NoQueue, dependents |-> NoDependents]
  PROVE  AddTransaction(g, t, first) =
            [graph |-> [vertices |-> V \union {t}, index |-> NoQueue, dependents |-> NoDependents],
             ready |-> {t}]
<1>1. AccountsInvolved(t) \subseteq Accounts
  BY PipelineConstants DEF Transaction, AccountsInvolved
<1>2. \A a \in Accounts : Dependencies(g, a) = {}
  <2>1. \A a \in Accounts : g.index[a] = <<>>
    BY Zenon DEF NoQueue
  <2>2. QED
    BY <2>1, EmptyQueue, Zenon DEF Dependencies
<1>3. Depends(g, t, first) = {}
  BY <1>1, <1>2 DEF Depends
<1>4. UNION {Dependencies(g, a) : a \in AccountsInvolved(t)} = {}
  BY <1>1, <1>2
<1>5. QED
  BY <1>3, <1>4, Zenon DEF AddTransaction, NoQueue, NoDependents

\* handle_valid and handle_invalid on such a graph schedule nothing.
LEMMA VerdictSchedulesNothing ==
  ASSUME NEW g, NEW V \in SUBSET Txs, NEW t \in Txs,
         g = [vertices |-> V, index |-> NoQueue, dependents |-> NoDependents]
  PROVE  HandleVerdict(g, t) =
            [graph |-> [vertices |-> V \ {t}, index |-> NoQueue, dependents |-> NoDependents],
             ready |-> {}]
<1>1. \A a \in Accounts : Without(g.index[a], t) = <<>>
  <2>1. \A a \in Accounts : g.index[a] = <<>>
    BY Zenon DEF NoQueue
  <2>2. QED
    BY <2>1, EmptyQueue, Zenon
<1>2. CASE t \notin V
  BY <1>2 DEF HandleVerdict
<1>3. CASE t \in V
  <2>1. {d \in V \ {t} : g.dependents[d] = {t}} = {}
    BY DEF NoDependents
  <2>2. QED
    BY <1>1, <1>3, <2>1, Zenon DEF HandleVerdict, NoQueue, NoDependents
<1>4. QED
  BY <1>2, <1>3

\* clean_graph on such a graph schedules nothing.
LEMMA CleanSchedulesNothing ==
  ASSUME NEW g, NEW V \in SUBSET Txs, NEW t \in Txs,
         g = [vertices |-> V, index |-> NoQueue, dependents |-> NoDependents]
  PROVE  CleanVertex(g, t) =
            [graph |-> [vertices |-> V \ {t}, index |-> NoQueue, dependents |-> NoDependents],
             ready |-> {}]
<1> DEFINE deps == g.dependents[t] \intersect (g.vertices \ {t})
           touched == UNION {AccountsInvolved(d) : d \in deps}
           index == [a \in Accounts |-> IF a \in touched THEN Without(g.index[a], t) ELSE g.index[a]]
<1>1. deps = {}
  BY DEF NoDependents
<1>2. touched = {}
  BY <1>1
<1>3. index = NoQueue
  BY <1>2 DEF NoQueue
<1>4. CleanVertex(g, t) = [graph |-> [vertices |-> g.vertices \ {t}, index |-> index,
                                     dependents |-> g.dependents],
                          ready |-> {d \in deps : \A a \in AccountsInvolved(d) :
                                        index[a] # <<>> => Head(index[a]) = d}]
  BY Zenon DEF CleanVertex
<1> HIDE DEF index, deps
<1>5. {d \in deps : \A a \in AccountsInvolved(d) : index[a] # <<>> => Head(index[a]) = d} = {}
  BY <1>1
<1>6. QED
  BY <1>3, <1>4, <1>5, Zenon
-----------------------------------------------------------------------------
\* The records and accounts the actions build have their types; a subtraction that does
\* not panic leaves a balance.
LEMMA JobIsTyped == \A at \in Stages : Job(at) \in JobType
  BY DEF Job, JobType, NoWrites

\* apply_send leaves an account, unless it panics.
LEMMA ApplySendIsTyped ==
  ASSUME NEW account \in Account, NEW t \in Txs, NEW me, ~ApplySendPanics(account, t, me)
  PROVE  ApplySend(account, t, me) \in Account
<1>1. t.value \in Nat /\ t.type \in {"Send", "BridgeIn"}
  BY PipelineConstants DEF Transaction
<1>2. CASE account.token = None
  BY <1>1, <1>2 DEF ApplySend, Account
<1>3. CASE account.token # None
  <2> DEFINE change == CASE t.type = "BridgeIn" \/ me # t.from -> t.value
                         [] t.type = "Send" /\ me = t.from /\ t.from = t.to -> 0
                         [] t.type = "Send" /\ me = t.from /\ t.from # t.to -> -t.value
  <2>1. account.token \in Nat
    BY <1>3 DEF Account
  <2>2. account.token + change \in Nat
    BY <1>1, <1>3, <2>1 DEF ApplySendPanics
  <2>3. ApplySend(account, t, me) = [account EXCEPT !.token = account.token + change]
    BY <1>3, Zenon DEF ApplySend
  <2> HIDE DEF change
  <2>4. QED
    BY <2>2, <2>3 DEF Account
<1>4. QED
  BY <1>2, <1>3

\* The account that apply_send is called on is an account.
LEMMA SenderIsTyped ==
  ASSUME TypeOK, NEW t \in Txs
  PROVE  /\ Sender(t) \in Account
         /\ job[t].held # None => Sender(t).token = job[t].held.token
<1>1. FreshAccount \in Account
  BY DEF FreshAccount, Account
<1>2. job[t].held \in Account \union {None}
  BY DEF TypeOK
<1>3. QED
  BY <1>1, <1>2, SMTT(60) DEF Sender, Account
-----------------------------------------------------------------------------
\* What the actions of the pending transactions actor do when no transaction is queued.
LEMMA PendingSteps ==
  ASSUME Base, NEW t \in Txs
  PROVE  /\ New(t) => /\ job' = [job EXCEPT ![t] = Job("to validator")]
                      /\ graph' = [vertices |-> graph.vertices \union {t}, index |-> NoQueue,
                                   dependents |-> NoDependents]
         /\ Verdict(t) => /\ job' = [job EXCEPT ![t] = Job("idle")]
                          /\ graph' = [vertices |-> graph.vertices \ {t}, index |-> NoQueue,
                                       dependents |-> NoDependents]
         /\ CleanGraph(t) => /\ job' = job
                             /\ graph' = [vertices |-> graph.vertices \ {t}, index |-> NoQueue,
                                          dependents |-> NoDependents]
<1>1. graph.vertices \in SUBSET Txs
  BY DEF Base, TypeOK, Graph
<1>2. graph = [vertices |-> graph.vertices, index |-> NoQueue, dependents |-> NoDependents]
  BY DEF Base, Inert
<1>3. job \in [Txs -> JobType]
  BY DEF Base, TypeOK, JobType
<1>4. ASSUME New(t)
      PROVE  /\ job' = [job EXCEPT ![t] = Job("to validator")]
             /\ graph' = [vertices |-> graph.vertices \union {t}, index |-> NoQueue,
                          dependents |-> NoDependents]
  <2>1. PICK first \in AccountsInvolved(t) :
           Schedule(AddTransaction(graph, t, first), [job EXCEPT ![t] = Job("waiting")])
    BY <1>4 DEF New
  <2>2. AddTransaction(graph, t, first) =
          [graph |-> [vertices |-> graph.vertices \union {t}, index |-> NoQueue,
                      dependents |-> NoDependents],
           ready |-> {t}]
    BY <1>1, <1>2, AddSchedules, SMTT(60)
  <2> DEFINE result == AddTransaction(graph, t, first)
  <2>3. /\ graph' = result.graph
        /\ job' = [u \in Txs |-> IF u \in result.ready THEN Job("to validator")
                                 ELSE [job EXCEPT ![t] = Job("waiting")][u]]
    BY <2>1, Zenon DEF Schedule
  <2>4. /\ result.graph = [vertices |-> graph.vertices \union {t}, index |-> NoQueue,
                            dependents |-> NoDependents]
        /\ result.ready = {t}
    BY <2>2
  <2> HIDE DEF result
  <2>5. job' = [job EXCEPT ![t] = Job("to validator")]
    BY <1>3, <2>3, <2>4, Zenon
  <2>6. QED
    BY <2>3, <2>4, <2>5, Zenon
<1>5. ASSUME Verdict(t)
      PROVE  /\ job' = [job EXCEPT ![t] = Job("idle")]
             /\ graph' = [vertices |-> graph.vertices \ {t}, index |-> NoQueue,
                          dependents |-> NoDependents]
  <2>1. HandleVerdict(graph, t) =
          [graph |-> [vertices |-> graph.vertices \ {t}, index |-> NoQueue,
                      dependents |-> NoDependents],
           ready |-> {}]
    BY <1>1, <1>2, VerdictSchedulesNothing, SMTT(60)
  <2>2. Schedule(HandleVerdict(graph, t), [job EXCEPT ![t] = Job("idle")])
    BY <1>5 DEF Verdict
  <2> DEFINE result == HandleVerdict(graph, t)
  <2>3. /\ graph' = result.graph
        /\ job' = [u \in Txs |-> IF u \in result.ready THEN Job("to validator")
                                 ELSE [job EXCEPT ![t] = Job("idle")][u]]
    BY <2>2, Zenon DEF Schedule
  <2>4. /\ result.graph = [vertices |-> graph.vertices \ {t}, index |-> NoQueue,
                            dependents |-> NoDependents]
        /\ result.ready = {}
    BY <2>1
  <2> HIDE DEF result
  <2>5. job' = [job EXCEPT ![t] = Job("idle")]
    BY <1>3, <2>3, <2>4, Zenon
  <2>6. QED
    BY <2>3, <2>4, <2>5, Zenon
<1>6. ASSUME CleanGraph(t)
      PROVE  /\ job' = job
             /\ graph' = [vertices |-> graph.vertices \ {t}, index |-> NoQueue,
                          dependents |-> NoDependents]
  <2>1. CleanVertex(graph, t) =
          [graph |-> [vertices |-> graph.vertices \ {t}, index |-> NoQueue,
                      dependents |-> NoDependents],
           ready |-> {}]
    BY <1>1, <1>2, CleanSchedulesNothing, SMTT(60)
  <2>2. QED
    BY <1>3, <1>6, <2>1 DEF CleanGraph, Schedule
<1>7. QED
  BY <1>4, <1>5, <1>6, Zenon

-----------------------------------------------------------------------------
\* At the start, with nothing queued.
LEMMA BaseInit == Init => Base
<1> SUFFICES ASSUME Init PROVE Base
  OBVIOUS
<1>1. graph = [vertices |-> {}, index |-> NoQueue, dependents |-> NoDependents]
  BY DEF Init, NewGraph, NoQueue, NoDependents
<1>2. Inert /\ graph \in Graph
  BY <1>1 DEF Inert, Graph, NoQueue, NoDependents
<1>3. job \in [Txs -> JobType]
  <2>1. Job("idle") \in JobType
    BY JobIsTyped, Zenon DEF Stages
  <2>2. QED
    BY <2>1 DEF Init
<1>4. QED
  BY <1>2, <1>3, PipelineConstants, SMTT(60) DEF Base, TypeOK, JobType, Init

\* An answer of the cache is an account or None, and late answers stay within the bound.
LEMMA ReadIsTyped ==
  ASSUME TypeOK, NEW a \in Accounts, NEW answer \in {cache[a], None}, Read(a, answer)
  PROVE  answer \in Account \union {None} /\ faults' \in 0..MaxFaults
<1>1. MaxFaults \in Nat
  BY PipelineConstants
<1>2. QED
  BY <1>1, SMTT(60) DEF TypeOK, Read, CacheRead

\* The types, and that no transaction is queued, are preserved by every step.
LEMMA BaseStep == Base /\ [Next]_vars => Base'
<1> SUFFICES ASSUME Base, [Next]_vars PROVE Base'
  OBVIOUS
<1>1. TypeOK /\ Inert
  BY DEF Base
<1>2. job \in [Txs -> JobType] /\ graph.vertices \subseteq Txs
  BY <1>1 DEF TypeOK, JobType, Graph
<1> DEFINE Rest == /\ seen' \subseteq Txs
                   /\ cache' \in [Accounts -> Account \union {None}]
                   /\ polled' \in {None, "validator", "batcher"}
                   /\ alive' \in BOOLEAN
                   /\ told' \in [Txs -> {"none", "applied", "failed"}]
                   /\ applied' \subseteq Txs
                   /\ faults' \in 0..MaxFaults
<1>3. ASSUME NEW V \in SUBSET Txs,
             graph' = [vertices |-> V, index |-> NoQueue, dependents |-> NoDependents]
      PROVE  Inert' /\ graph' \in Graph
  BY <1>3, SMTT(60) DEF Inert, Graph, NoQueue, NoDependents
<1>4. ASSUME Inert', graph' \in Graph, job' \in [Txs -> JobType], Rest
      PROVE  Base'
  BY <1>4 DEF Base, TypeOK, JobType
<1>5. ASSUME graph' = graph, job' \in [Txs -> JobType], Rest
      PROVE  Base'
  <2>1. Inert' /\ graph' \in Graph
    BY <1>1, <1>5 DEF Inert, TypeOK
  <2>2. QED
    BY <1>4, <1>5, <2>1
<1>6. ASSUME NEW t \in Txs, NEW j \in JobType, graph' = graph, job' = [job EXCEPT ![t] = j], Rest
      PROVE  Base'
  <2>1. job' \in [Txs -> JobType]
    BY <1>2, <1>6
  <2>2. QED
    BY <1>5, <1>6, <2>1
<1>7. ASSUME NEW t \in Txs, NEW at \in Stages, graph' = graph,
             job' = [job EXCEPT ![t] = Job(at)], Rest
      PROVE  Base'
  BY <1>6, <1>7, JobIsTyped, Zenon
<1>8. ASSUME UNCHANGED vars
      PROVE  Base'
  BY <1>1, <1>2, <1>5, <1>8 DEF vars, TypeOK
<1>9. ASSUME Polls
      PROVE  Base'
  BY <1>1, <1>2, <1>5, <1>9 DEF Polls, Poll, TypeOK
<1>10. ASSUME NEW t \in Txs, New(t)
       PROVE  Base'
  <2>1. /\ job' = [job EXCEPT ![t] = Job("to validator")]
        /\ graph' = [vertices |-> graph.vertices \union {t}, index |-> NoQueue,
                     dependents |-> NoDependents]
    BY <1>10, PendingSteps, Zenon
  <2>2. Job("to validator") \in JobType
    BY JobIsTyped, Zenon DEF Stages
  <2>3. job' \in [Txs -> JobType]
    BY <1>2, <2>1, <2>2, Zenon
  <2>4. Inert' /\ graph' \in Graph
    BY <1>2, <1>3, <2>1, ZenonT(60)
  <2>5. Rest
    BY <1>1, <1>10 DEF New, TypeOK
  <2>6. QED
    BY <1>4, <2>3, <2>4, <2>5
<1>11. ASSUME NEW t \in Txs, Verdict(t)
       PROVE  Base'
  <2>1. /\ job' = [job EXCEPT ![t] = Job("idle")]
        /\ graph' = [vertices |-> graph.vertices \ {t}, index |-> NoQueue,
                     dependents |-> NoDependents]
    BY <1>11, PendingSteps, Zenon
  <2>2. Job("idle") \in JobType
    BY JobIsTyped, Zenon DEF Stages
  <2>3. job' \in [Txs -> JobType]
    BY <1>2, <2>1, <2>2
  <2>4. Inert' /\ graph' \in Graph
    BY <1>2, <1>3, <2>1
  <2>5. Rest
    BY <1>1, <1>11 DEF Verdict, TypeOK
  <2>6. QED
    BY <1>4, <2>3, <2>4, <2>5
<1>12. ASSUME NEW t \in Txs, CleanGraph(t)
       PROVE  Base'
  <2>1. /\ job' = job
        /\ graph' = [vertices |-> graph.vertices \ {t}, index |-> NoQueue,
                     dependents |-> NoDependents]
    BY <1>12, PendingSteps, Zenon
  <2>2. Inert' /\ graph' \in Graph
    BY <1>2, <1>3, <2>1
  <2>3. Rest
    BY <1>1, <1>12 DEF CleanGraph, TypeOK
  <2>4. QED
    BY <1>2, <1>4, <2>1, <2>2, <2>3
<1>13. ASSUME NEW t \in Txs, ValidatorPush(t)
       PROVE  Base'
  <2>1. Rest
    BY <1>1, <1>13, Zenon DEF ValidatorPush, TypeOK
  <2>2. QED
    BY <1>7, <1>13, <2>1, Zenon DEF ValidatorPush, Stages
<1>14. ASSUME NEW t \in Txs, ValidatorRead(t)
       PROVE  Base'
  <2>1. t.from \in Accounts
    BY PipelineConstants DEF Transaction
  <2>2. PICK answer \in {cache[t.from], None} :
           /\ Read(t.from, answer)
           /\ job' = [job EXCEPT ![t] = [Job("read") EXCEPT !.held = answer]]
    BY <1>14, Zenon DEF ValidatorRead
  <2>3. answer \in Account \union {None} /\ faults' \in 0..MaxFaults
    BY <1>1, <2>1, <2>2, ReadIsTyped
  <2>4. [Job("read") EXCEPT !.held = answer] \in JobType
    BY <2>3, JobIsTyped, Zenon DEF JobType, Stages
  <2>5. Rest
    BY <1>1, <1>14, <2>3 DEF ValidatorRead, TypeOK
  <2>6. graph' = graph
    BY <1>14 DEF ValidatorRead
  <2>7. QED
    BY <1>6, <2>2, <2>4, <2>5, <2>6, Zenon
<1>15. ASSUME NEW t \in Txs, PendingTransaction(t)
       PROVE  Base'
  <2>1. Rest /\ graph' = graph
    BY <1>1, <1>15 DEF PendingTransaction, TypeOK
  <2>2. CASE t.type = "Send" /\ job[t].held = None
    BY <1>7, <1>15, <2>1, <2>2, Zenon DEF PendingTransaction, Stages
  <2>3. CASE ~(t.type = "Send" /\ job[t].held = None)
    <3>1. job' = [job EXCEPT ![t].at = "checking"]
      BY <1>15, <2>3 DEF PendingTransaction
    <3>2. job' \in [Txs -> JobType]
      BY <1>2, <3>1, ZenonT(60) DEF JobType, Stages
    <3>3. QED
      BY <1>5, <2>1, <3>2
  <2>4. QED
    BY <2>2, <2>3
<1>16. ASSUME NEW t \in Txs, Validate(t)
       PROVE  Base'
  <2>1. Rest /\ graph' = graph
    BY <1>1, <1>16, Zenon DEF Validate, TypeOK
  <2>2. \/ job' = [job EXCEPT ![t] = Job("to batcher")]
        \/ job' = [job EXCEPT ![t] = Job("invalid")]
    BY <1>16, Zenon DEF Validate
  <2>3. QED
    BY <1>7, <2>1, <2>2, Zenon DEF Stages
<1>17. ASSUME NEW t \in Txs, BatcherPush(t)
       PROVE  Base'
  <2>1. Rest
    BY <1>1, <1>17, Zenon DEF BatcherPush, TypeOK
  <2>2. QED
    BY <1>7, <1>17, <2>1, Zenon DEF BatcherPush, Stages
<1>18. ASSUME NEW t \in Txs, ReadFrom(t)
       PROVE  Base'
  <2>1. t.from \in Accounts
    BY PipelineConstants DEF Transaction
  <2>2. PICK answer \in {cache[t.from], None} :
           /\ Read(t.from, answer)
           /\ job' = [job EXCEPT ![t] = [Job("from") EXCEPT !.held = answer]]
    BY <1>18, Zenon DEF ReadFrom
  <2>3. answer \in Account \union {None} /\ faults' \in 0..MaxFaults
    BY <1>1, <2>1, <2>2, ReadIsTyped
  <2>4. [Job("from") EXCEPT !.held = answer] \in JobType
    BY <2>3, JobIsTyped, Zenon DEF JobType, Stages
  <2>5. Rest
    BY <1>1, <1>18, <2>3 DEF ReadFrom, TypeOK
  <2>6. graph' = graph
    BY <1>18 DEF ReadFrom
  <2>7. QED
    BY <1>6, <2>2, <2>4, <2>5, <2>6, Zenon
<1>19. ASSUME NEW t \in Txs, FromFails(t)
       PROVE  Base'
  <2>1. Rest
    BY <1>1, <1>19 DEF FromFails, TypeOK
  <2>2. QED
    BY <1>7, <1>19, <2>1, Zenon DEF FromFails, Stages
<1>20. ASSUME NEW t \in Txs, FromPanics(t)
       PROVE  Base'
  <2>1. Rest
    BY <1>1, <1>20, Zenon DEF FromPanics, TypeOK
  <2>2. QED
    BY <1>7, <1>20, <2>1, Zenon DEF FromPanics, Stages
<1>21. ASSUME NEW t \in Txs, FromApplies(t)
       PROVE  Base'
  <2> DEFINE sent == ApplySend(Sender(t), t, t.from)
             writes == [NoWrites EXCEPT ![t.from] = sent]
  <2>1. t.to \in Accounts
    BY PipelineConstants DEF Transaction
  <2>2. sent \in Account
    <3>1. Sender(t) \in Account
      BY <1>1, SenderIsTyped
    <3>2. ~ApplySendPanics(Sender(t), t, t.from)
      BY <1>21 DEF FromApplies
    <3>3. QED
      BY <3>1, <3>2, ApplySendIsTyped
  <2>3. \/ /\ job' = [job EXCEPT ![t] = [Job("writing") EXCEPT !.writes = writes]]
           /\ applied' = applied \union {t}
           /\ faults' = faults
        \/ /\ \E answer \in {cache[t.to], None} :
                /\ Read(t.to, answer)
                /\ job' = [job EXCEPT ![t] = [at |-> "to", held |-> answer, writes |-> writes]]
           /\ applied' = applied
    BY <1>21 DEF FromApplies
  <2>4. graph' = graph /\ UNCHANGED <<seen, cache, polled, alive, told>>
    BY <1>21 DEF FromApplies
  <2> HIDE DEF sent
  <2>5. writes \in [Accounts -> Account \union {None}]
    BY <2>2, Zenon DEF NoWrites
  <2> HIDE DEF writes
  <2>6. CASE /\ job' = [job EXCEPT ![t] = [Job("writing") EXCEPT !.writes = writes]]
             /\ applied' = applied \union {t}
             /\ faults' = faults
    <3>1. [Job("writing") EXCEPT !.writes = writes] \in JobType
      BY <2>5, JobIsTyped, Zenon DEF JobType, Stages
    <3>2. Rest
      BY <1>1, <2>4, <2>6 DEF TypeOK
    <3>3. QED
      BY <1>6, <2>4, <2>6, <3>1, <3>2, Zenon
  <2>7. CASE /\ \E answer \in {cache[t.to], None} :
                  /\ Read(t.to, answer)
                  /\ job' = [job EXCEPT ![t] = [at |-> "to", held |-> answer, writes |-> writes]]
             /\ applied' = applied
    <3>1. PICK answer \in {cache[t.to], None} :
             /\ Read(t.to, answer)
             /\ job' = [job EXCEPT ![t] = [at |-> "to", held |-> answer, writes |-> writes]]
      BY <2>7, Zenon
    <3>2. answer \in Account \union {None} /\ faults' \in 0..MaxFaults
      BY <1>1, <2>1, <3>1, ReadIsTyped
    <3>3. [at |-> "to", held |-> answer, writes |-> writes] \in JobType
      BY <2>5, <3>2 DEF JobType, Stages
    <3>4. Rest
      BY <1>1, <2>4, <2>7, <3>2 DEF TypeOK
    <3>5. QED
      BY <1>6, <2>4, <3>1, <3>3, <3>4, Zenon
  <2>8. QED
    BY <2>3, <2>6, <2>7
<1>22. ASSUME NEW t \in Txs, ToApplies(t)
       PROVE  Base'
  <2> DEFINE receiver == IF job[t].held = None THEN FreshAccount ELSE job[t].held
             received == ApplySend(receiver, t, t.to)
             writes == [job[t].writes EXCEPT ![t.to] = received]
  <2>1. receiver \in Account
    BY <1>2 DEF JobType, FreshAccount, Account
  <2>2. ~ApplySendPanics(receiver, t, t.to)
    BY DEF ApplySendPanics
  <2>3. job' = [job EXCEPT ![t] = [at |-> "writing", held |-> None, writes |-> writes]]
    BY <1>22 DEF ToApplies
  <2>4. Rest /\ graph' = graph
    BY <1>1, <1>22 DEF ToApplies, TypeOK
  <2> HIDE DEF receiver
  <2>5. received \in Account
    BY <2>1, <2>2, ApplySendIsTyped
  <2> HIDE DEF received
  <2>6. [at |-> "writing", held |-> None, writes |-> writes] \in JobType
    BY <1>2, <2>5, Zenon DEF JobType, Stages
  <2> HIDE DEF writes
  <2>7. QED
    BY <1>6, <2>3, <2>4, <2>6, Zenon
<1>23. ASSUME NEW t \in Txs, NEW a \in Accounts, WriteAccount(t, a)
       PROVE  Base'
  <2>1. job[t].writes[a] \in Account \union {None}
    BY <1>2 DEF JobType
  <2>2. Rest /\ graph' = graph
    BY <1>1, <1>23, <2>1 DEF WriteAccount, CacheWrite, TypeOK
  <2>3. job' \in [Txs -> JobType]
    BY <1>2, <1>23, Zenon DEF WriteAccount, JobType
  <2>4. QED
    BY <1>5, <2>2, <2>3
<1>24. ASSUME NEW t \in Txs, Applied(t)
       PROVE  Base'
  <2>1. Rest
    BY <1>1, <1>24 DEF Applied, TypeOK
  <2>2. QED
    BY <1>7, <1>24, <2>1, Zenon DEF Applied, Stages
<1>25. QED
  BY <1>8, <1>9, <1>10, <1>11, <1>12, <1>13, <1>14, <1>15, <1>16, <1>17, <1>18, <1>19, <1>20,
     <1>21, <1>22, <1>23, <1>24
     DEF Next, Step, Pending, Validator, Batcher

\* Balances and nonces are never negative, in the cache, in what a future holds and in
\* what it is about to write: the subtraction of apply_send_transaction either panics or
\* leaves a balance, whatever interleaves.
THEOREM PipelineTypeOK == Spec => []TypeOK
<1>1. Base => TypeOK
  BY DEF Base
<1>2. QED
  BY BaseInit, BaseStep, <1>1, PTL DEF Spec

-----------------------------------------------------------------------------
\* How a step of a transaction moves it through the stages: it stays, goes on without
\* being applied, is done with, is applied, or is reported valid. Other transactions stay.
LEMMA Moves ==
  ASSUME Base, NEW t \in Txs, Step(t)
  PROVE  /\ \A u \in Txs \ {t} : job'[u] = job[u]
         /\ seen' = seen
         /\ \/ job'[t].at = job[t].at /\ applied' = applied
            \/ /\ job[t].at \notin {"idle", "writing", "valid"}
               /\ job'[t].at \notin {"idle", "writing"}
               /\ applied' = applied
            \/ job[t].at \in {"valid", "invalid"} /\ job'[t].at = "idle" /\ applied' = applied
            \/ /\ job[t].at \in {"from", "to"} /\ job'[t].at = "writing"
               /\ applied' = applied \union {t}
            \/ job[t].at = "writing" /\ job'[t].at = "valid" /\ applied' = applied
<1>1. job \in [Txs -> JobType]
  BY DEF Base, TypeOK, JobType
<1>2. CASE Verdict(t)
  <2>1. job' = [job EXCEPT ![t] = Job("idle")]
    BY <1>2, PendingSteps, ZenonT(60)
  <2>2. QED
    BY <1>1, <1>2, <2>1 DEF Verdict, Job
<1>3. CASE CleanGraph(t)
  BY <1>3, PendingSteps, Zenon DEF CleanGraph
<1>4. CASE ValidatorPush(t)
  BY <1>1, <1>4, Zenon DEF ValidatorPush, Job
<1>5. CASE ValidatorRead(t)
  BY <1>1, <1>5 DEF ValidatorRead, Job
<1>6. CASE PendingTransaction(t)
  BY <1>1, <1>6 DEF PendingTransaction, Job, JobType
<1>7. CASE Validate(t)
  BY <1>1, <1>7, Zenon DEF Validate, Job
<1>8. CASE BatcherPush(t)
  BY <1>1, <1>8, Zenon DEF BatcherPush, Job
<1>9. CASE ReadFrom(t)
  BY <1>1, <1>9 DEF ReadFrom, Job
<1>10. CASE FromFails(t)
  BY <1>1, <1>10 DEF FromFails, Job
<1>11. CASE FromPanics(t)
  BY <1>1, <1>11 DEF FromPanics, Job
<1>12. CASE FromApplies(t)
  BY <1>1, <1>12, SMTT(60) DEF FromApplies, Job
<1>13. CASE ToApplies(t)
  BY <1>1, <1>13 DEF ToApplies
<1>14. ASSUME NEW a \in Accounts, WriteAccount(t, a)
       PROVE  /\ \A u \in Txs \ {t} : job'[u] = job[u]
              /\ seen' = seen /\ job'[t].at = job[t].at /\ applied' = applied
  BY <1>1, <1>14 DEF WriteAccount, JobType
<1>15. CASE Applied(t)
  BY <1>1, <1>15 DEF Applied, Job
<1>16. QED
  BY <1>2, <1>3, <1>4, <1>5, <1>6, <1>7, <1>8, <1>9, <1>10, <1>11, <1>12, <1>13, <1>14,
     <1>15, ZenonT(60)
     DEF Step, Pending, Validator, Batcher

\* A deposit under way or applied is in the list of bridge-ins, and once applied it is
\* past the batcher's computation for good.
DepositInv ==
    \A t \in Txs : t.type = "BridgeIn" =>
        /\ job[t].at # "idle" => t \in seen
        /\ t \in applied => t \in seen /\ job[t].at \in {"writing", "valid", "idle"}

\* New leaves every other transaction alone, and takes a deposit only once.
LEMMA NewMoves ==
  ASSUME Base, NEW t \in Txs, New(t)
  PROVE  /\ \A u \in Txs \ {t} : job'[u] = job[u]
         /\ job[t].at = "idle" /\ job'[t].at = "to validator"
         /\ t \notin seen
         /\ seen' = IF t.type = "BridgeIn" THEN seen \union {t} ELSE seen
         /\ applied' = applied
<1>1. job \in [Txs -> JobType]
  BY DEF Base, TypeOK, JobType
<1>2. job' = [job EXCEPT ![t] = Job("to validator")]
  BY PendingSteps, Zenon
<1>3. job'[t].at = "to validator"
  BY <1>1, <1>2, Zenon DEF Job
<1>4. QED
  BY <1>1, <1>2, <1>3, Zenon DEF New

\* DepositInv is preserved, and no step computes a deposit again.
LEMMA DepositStep ==
  Base /\ DepositInv /\ [Next]_vars =>
    /\ DepositInv'
    /\ \A t \in Txs : t.type = "BridgeIn" /\ t \in applied /\ job'[t].at = "writing"
                        => job[t].at = "writing"
<1> SUFFICES ASSUME Base, DepositInv, [Next]_vars
             PROVE  /\ DepositInv'
                    /\ \A t \in Txs : t.type = "BridgeIn" /\ t \in applied
                                        /\ job'[t].at = "writing" => job[t].at = "writing"
  OBVIOUS
<1>1. CASE UNCHANGED vars \/ Polls
  BY <1>1 DEF vars, Polls, Poll, DepositInv
<1>2. CASE \E t \in Txs : New(t)
  <2>1. PICK t \in Txs : New(t)
    BY <1>2
  <2>2. /\ \A u \in Txs \ {t} : job'[u] = job[u]
        /\ job[t].at = "idle" /\ job'[t].at = "to validator"
        /\ t \notin seen
        /\ seen' = IF t.type = "BridgeIn" THEN seen \union {t} ELSE seen
        /\ applied' = applied
    BY <2>1, NewMoves, Zenon
  <2>3. QED
    BY <2>2, Zenon DEF DepositInv
<1>3. CASE \E t \in Txs : Step(t)
  <2>1. PICK t \in Txs : Step(t)
    BY <1>3
  <2>2. /\ \A u \in Txs \ {t} : job'[u] = job[u]
        /\ seen' = seen
        /\ \/ job'[t].at = job[t].at /\ applied' = applied
           \/ /\ job[t].at \notin {"idle", "writing", "valid"}
              /\ job'[t].at \notin {"idle", "writing"}
              /\ applied' = applied
           \/ job[t].at \in {"valid", "invalid"} /\ job'[t].at = "idle" /\ applied' = applied
           \/ /\ job[t].at \in {"from", "to"} /\ job'[t].at = "writing"
              /\ applied' = applied \union {t}
           \/ job[t].at = "writing" /\ job'[t].at = "valid" /\ applied' = applied
    BY <2>1, Moves
  <2>3. QED
    BY <2>2 DEF DepositInv
<1>4. QED
  BY <1>1, <1>2, <1>3 DEF Next

\* A bridge event is applied at most once, whatever else is under way and however often
\* it is delivered: bridge_in_transactions of the pending transactions actor.
THEOREM DepositsAreAppliedOnce == Spec => DepositOnce
<1>1. Init => DepositInv
  BY SMTT(60) DEF Init, DepositInv, Job
<1>2. Base /\ DepositInv /\ [Next]_vars => DepositInv'
  BY DepositStep
<1>3. Base /\ DepositInv /\ [Next]_vars =>
        [\A t \in Txs : t.type = "BridgeIn" /\ t \in applied /\ job'[t].at = "writing"
                          => job[t].at = "writing"]_vars
  BY DepositStep
<1>4. QED
  BY BaseInit, BaseStep, <1>1, <1>2, <1>3, PTL DEF Spec, DepositOnce

-----------------------------------------------------------------------------
\* No two transactions under way share an account.
Disjoint ==
    \A t, u \in Txs : t # u /\ job[t].at # "idle" /\ job[u].at # "idle"
                       => AccountsInvolved(t) \intersect AccountsInvolved(u) = {}

\* A future writes accounts of its transaction only, and none before it computed them.
WritesOwn ==
    \A t \in Txs : /\ job[t].at \notin {"to", "writing"} => job[t].writes = NoWrites
                   /\ \A a \in Accounts : job[t].writes[a] # None => a \in AccountsInvolved(t)

\* What a send was checked against is what the cache still holds for its sender, from the
\* read of the validator to the read of the batcher.
Funded(t) ==
    /\ job[t].at = "read" => job[t].held \in {None, cache[t.from]}
    /\ job[t].at = "checking" => job[t].held = cache[t.from] /\ job[t].held # None
    /\ job[t].at \in {"to batcher", "applying"} =>
          cache[t.from] # None /\ ValidateBalance(cache[t.from], t.value)
    /\ job[t].at = "from" /\ job[t].held # None => ValidateBalance(job[t].held, t.value)

IsolatedInv ==
    /\ Base
    /\ Disjoint
    /\ WritesOwn
    /\ \A t \in Txs : t.type = "Send" => Funded(t)
    /\ alive

\* At the start no transaction is under way.
LEMMA IsolatedInit == Init => IsolatedInv
<1> SUFFICES ASSUME Init PROVE IsolatedInv
  OBVIOUS
<1>1. \A t \in Txs : job[t].at = "idle" /\ job[t].writes = NoWrites
  BY DEF Init, Job
<1>2. \A t \in Txs : Funded(t)
  BY <1>1, Zenon DEF Funded
<1>3. alive
  BY DEF Init
<1>4. QED
  BY BaseInit, <1>1, <1>2, <1>3 DEF IsolatedInv, Disjoint, WritesOwn, NoWrites

\* The invariant is preserved while no transaction is taken that shares an account with
\* one under way.
LEMMA IsolatedStep == IsolatedInv /\ [NextIsolated]_vars => IsolatedInv'
<1> SUFFICES ASSUME IsolatedInv, [NextIsolated]_vars PROVE IsolatedInv'
  OBVIOUS
<1>1. Base /\ Disjoint /\ WritesOwn /\ alive
  BY DEF IsolatedInv
<1>2. \A t \in Txs : t.type = "Send" => Funded(t)
  BY DEF IsolatedInv
<1>3. job \in [Txs -> JobType] /\ TypeOK
  BY <1>1 DEF Base, TypeOK, JobType
<1>4. Base'
  BY <1>1, BaseStep DEF NextIsolated, Next
<1> DEFINE Own(t) == /\ job'[t].at \notin {"to", "writing"} => job'[t].writes = NoWrites
                     /\ \A a \in Accounts : job'[t].writes[a] # None => a \in AccountsInvolved(t)
<1>5. ASSUME NEW t \in Txs,
             \A u \in Txs \ {t} : job'[u] = job[u],
             \A u \in Txs \ {t} : job[u].at # "idle" => cache'[u.from] = cache[u.from],
             Own(t), Disjoint', t.type = "Send" => Funded(t)', alive'
      PROVE  IsolatedInv'
  <2>1. WritesOwn'
    BY <1>1, <1>5, ZenonT(60) DEF WritesOwn
  <2>2. ASSUME NEW u \in Txs \ {t}, u.type = "Send"
        PROVE  Funded(u)'
    <3>1. Funded(u)
      BY <1>2, <2>2
    <3>2. CASE job[u].at = "idle"
      BY <1>5, <3>2, ZenonT(60) DEF Funded
    <3>3. CASE job[u].at # "idle"
      <4>1. job'[u] = job[u] /\ cache'[u.from] = cache[u.from]
        BY <1>5, <3>3
      <4>2. QED
        BY <3>1, <4>1, Zenon DEF Funded
    <3>4. QED
      BY <3>2, <3>3
  <2>3. \A u \in Txs : u.type = "Send" => Funded(u)'
    BY <1>5, <2>2
  <2>4. QED
    BY <1>4, <1>5, <2>1, <2>3 DEF IsolatedInv
<1>6. ASSUME NEW t \in Txs, Step(t), job[t].at # "idle",
             Own(t), t.type = "Send" => Funded(t)', alive', cache' = cache
      PROVE  IsolatedInv'
  <2>1. \A u \in Txs \ {t} : job'[u] = job[u]
    BY <1>1, <1>6, Moves
  <2>2. Disjoint'
    BY <1>1, <1>6, <2>1 DEF Disjoint
  <2>3. QED
    BY <1>5, <1>6, <2>1, <2>2
<1>7. ASSUME NEW t \in Txs, Step(t), job[t].at # "idle", NEW at \in Stages,
             job' = [job EXCEPT ![t] = Job(at)],
             t.type = "Send" => Funded(t)', alive', cache' = cache
      PROVE  IsolatedInv'
  <2>1. job'[t].writes = NoWrites
    BY <1>3, <1>7 DEF Job
  <2>2. Own(t)
    BY <2>1 DEF NoWrites
  <2> HIDE DEF Own
  <2>3. QED
    BY <1>6, <1>7, <2>2
<1>8. CASE UNCHANGED vars \/ Polls
  <2>1. UNCHANGED <<job, cache, alive>>
    BY <1>8 DEF vars, Polls, Poll
  <2>2. Disjoint' /\ WritesOwn' /\ alive'
    BY <1>1, <2>1 DEF Disjoint, WritesOwn
  <2>3. \A t \in Txs : t.type = "Send" => Funded(t)'
    BY <1>2, <2>1, Zenon DEF Funded
  <2>4. QED
    BY <1>4, <2>2, <2>3 DEF IsolatedInv
<1>9. ASSUME NEW t \in Txs, New(t), Alone(t)
      PROVE  IsolatedInv'
  <2>1. /\ \A u \in Txs \ {t} : job'[u] = job[u]
        /\ job' = [job EXCEPT ![t] = Job("to validator")]
    BY <1>1, <1>9, NewMoves, PendingSteps, Zenon
  <2>2. job'[t].at = "to validator" /\ job'[t].writes = NoWrites
    BY <1>3, <2>1, Zenon DEF Job
  <2>3. Own(t)
    BY <2>2, Zenon DEF NoWrites
  <2>4. Disjoint'
    BY <1>1, <1>9, <2>1, Zenon DEF Disjoint, Alone
  <2>5. Funded(t)'
    BY <2>2, Zenon DEF Funded
  <2>6. cache' = cache /\ alive'
    BY <1>1, <1>9 DEF New
  <2> HIDE DEF Own
  <2>7. QED
    BY <1>5, <2>1, <2>3, <2>4, <2>5, <2>6, ZenonT(60)
<1>10. ASSUME NEW t \in Txs, Verdict(t)
       PROVE  IsolatedInv'
  <2>1. job' = [job EXCEPT ![t] = Job("idle")]
    BY <1>1, <1>10, PendingSteps, Zenon
  <2>2. job'[t].at = "idle"
    BY <1>3, <2>1 DEF Job
  <2>3. Funded(t)'
    BY <2>2 DEF Funded
  <2>4. Step(t) /\ job[t].at # "idle" /\ cache' = cache /\ alive'
    BY <1>1, <1>10 DEF Step, Pending, Verdict
  <2>5. QED
    BY <1>7, <2>1, <2>3, <2>4, ZenonT(60) DEF Stages
<1>11. ASSUME NEW t \in Txs, CleanGraph(t)
       PROVE  IsolatedInv'
  <2>1. UNCHANGED <<job, cache, alive>>
    BY <1>1, <1>11, PendingSteps, ZenonT(60) DEF CleanGraph
  <2>2. Disjoint' /\ WritesOwn' /\ alive'
    BY <1>1, <2>1 DEF Disjoint, WritesOwn
  <2>3. \A u \in Txs : u.type = "Send" => Funded(u)'
    BY <1>2, <2>1, ZenonT(60) DEF Funded
  <2>4. QED
    BY <1>4, <2>2, <2>3 DEF IsolatedInv
<1>12. ASSUME NEW t \in Txs, ValidatorPush(t)
       PROVE  IsolatedInv'
  <2>1. job'[t].at = "reading"
    BY <1>3, <1>12, ZenonT(60) DEF ValidatorPush, Job
  <2>2. Funded(t)'
    BY <2>1 DEF Funded
  <2>3. Step(t) /\ job[t].at # "idle" /\ cache' = cache /\ alive'
    BY <1>1, <1>12, Zenon DEF Step, Validator, ValidatorPush
  <2>4. job' = [job EXCEPT ![t] = Job("reading")]
    BY <1>12, Zenon DEF ValidatorPush
  <2>5. QED
    BY <1>7, <2>2, <2>3, <2>4, Zenon DEF Stages
<1>13. ASSUME NEW t \in Txs, ValidatorRead(t)
       PROVE  IsolatedInv'
  <2>1. PICK answer \in {cache[t.from], None} :
           job' = [job EXCEPT ![t] = [Job("read") EXCEPT !.held = answer]]
    BY <1>13, Zenon DEF ValidatorRead
  <2>2. job'[t].at = "read" /\ job'[t].held = answer /\ job'[t].writes = NoWrites
    BY <1>3, <2>1 DEF Job
  <2>3. Own(t)
    BY <2>2 DEF NoWrites
  <2>4. Step(t) /\ job[t].at # "idle" /\ cache' = cache /\ alive'
    BY <1>1, <1>13, Zenon DEF Step, Validator, ValidatorRead
  <2>5. Funded(t)'
    BY <2>2, <2>4 DEF Funded
  <2> HIDE DEF Own
  <2>6. QED
    BY <1>6, <2>3, <2>4, <2>5
<1>14. ASSUME NEW t \in Txs, PendingTransaction(t)
       PROVE  IsolatedInv'
  <2>1. Step(t) /\ job[t].at = "read" /\ cache' = cache /\ alive'
    BY <1>1, <1>14 DEF Step, Validator, PendingTransaction
  <2>2. CASE t.type = "Send" /\ job[t].held = None
    <3>1. job' = [job EXCEPT ![t] = Job("invalid")]
      BY <1>14, <2>2 DEF PendingTransaction
    <3>2. job'[t].at = "invalid"
      BY <1>3, <3>1 DEF Job
    <3>3. Funded(t)'
      BY <3>2 DEF Funded
    <3>4. QED
      BY <1>7, <2>1, <3>1, <3>3, Zenon DEF Stages
  <2>3. CASE ~(t.type = "Send" /\ job[t].held = None)
    <3>1. job' = [job EXCEPT ![t].at = "checking"]
      BY <1>14, <2>3 DEF PendingTransaction
    <3>2. /\ job'[t].at = "checking" /\ job'[t].held = job[t].held
          /\ job'[t].writes = job[t].writes
      BY <1>3, <3>1 DEF JobType
    <3>3. Own(t)
      BY <1>1, <2>1, <3>2 DEF WritesOwn
    <3>4. ASSUME t.type = "Send" PROVE Funded(t)'
      BY <1>2, <2>1, <2>3, <3>2, <3>4, ZenonT(60) DEF Funded
    <3> HIDE DEF Own
    <3>5. QED
      BY <1>6, <2>1, <3>3, <3>4
  <2>4. QED
    BY <2>2, <2>3
<1>15. ASSUME NEW t \in Txs, Validate(t)
       PROVE  IsolatedInv'
  <2>1. Step(t) /\ job[t].at = "checking" /\ cache' = cache /\ alive'
    BY <1>1, <1>15, ZenonT(60) DEF Step, Validator, Validate
  <2>2. CASE job' = [job EXCEPT ![t] = Job("invalid")]
    <3>1. job'[t].at = "invalid"
      BY <1>3, <2>2 DEF Job
    <3>2. Funded(t)'
      BY <3>1 DEF Funded
    <3>3. QED
      BY <1>7, <2>1, <2>2, <3>2, Zenon DEF Stages
  <2>3. CASE /\ job' = [job EXCEPT ![t] = Job("to batcher")]
             /\ t.type = "BridgeIn" \/ ValidateBalance(job[t].held, t.value)
    <3>1. job'[t].at = "to batcher"
      BY <1>3, <2>3, ZenonT(60) DEF Job
    <3>2. ASSUME t.type = "Send" PROVE Funded(t)'
      <4>1. job[t].held = cache[t.from] /\ job[t].held # None
        BY <1>2, <2>1, <3>2, ZenonT(60) DEF Funded
      <4>2. QED
        BY <2>1, <2>3, <3>1, <3>2, <4>1, ZenonT(60) DEF Funded
    <3>3. QED
      BY <1>7, <2>1, <2>3, <3>2, Zenon DEF Stages
  <2>4. QED
    BY <1>15, <2>2, <2>3, ZenonT(60) DEF Validate
<1>16. ASSUME NEW t \in Txs, BatcherPush(t)
       PROVE  IsolatedInv'
  <2>1. /\ job' = [job EXCEPT ![t] = Job("applying")]
        /\ Step(t) /\ job[t].at = "to batcher" /\ cache' = cache /\ alive'
    BY <1>1, <1>16, Zenon DEF Step, Batcher, BatcherPush
  <2>2. job'[t].at = "applying"
    BY <1>3, <2>1, ZenonT(60) DEF Job
  <2>3. ASSUME t.type = "Send" PROVE Funded(t)'
    BY <1>2, <2>1, <2>2, <2>3, ZenonT(60) DEF Funded
  <2>4. QED
    BY <1>7, <2>1, <2>3, ZenonT(60) DEF Stages
<1>17. ASSUME NEW t \in Txs, ReadFrom(t)
       PROVE  IsolatedInv'
  <2>1. PICK answer \in {cache[t.from], None} :
           job' = [job EXCEPT ![t] = [Job("from") EXCEPT !.held = answer]]
    BY <1>17, Zenon DEF ReadFrom
  <2>2. job'[t].at = "from" /\ job'[t].held = answer /\ job'[t].writes = NoWrites
    BY <1>3, <2>1 DEF Job
  <2>3. Own(t)
    BY <2>2 DEF NoWrites
  <2>4. Step(t) /\ job[t].at = "applying" /\ cache' = cache /\ alive'
    BY <1>1, <1>17, ZenonT(60) DEF Step, Batcher, ReadFrom
  <2>5. ASSUME t.type = "Send" PROVE Funded(t)'
    BY <1>2, <2>2, <2>4, <2>5, Zenon DEF Funded
  <2> HIDE DEF Own
  <2>6. QED
    BY <1>6, <2>3, <2>4, <2>5
<1>18. ASSUME NEW t \in Txs, FromFails(t)
       PROVE  IsolatedInv'
  <2>1. /\ job' = [job EXCEPT ![t] = Job("invalid")]
        /\ Step(t) /\ job[t].at = "from" /\ cache' = cache /\ alive'
    BY <1>1, <1>18 DEF Step, Batcher, FromFails
  <2>2. job'[t].at = "invalid"
    BY <1>3, <2>1 DEF Job
  <2>3. Funded(t)'
    BY <2>2 DEF Funded
  <2>4. QED
    BY <1>7, <2>1, <2>3, Zenon DEF Stages
<1>19. ASSUME NEW t \in Txs, FromPanics(t)
       PROVE  FALSE
  <2>1. t.type = "Send" /\ Sender(t).token < t.value
    BY <1>19 DEF FromPanics, ApplySendPanics
  <2>2. job[t].at = "from" /\ job[t].held # None
    BY <1>19, <2>1 DEF FromPanics, Fails
  <2>3. ValidateBalance(job[t].held, t.value)
    BY <1>2, <2>1, <2>2, ZenonT(60) DEF Funded
  <2>4. Sender(t).token = job[t].held.token
    BY <1>3, <2>2, SenderIsTyped
  <2>5. job[t].held.token \in Nat /\ t.value \in Nat
    BY <1>3, <2>2, <2>3, PipelineConstants DEF JobType, Account, ValidateBalance, Transaction
  <2>6. QED
    BY <2>1, <2>3, <2>4, <2>5 DEF ValidateBalance
<1>20. ASSUME NEW t \in Txs, FromApplies(t)
       PROVE  IsolatedInv'
  <2> DEFINE sent == ApplySend(Sender(t), t, t.from)
             writes == [NoWrites EXCEPT ![t.from] = sent]
  <2>1. \/ job' = [job EXCEPT ![t] = [Job("writing") EXCEPT !.writes = writes]]
        \/ \E answer \in {cache[t.to], None} :
             job' = [job EXCEPT ![t] = [at |-> "to", held |-> answer, writes |-> writes]]
    BY <1>20 DEF FromApplies
  <2>2. Step(t) /\ job[t].at = "from" /\ cache' = cache /\ alive'
    BY <1>1, <1>20 DEF Step, Batcher, FromApplies
  <2> HIDE DEF sent
  <2>3. \A a \in Accounts : writes[a] # None => a \in AccountsInvolved(t)
    BY DEF NoWrites, AccountsInvolved
  <2> HIDE DEF writes
  <2>4. job'[t].at \in {"to", "writing"} /\ job'[t].writes = writes
    BY <1>3, <2>1, SMTT(60) DEF Job
  <2>5. Own(t)
    BY <2>3, <2>4
  <2>6. Funded(t)'
    BY <2>4, ZenonT(60) DEF Funded
  <2> HIDE DEF Own
  <2>7. QED
    BY <1>6, <2>2, <2>5, <2>6
<1>21. ASSUME NEW t \in Txs, ToApplies(t)
       PROVE  IsolatedInv'
  <2> DEFINE receiver == IF job[t].held = None THEN FreshAccount ELSE job[t].held
             received == ApplySend(receiver, t, t.to)
             writes == [job[t].writes EXCEPT ![t.to] = received]
  <2>1. job' = [job EXCEPT ![t] = [at |-> "writing", held |-> None, writes |-> writes]]
    BY <1>21 DEF ToApplies
  <2>2. Step(t) /\ job[t].at = "to" /\ cache' = cache /\ alive'
    BY <1>1, <1>21 DEF Step, Batcher, ToApplies
  <2> HIDE DEF received
  <2>3. \A a \in Accounts : writes[a] # None => a \in AccountsInvolved(t)
    BY <1>1, <1>3 DEF WritesOwn, JobType, AccountsInvolved
  <2> HIDE DEF writes
  <2>4. job'[t].at = "writing" /\ job'[t].writes = writes
    BY <1>3, <2>1
  <2>5. Own(t)
    BY <2>3, <2>4
  <2>6. Funded(t)'
    BY <2>4 DEF Funded
  <2> HIDE DEF Own
  <2>7. QED
    BY <1>6, <2>2, <2>5, <2>6
<1>22. ASSUME NEW t \in Txs, NEW a \in Accounts, WriteAccount(t, a)
       PROVE  IsolatedInv'
  <2>1. /\ job[t].at = "writing" /\ job[t].writes[a] # None
        /\ cache' = [cache EXCEPT ![a] = job[t].writes[a]]
        /\ job' = [job EXCEPT ![t].writes[a] = None]
        /\ alive'
    BY <1>1, <1>22 DEF WriteAccount, CacheWrite
  <2>2. a \in AccountsInvolved(t)
    BY <1>1, <2>1 DEF WritesOwn
  <2>3. \A u \in Txs \ {t} : job'[u] = job[u]
    BY <1>3, <2>1
  <2>4. job'[t].at = "writing" /\ job'[t].writes = [job[t].writes EXCEPT ![a] = None]
    BY <1>3, <2>1 DEF JobType
  <2>5. Own(t)
    BY <1>1, <1>3, <2>4 DEF WritesOwn, JobType
  <2>6. \A u \in Txs \ {t} : job[u].at # "idle" => cache'[u.from] = cache[u.from]
    <3>1. ASSUME NEW u \in Txs \ {t}, job[u].at # "idle" PROVE u.from # a
      <4>1. AccountsInvolved(t) \intersect AccountsInvolved(u) = {}
        BY <1>1, <2>1, <3>1 DEF Disjoint
      <4>2. QED
        BY <2>2, <4>1, ZenonT(60) DEF AccountsInvolved
    <3>2. QED
      BY <1>3, <2>1, <3>1, PipelineConstants DEF TypeOK, Transaction
  <2>7. Disjoint'
    BY <1>1, <2>1, <2>3 DEF Disjoint
  <2>8. Funded(t)'
    BY <2>4 DEF Funded
  <2> HIDE DEF Own
  <2>9. QED
    BY <1>5, <2>1, <2>3, <2>5, <2>6, <2>7, <2>8
<1>23. ASSUME NEW t \in Txs, Applied(t)
       PROVE  IsolatedInv'
  <2>1. /\ job' = [job EXCEPT ![t] = Job("valid")]
        /\ Step(t) /\ job[t].at = "writing" /\ cache' = cache /\ alive'
    BY <1>1, <1>23 DEF Step, Batcher, Applied
  <2>2. job'[t].at = "valid"
    BY <1>3, <2>1 DEF Job
  <2>3. Funded(t)'
    BY <2>2 DEF Funded
  <2>4. QED
    BY <1>7, <2>1, <2>3, Zenon DEF Stages
<1>24. QED
  BY <1>8, <1>9, <1>10, <1>11, <1>12, <1>13, <1>14, <1>15, <1>16, <1>17, <1>18, <1>19, <1>20,
     <1>21, <1>22, <1>23
     DEF NextIsolated, Step, Pending, Validator, Batcher

\* While no two transactions under way share an account, the subtraction of
\* apply_send_transaction never underflows and the handler task goes on, even with reads
\* that time out: what validate_send checked is what the batcher applies.
THEOREM HandlerTaskLives == IsolatedSpec => []HandlerLives
<1>1. IsolatedInv => HandlerLives
  BY DEF IsolatedInv, HandlerLives
<1>2. QED
  BY IsolatedInit, IsolatedStep, <1>1, PTL DEF IsolatedSpec

-----------------------------------------------------------------------------
(* The refinement of Ledger, while no two transactions under way share an account and no *)
(* read is late.                                                                          *)

\* The sender of a send that was validated still can pay for it, with the nonce it signed.
Paying(t) == /\ cache[t.from] # None
             /\ ValidateBalance(cache[t.from], t.value)
             /\ ValidateNonce(cache[t.from], t.nonce)

\* The sender once the batcher has applied t to it.
Debited(t) == ApplySend(IF cache[t.from] = None THEN FreshAccount
                        ELSE [cache[t.from] EXCEPT !.nonce = @ + 1], t, t.from)

\* What a future holds is what the cache has, and the cache has what it was checked against.
InStep(t) ==
    /\ job[t].at \in {"read", "checking", "from"} => job[t].held = cache[t.from]
    /\ job[t].at \in {"to batcher", "applying", "from", "to"} /\ t.type = "Send" => Paying(t)
    /\ job[t].at = "to" => /\ t.from # t.to
                           /\ job[t].held = cache[t.to]
                           /\ job[t].writes = [NoWrites EXCEPT ![t.from] = Debited(t)]

\* The nonce of the sender counts the sends that were applied.
Counted(t) ==
    t \in applied /\ t.type = "Send" => /\ Accounted[t.from] # None
                                       /\ Accounted[t.from].nonce >= 1

LedgerInv == IsolatedInv /\ DepositInv /\ \A t \in Txs : InStep(t) /\ Counted(t)

\* The receiver once the batcher has applied t to it.
Credited(t) == ApplySend(IF cache[t.to] = None THEN FreshAccount ELSE cache[t.to], t, t.to)

\* What a step of a transaction does to its future, to the cache and to the history: it
\* writes nothing, computes its accounts, or writes one of them.
Computes(t) ==
    /\ job[t].at \in {"from", "to"} /\ job'[t].at = "writing"
    /\ cache' = cache /\ applied' = applied \union {t}
    /\ t.type = "Send" => Paying(t)
    /\ \/ t.from = t.to /\ job'[t].writes = [NoWrites EXCEPT ![t.from] = Debited(t)]
       \/ /\ t.from # t.to
          /\ job'[t].writes = [[NoWrites EXCEPT ![t.from] = Debited(t)] EXCEPT ![t.to] = Credited(t)]
Writes(t, a) ==
    /\ job[t].at = "writing" /\ job'[t].at = "writing"
    /\ job[t].writes[a] # None
    /\ job'[t].writes = [job[t].writes EXCEPT ![a] = None]
    /\ cache' = [cache EXCEPT ![a] = job[t].writes[a]]
    /\ applied' = applied
WritesNothing(t) ==
    /\ cache' = cache /\ applied' = applied
    /\ \/ job[t].at # "writing" /\ job'[t].at # "writing"
       \/ job[t].at = "writing" /\ job[t].writes = NoWrites /\ job'[t].at # "writing"
       \/ job'[t] = job[t]

\* A read that is not late gives what the cache has.
LEMMA PromptRead ==
  ASSUME faults = 0, faults' = 0, NEW a, NEW answer, Read(a, answer)
  PROVE  answer = cache[a]
BY DEF Read, CacheRead

\* Without a fault, a step of a transaction computes its accounts, writes one of them, or
\* does neither.
LEMMA LedgerMoves ==
  ASSUME LedgerInv, faults = 0, faults' = 0, alive', NEW t \in Txs, Step(t)
  PROVE  /\ InStep(t)'
         /\ WritesNothing(t) \/ Computes(t) \/ \E a \in Accounts : Writes(t, a)
<1>1. Base /\ IsolatedInv /\ InStep(t) /\ (t.type = "Send" => Funded(t))
  BY Zenon DEF LedgerInv, IsolatedInv
<1>2. job \in [Txs -> JobType] /\ TypeOK
  BY <1>1 DEF Base, TypeOK, JobType
<1>3. t \in Transaction /\ (t.type = "BridgeIn" => t.from = t.to)
  BY PipelineConstants
<1>4. CASE Verdict(t)
  <2>1. job' = [job EXCEPT ![t] = Job("idle")] /\ cache' = cache /\ applied' = applied
    BY <1>1, <1>4, PendingSteps, ZenonT(60) DEF Verdict
  <2>2. job'[t].at = "idle" /\ job[t].at # "writing"
    BY <1>2, <1>4, <2>1 DEF Job, Verdict
  <2>3. QED
    BY <2>1, <2>2, Zenon DEF InStep, WritesNothing
<1>5. CASE CleanGraph(t)
  <2>1. UNCHANGED <<job, cache, applied>>
    BY <1>1, <1>5, PendingSteps, ZenonT(60) DEF CleanGraph
  <2>2. QED
    BY <1>1, <2>1, Zenon DEF InStep, WritesNothing, Paying, Debited
<1>6. CASE ValidatorPush(t)
  <2>1. /\ job[t].at = "to validator" /\ job'[t].at = "reading"
        /\ cache' = cache /\ applied' = applied
    BY <1>2, <1>6, Zenon DEF ValidatorPush, Job
  <2>2. QED
    BY <1>1, <2>1, Zenon DEF InStep, WritesNothing
<1>7. CASE ValidatorRead(t)
  <2>1. PICK answer \in {cache[t.from], None} :
           /\ Read(t.from, answer)
           /\ job' = [job EXCEPT ![t] = [Job("read") EXCEPT !.held = answer]]
    BY <1>7, Zenon DEF ValidatorRead
  <2>2. answer = cache[t.from]
    BY <2>1, PromptRead
  <2>3. /\ job[t].at = "reading" /\ job'[t].at = "read" /\ job'[t].held = cache[t.from]
        /\ cache' = cache /\ applied' = applied
    BY <1>2, <1>7, <2>1, <2>2 DEF ValidatorRead, Job
  <2>4. QED
    BY <1>1, <2>3, Zenon DEF InStep, WritesNothing
<1>8. CASE PendingTransaction(t)
  <2>1. /\ job[t].at = "read"
        /\ job'[t].at = "invalid" \/ (job'[t].at = "checking" /\ job'[t].held = job[t].held)
        /\ cache' = cache /\ applied' = applied
    BY <1>2, <1>8 DEF PendingTransaction, Job, JobType
  <2>2. QED
    BY <1>1, <2>1, Zenon DEF InStep, WritesNothing
<1>9. CASE Validate(t)
  <2>1. /\ job[t].at = "checking" /\ job[t].held = cache[t.from]
        /\ t.type = "Send" => job[t].held # None
        /\ cache' = cache /\ applied' = applied
    BY <1>1, <1>9, Zenon DEF Validate, InStep, Funded
  <2>2. \/ job'[t].at = "invalid"
        \/ /\ job'[t].at = "to batcher"
           /\ t.type = "Send" => /\ ValidateBalance(cache[t.from], t.value)
                                 /\ ValidateNonce(cache[t.from], t.nonce)
    <3>1. t.type = "Send" => t.type # "BridgeIn"
      OBVIOUS
    <3> QED
      BY <1>2, <1>9, <2>1, <3>1, Zenon DEF Validate, Job
  <2>3. QED
    BY <1>1, <2>1, <2>2, Zenon DEF InStep, WritesNothing, Paying
<1>10. CASE BatcherPush(t)
  <2>1. /\ job[t].at = "to batcher" /\ job'[t].at = "applying"
        /\ cache' = cache /\ applied' = applied
    BY <1>2, <1>10, Zenon DEF BatcherPush, Job
  <2>2. QED
    BY <1>1, <2>1, Zenon DEF InStep, WritesNothing, Paying
<1>11. CASE ReadFrom(t)
  <2>1. PICK answer \in {cache[t.from], None} :
           /\ Read(t.from, answer)
           /\ job' = [job EXCEPT ![t] = [Job("from") EXCEPT !.held = answer]]
    BY <1>11, Zenon DEF ReadFrom
  <2>2. answer = cache[t.from]
    BY <2>1, PromptRead
  <2>3. /\ job[t].at = "applying" /\ job'[t].at = "from" /\ job'[t].held = cache[t.from]
        /\ cache' = cache /\ applied' = applied
    BY <1>2, <1>11, <2>1, <2>2 DEF ReadFrom, Job
  <2>4. QED
    BY <1>1, <2>3, Zenon DEF InStep, WritesNothing, Paying
<1>12. CASE FromFails(t)
  <2>1. /\ job[t].at = "from" /\ job'[t].at = "invalid"
        /\ cache' = cache /\ applied' = applied
    BY <1>2, <1>12 DEF FromFails, Job
  <2>2. QED
    BY <2>1, Zenon DEF InStep, WritesNothing
<1>13. CASE FromPanics(t)
  BY <1>13 DEF FromPanics
<1>14. CASE FromApplies(t)
  <2>1. job[t].at = "from" /\ job[t].held = cache[t.from] /\ cache' = cache
    BY <1>1, <1>14, Zenon DEF FromApplies, InStep
  <2>2. ApplySend(Sender(t), t, t.from) = Debited(t)
    BY <2>1, Zenon DEF Sender, Debited
  <2>3. t.type = "Send" => Paying(t)
    BY <1>1, <2>1, Zenon DEF InStep
  <2> DEFINE writes == [NoWrites EXCEPT ![t.from] = Debited(t)]
  <2>4. CASE t.from = t.to
    <3>1. /\ job' = [job EXCEPT ![t] = [Job("writing") EXCEPT !.writes = writes]]
          /\ applied' = applied \union {t}
      BY <1>14, <2>2, <2>4, Zenon DEF FromApplies
    <3> HIDE DEF writes
    <3>2. job'[t].at = "writing" /\ job'[t].writes = writes
      BY <1>2, <3>1 DEF Job
    <3>3. InStep(t)'
      BY <3>2, Zenon DEF InStep
    <3>4. Computes(t)
      BY <2>1, <2>3, <2>4, <3>1, <3>2, Zenon DEF Computes, writes
    <3> QED
      BY <3>3, <3>4
  <2>5. CASE t.from # t.to
    <3>1. PICK answer \in {cache[t.to], None} :
             /\ Read(t.to, answer)
             /\ job' = [job EXCEPT ![t] = [at |-> "to", held |-> answer, writes |-> writes]]
      BY <1>14, <2>2, <2>5, Zenon DEF FromApplies
    <3>2. answer = cache[t.to] /\ applied' = applied
      BY <1>14, <2>5, <3>1, PromptRead DEF FromApplies
    <3> HIDE DEF writes
    <3>3. job'[t].at = "to" /\ job'[t].held = cache[t.to] /\ job'[t].writes = writes
      BY <1>2, <3>1, <3>2
    <3>4. InStep(t)'
      BY <2>1, <2>3, <2>5, <3>3, Zenon DEF InStep, Paying, Debited, writes
    <3>5. WritesNothing(t)
      BY <2>1, <3>2, <3>3, Zenon DEF WritesNothing
    <3> QED
      BY <3>4, <3>5
  <2> QED
    BY <2>4, <2>5
<1>15. CASE ToApplies(t)
  <2>1. /\ job[t].at = "to" /\ job[t].held = cache[t.to] /\ t.from # t.to
        /\ job[t].writes = [NoWrites EXCEPT ![t.from] = Debited(t)]
        /\ t.type = "Send" => Paying(t)
        /\ cache' = cache /\ applied' = applied \union {t}
    BY <1>1, <1>15, Zenon DEF ToApplies, InStep
  <2>2. /\ job'[t].at = "writing"
        /\ job'[t].writes = [job[t].writes EXCEPT ![t.to] = Credited(t)]
    BY <1>2, <1>15, <2>1 DEF ToApplies, Credited
  <2>3. InStep(t)'
    BY <2>2, Zenon DEF InStep
  <2>4. Computes(t)
    BY <2>1, <2>2, Zenon DEF Computes
  <2> QED
    BY <2>3, <2>4
<1>16. ASSUME NEW a \in Accounts, WriteAccount(t, a)
       PROVE  InStep(t)' /\ Writes(t, a)
  <2>1. Writes(t, a)
    BY <1>2, <1>16 DEF WriteAccount, CacheWrite, Writes, JobType
  <2>2. InStep(t)'
    BY <2>1, Zenon DEF InStep, Writes
  <2> QED
    BY <2>1, <2>2
<1>17. CASE Applied(t)
  <2>1. /\ job[t].at = "writing" /\ job[t].writes = NoWrites /\ job'[t].at = "valid"
        /\ cache' = cache /\ applied' = applied
    BY <1>2, <1>17 DEF Applied, Job
  <2>2. QED
    BY <2>1, Zenon DEF InStep, WritesNothing
<1>18. QED
  BY <1>4, <1>5, <1>6, <1>7, <1>8, <1>9, <1>10, <1>11, <1>12, <1>13, <1>14, <1>15, <1>16,
     <1>17, ZenonT(60)
     DEF Step, Pending, Validator, Batcher

\* The accounts of a transaction under way that writes nothing yet are those of the cache.
LEMMA OwnAccounts ==
  ASSUME IsolatedInv, NEW t \in Txs, job[t].at # "idle", job[t].at # "writing",
         NEW a \in AccountsInvolved(t), a \in Accounts
  PROVE  /\ Accounted[a] = cache[a]
         /\ \A u \in Txs : ~(job[u].at = "writing" /\ job[u].writes[a] # None)
<1>1. \A u \in Txs : ~(job[u].at = "writing" /\ job[u].writes[a] # None)
  <2> SUFFICES ASSUME NEW u \in Txs, job[u].at = "writing", job[u].writes[a] # None
               PROVE  FALSE
    OBVIOUS
  <2>1. u # t /\ job[u].at # "idle"
    OBVIOUS
  <2>2. a \in AccountsInvolved(u)
    BY Zenon DEF IsolatedInv, WritesOwn
  <2>3. AccountsInvolved(t) \intersect AccountsInvolved(u) = {}
    BY <2>1, Zenon DEF IsolatedInv, Disjoint
  <2> QED
    BY <2>2, <2>3
<1>2. QED
  BY <1>1, Zenon DEF Accounted

\* An account counts as before when the same futures are to write the same into it, and
\* the cache has the same.
LEMMA SameAccounted ==
  ASSUME NEW b \in Accounts, cache'[b] = cache[b],
         \A u \in Txs : (job'[u].at = "writing" /\ job'[u].writes[b] # None)
                           <=> (job[u].at = "writing" /\ job[u].writes[b] # None),
         \A u \in Txs : job[u].at = "writing" /\ job[u].writes[b] # None
                           => job'[u].writes[b] = job[u].writes[b]
  PROVE  Accounted'[b] = Accounted[b]
<1> DEFINE W(u) == job[u].at = "writing" /\ job[u].writes[b] # None
           V(u) == job'[u].at = "writing" /\ job'[u].writes[b] # None
<1>1. Accounted[b] = IF \E u \in Txs : W(u) THEN job[CHOOSE u \in Txs : W(u)].writes[b]
                     ELSE cache[b]
  BY Zenon DEF Accounted
<1>2. Accounted'[b] = IF \E u \in Txs : V(u) THEN job'[CHOOSE u \in Txs : V(u)].writes[b]
                      ELSE cache'[b]
  BY Zenon DEF Accounted
<1>3. \A u \in Txs : V(u) <=> W(u)
  OBVIOUS
<1>4. \A u \in Txs : W(u) => job'[u].writes[b] = job[u].writes[b]
  OBVIOUS
<1> HIDE DEF W, V
<1>5. (CHOOSE u \in Txs : V(u)) = (CHOOSE u \in Txs : W(u))
  BY <1>3
<1>6. CASE \E u \in Txs : W(u)
  <2>1. (CHOOSE u \in Txs : W(u)) \in Txs /\ W(CHOOSE u \in Txs : W(u))
    BY <1>6, Zenon
  <2> QED
    BY <1>1, <1>2, <1>3, <1>4, <1>5, <1>6, <2>1, Zenon
<1>7. CASE ~\E u \in Txs : W(u)
  BY <1>1, <1>2, <1>3, <1>7, Zenon
<1> QED
  BY <1>6, <1>7

\* A step that writes nothing, and the write of an account that was computed, leave the
\* accounts as they count.
LEMMA WritesNothingStutters ==
  ASSUME NEW t \in Txs, WritesNothing(t), \A u \in Txs \ {t} : job'[u] = job[u]
  PROVE  UNCHANGED <<Accounted, applied>>
<1>1. ASSUME NEW b \in Accounts PROVE Accounted'[b] = Accounted[b]
  <2>1. \A u \in Txs : (job'[u].at = "writing" /\ job'[u].writes[b] # None)
                          <=> (job[u].at = "writing" /\ job[u].writes[b] # None)
    BY <1>1, ZenonT(60) DEF WritesNothing, NoWrites
  <2>2. \A u \in Txs : job[u].at = "writing" /\ job[u].writes[b] # None
                          => job'[u].writes[b] = job[u].writes[b]
    BY <1>1, ZenonT(60) DEF WritesNothing, NoWrites
  <2> QED
    BY <1>1, <2>1, <2>2, SameAccounted, Zenon DEF WritesNothing
<1>2. Accounted' = Accounted
  BY <1>1, Zenon DEF Accounted
<1>3. QED
  BY <1>2 DEF WritesNothing

\* Writing an account that was computed changes nothing in the ledger.
LEMMA WriteStutters ==
  ASSUME IsolatedInv, NEW t \in Txs, NEW a \in Accounts, Writes(t, a),
         \A u \in Txs \ {t} : job'[u] = job[u]
  PROVE  UNCHANGED <<Accounted, applied>>
<1>1. /\ job[t].writes \in [Accounts -> Account \union {None}]
      /\ cache \in [Accounts -> Account \union {None}]
  BY DEF IsolatedInv, Base, TypeOK
<1>2. \A u \in Txs : job[u].at = "writing" /\ job[u].writes[a] # None => u = t
  <2> SUFFICES ASSUME NEW u \in Txs, job[u].at = "writing", job[u].writes[a] # None, u # t
               PROVE  FALSE
    BY Zenon
  <2>1. a \in AccountsInvolved(u) /\ a \in AccountsInvolved(t)
    BY Zenon DEF IsolatedInv, WritesOwn, Writes
  <2>2. job[t].at # "idle" /\ job[u].at # "idle"
    BY DEF Writes
  <2>3. AccountsInvolved(t) \intersect AccountsInvolved(u) = {}
    BY <2>2, Zenon DEF IsolatedInv, Disjoint
  <2> QED
    BY <2>1, <2>3
<1>3. Accounted[a] = job[t].writes[a]
  <2>1. job[t].at = "writing" /\ job[t].writes[a] # None
    BY DEF Writes
  <2>2. (CHOOSE u \in Txs : job[u].at = "writing" /\ job[u].writes[a] # None) = t
    BY <1>2, <2>1
  <2> QED
    BY <2>1, <2>2, Zenon DEF Accounted
<1>4. Accounted'[a] = job[t].writes[a]
  <2>1. \A u \in Txs : ~(job'[u].at = "writing" /\ job'[u].writes[a] # None)
    BY <1>1, <1>2, SMTT(60) DEF Writes
  <2>2. Accounted'[a] = cache'[a]
    BY <2>1, Zenon DEF Accounted
  <2>3. cache'[a] = job[t].writes[a]
    BY <1>1 DEF Writes
  <2> QED
    BY <2>2, <2>3
<1>5. ASSUME NEW b \in Accounts \ {a} PROVE Accounted'[b] = Accounted[b]
  <2>1. \A u \in Txs : job'[u].at = job[u].at /\ job'[u].writes[b] = job[u].writes[b]
    BY <1>1, <1>5, ZenonT(60) DEF Writes
  <2>2. cache'[b] = cache[b]
    BY <1>1, <1>5 DEF Writes
  <2> QED
    BY <1>5, <2>1, <2>2, SameAccounted, Zenon
<1>6. Accounted' = Accounted
  BY <1>3, <1>4, <1>5, Zenon DEF Accounted
<1>7. QED
  BY <1>6 DEF Writes

\* The accounts a future computes are those the ledger has once it applied the transaction.
LEMMA SenderComputed ==
  ASSUME NEW t \in Txs, cache[t.from] \in Account \union {None}, t.type = "Send" => Paying(t)
  PROVE  /\ Debited(t) \in Account
         /\ t.type = "BridgeIn" =>
              Debited(t) = [nonce |-> IF cache[t.from] = None THEN 0 ELSE cache[t.from].nonce + 1,
                            token |-> (IF cache[t.from] = None \/ cache[t.from].token = None THEN 0
                                       ELSE cache[t.from].token) + t.value]
         /\ t.type = "Send" =>
              Debited(t) = [nonce |-> cache[t.from].nonce + 1,
                            token |-> IF t.from = t.to THEN cache[t.from].token
                                      ELSE cache[t.from].token - t.value]
<1>1. t \in Transaction
  BY PipelineConstants
<1>2. t.type = "Send" => cache[t.from] # None /\ cache[t.from].token \in Nat
                            /\ cache[t.from].token >= t.value
  BY DEF Paying, ValidateBalance, Account
<1>3. CASE cache[t.from] = None
  BY <1>1, <1>2, <1>3, NoneIsNoValue, SMTT(60) DEF Debited, ApplySend, FreshAccount, Account, Transaction
<1>4. CASE cache[t.from] # None
  <2> DEFINE c == cache[t.from]
             counted == [c EXCEPT !.nonce = @ + 1]
  <2>1. c \in Account /\ Debited(t) = ApplySend(counted, t, t.from)
    BY <1>4, Zenon DEF Debited
  <2>2. counted \in Account /\ counted.nonce = c.nonce + 1 /\ counted.token = c.token
    BY <2>1, SMTT(60) DEF Account
  <2> HIDE DEF c, counted
  <2>3. CASE t.type = "BridgeIn"
    BY <1>1, <2>1, <2>2, <2>3, <1>4, NoneIsNoValue, SMTT(60) DEF ApplySend, Account, Transaction, c
  <2>4. CASE t.type = "Send"
    <3>1. c.token \in Nat /\ c.token >= t.value
      BY <1>2, <2>4, Zenon DEF c
    <3> QED
      BY <1>1, <2>1, <2>2, <2>4, <3>1, NoneIsNoValue, SMTT(60) DEF ApplySend, Account, Transaction, c
  <2> QED
    BY <1>1, <2>3, <2>4 DEF Transaction
<1> QED
  BY <1>3, <1>4

\* What the receiver of a transaction is given.
LEMMA ReceiverComputed ==
  ASSUME NEW t \in Txs, cache[t.to] \in Account \union {None}, t.from # t.to
  PROVE  /\ Credited(t) \in Account
         /\ Credited(t) = [nonce |-> IF cache[t.to] = None THEN 0 ELSE cache[t.to].nonce,
                           token |-> (IF cache[t.to] = None \/ cache[t.to].token = None THEN 0
                                      ELSE cache[t.to].token) + t.value]
<1>1. t \in Transaction
  BY PipelineConstants
<1>2. QED
  BY <1>1, NoneIsNoValue, SMTT(60) DEF Credited, ApplySend, FreshAccount, Account, Transaction

\* The step that computes the accounts of a transaction is the step of the ledger.
LEMMA ComputesApplies ==
  ASSUME LedgerInv, NEW t \in Txs, Computes(t), \A u \in Txs \ {t} : job'[u] = job[u]
  PROVE  Promise!Apply(t)
<1>1. /\ IsolatedInv /\ Counted(t) /\ DepositInv
      /\ cache \in [Accounts -> Account \union {None}]
  BY DEF LedgerInv, IsolatedInv, Base, TypeOK
<1>2. /\ t.from \in Accounts /\ t.to \in Accounts /\ t.nonce \in Nat /\ t.value \in Nat
      /\ t.type = "Send" \/ (t.type = "BridgeIn" /\ t.from = t.to)
  BY PipelineConstants DEF Transaction
<1>3. job[t].at \in {"from", "to"} /\ job'[t].at = "writing" /\ cache' = cache
  BY DEF Computes
<1>4. \A a \in {t.from, t.to} :
        /\ Accounted[a] = cache[a]
        /\ \A u \in Txs : ~(job[u].at = "writing" /\ job[u].writes[a] # None)
  BY <1>1, <1>2, <1>3, OwnAccounts DEF AccountsInvolved
<1>5. cache[t.from] \in Account \union {None} /\ cache[t.to] \in Account \union {None}
  BY <1>1, <1>2
<1>6. Debited(t) \in Account /\ (t.from # t.to => Credited(t) \in Account)
  BY <1>5, SenderComputed, ReceiverComputed DEF Computes
<1>7. /\ job'[t].writes[t.from] = Debited(t)
      /\ t.from # t.to => job'[t].writes[t.to] = Credited(t)
      /\ \A b \in Accounts \ {t.from, t.to} : job'[t].writes[b] = None
  BY <1>2 DEF Computes, NoWrites
<1>8. ASSUME NEW a \in {t.from, t.to}
      PROVE  Accounted'[a] = job'[t].writes[a]
  <2>1. job'[t].at = "writing" /\ job'[t].writes[a] # None
    BY <1>3, <1>6, <1>7, <1>8, NoneIsNoValue, ZenonT(60)
  <2>2. \A u \in Txs : job'[u].at = "writing" /\ job'[u].writes[a] # None => u = t
    BY <1>4, <1>8
  <2>3. (CHOOSE u \in Txs : job'[u].at = "writing" /\ job'[u].writes[a] # None) = t
    BY <2>1, <2>2
  <2>4. a \in Accounts
    BY <1>2, <1>8
  <2> QED
    BY <2>1, <2>3, <2>4, Zenon DEF Accounted
<1>9. ASSUME NEW b \in Accounts \ {t.from, t.to}
      PROVE  Accounted'[b] = Accounted[b]
  <2>1. \A u \in Txs : (job'[u].at = "writing" /\ job'[u].writes[b] # None)
                          <=> (job[u].at = "writing" /\ job[u].writes[b] # None)
    BY <1>3, <1>7, <1>9
  <2>2. \A u \in Txs : job[u].at = "writing" /\ job[u].writes[b] # None
                          => job'[u].writes[b] = job[u].writes[b]
    BY <1>3
  <2> QED
    BY <1>3, <1>9, <2>1, <2>2, SameAccounted, Zenon
<1>10. Accounted' = [a \in Accounts |-> CASE a = t.from -> Debited(t)
                                          [] a # t.from /\ a = t.to -> Credited(t)
                                          [] OTHER -> Accounted[a]]
  <2>1. \A a \in Accounts : Accounted'[a] = CASE a = t.from -> Debited(t)
                                              [] a # t.from /\ a = t.to -> Credited(t)
                                              [] OTHER -> Accounted[a]
    BY <1>7, <1>8, <1>9
  <2>2. Accounted' = [a \in Accounts |-> Accounted'[a]]
    BY Zenon DEF Accounted
  <2> QED
    BY <2>1, <2>2, Zenon
<1>11. /\ Accounted = [a \in Accounts |-> Accounted[a]]
       /\ Accounted[t.from] = cache[t.from] /\ Accounted[t.to] = cache[t.to]
  <2>1. Accounted = [a \in Accounts |-> Accounted[a]]
    BY Zenon DEF Accounted
  <2> QED
    BY <1>4, <2>1
<1> DEFINE A == Accounted
<1>12. t \in applied => t.type = "Send" /\ t.nonce > Promise!Nonce(t.from)
  <2>1. CASE t.type = "BridgeIn"
    BY <1>1, <1>3, <2>1 DEF DepositInv
  <2>2. CASE t.type = "Send"
    <3>1. cache[t.from] \in Account /\ ValidateNonce(cache[t.from], t.nonce)
      BY <1>5, <2>2 DEF Computes, Paying
    <3>2. t \in applied => cache[t.from].nonce >= 1
      BY <1>1, <1>11, <2>2 DEF Counted
    <3>3. Promise!Nonce(t.from) = cache[t.from].nonce
      BY <1>11, <3>1, NoneIsNoValue DEF Promise!Nonce
    <3> QED
      BY <1>2, <2>2, <3>1, <3>2, <3>3, SMTT(60) DEF ValidateNonce, Account
  <2> QED
    BY <1>2, <2>1, <2>2
<1>13. CASE t.type = "BridgeIn"
  <2>1. Debited(t) = [nonce |-> IF A[t.from] = None THEN 0 ELSE A[t.from].nonce + 1,
                      token |-> (IF A[t.from] = None \/ A[t.from].token = None THEN 0
                                 ELSE A[t.from].token) + t.value]
    BY <1>5, <1>11, <1>13, SenderComputed, ZenonT(60)
  <2>2. A' = [A EXCEPT ![t.from] = Debited(t)]
    BY <1>2, <1>10, <1>11, <1>13
  <2> HIDE DEF A
  <2>3. A' = [A EXCEPT ![t.from] =
                 [nonce |-> IF @ = None THEN 0 ELSE @.nonce + 1,
                  token |-> (IF A[t.from] = None \/ A[t.from].token = None THEN 0
                             ELSE A[t.from].token) + t.value]]
    BY <2>1, <2>2
  <2>4. Promise!Deposit(t)
    BY <1>13, <2>3, Zenon DEF Promise!Deposit, Promise!Balance, A
  <2> QED
    BY <1>12, <2>4 DEF Computes, Promise!Apply
<1>14. CASE t.type = "Send"
  <2>1. cache[t.from] # None /\ cache[t.from].token # None
          /\ cache[t.from].token >= t.value /\ ValidateNonce(cache[t.from], t.nonce)
    BY <1>14 DEF Computes, Paying, ValidateBalance
  <2>2. Promise!Payable(t)
    BY <1>11, <2>1 DEF Promise!Payable, Promise!Balance, Promise!Nonce, ValidateNonce
  <2>3. Debited(t) = [nonce |-> Promise!Nonce(t.from) + 1,
                      token |-> IF t.from = t.to THEN Promise!Balance(t.from)
                                ELSE Promise!Balance(t.from) - t.value]
    BY <1>5, <1>11, <1>14, <2>1, SenderComputed DEF Computes, Promise!Balance, Promise!Nonce
  <2>4. t.from # t.to => Credited(t) = [nonce |-> Promise!Nonce(t.to),
                                        token |-> Promise!Balance(t.to) + t.value]
    BY <1>5, <1>11, ReceiverComputed DEF Promise!Balance, Promise!Nonce
  <2>5. Promise!Pay(t)
    BY <1>10, <1>14, <2>2, <2>3, <2>4 DEF Promise!Pay
  <2> QED
    BY <1>12, <2>5 DEF Computes, Promise!Apply
<1> QED
  BY <1>2, <1>13, <1>14

\* The accounts that count are accounts.
LEMMA AccountedIsTyped ==
  ASSUME IsolatedInv PROVE Accounted \in [Accounts -> Account \union {None}]
<1>1. /\ \A u \in Txs, a \in Accounts : job[u].writes[a] \in Account \union {None}
      /\ \A a \in Accounts : cache[a] \in Account \union {None}
  BY DEF IsolatedInv, Base, TypeOK
<1>2. ASSUME NEW a \in Accounts PROVE Accounted[a] \in Account \union {None}
  <2> DEFINE W(u) == job[u].at = "writing" /\ job[u].writes[a] # None
  <2>1. Accounted[a] = IF \E u \in Txs : W(u) THEN job[CHOOSE u \in Txs : W(u)].writes[a]
                       ELSE cache[a]
    BY <1>2, Zenon DEF Accounted
  <2> HIDE DEF W
  <2>2. (\E u \in Txs : W(u)) => (CHOOSE u \in Txs : W(u)) \in Txs
    BY Zenon
  <2> QED
    BY <1>1, <1>2, <2>1, <2>2
<1>3. Accounted = [a \in Accounts |-> Accounted[a]]
  BY Zenon DEF Accounted
<1> QED
  BY <1>2, <1>3

\* A step of the ledger takes no nonce back, and counts in the one of a sender.
LEMMA LedgerCounts ==
  ASSUME LedgerInv, NEW t \in Txs, Promise!Apply(t)
  PROVE  \A u \in Txs : Counted(u)'
<1>1. Accounted \in [Accounts -> Account \union {None}] /\ \A u \in Txs : Counted(u)
  BY AccountedIsTyped DEF LedgerInv
<1>2. \A u \in Txs : u.from \in Accounts /\ u.nonce \in Nat /\ u.value \in Nat
  BY PipelineConstants DEF Transaction
<1>3. applied' = applied \union {t} /\ (Promise!Deposit(t) \/ Promise!Pay(t))
  BY DEF Promise!Apply
<1>4. \A a \in Accounts : Accounted[a] # None =>
         Accounted'[a] # None /\ Accounted'[a].nonce >= Accounted[a].nonce
  <2> SUFFICES ASSUME NEW a \in Accounts, Accounted[a] # None
               PROVE  Accounted'[a] # None /\ Accounted'[a].nonce >= Accounted[a].nonce
    OBVIOUS
  <2>1. Accounted[a] \in Account
    BY <1>1
  <2>2. Promise!Nonce(a) = Accounted[a].nonce /\ Promise!Nonce(a) \in Nat
    BY <2>1 DEF Promise!Nonce, Account
  <2>3. Promise!Balance(t.from) \in Nat /\ Promise!Balance(a) \in Nat
    BY <1>1, <1>2, <2>1 DEF Promise!Balance, Account
  <2>4. CASE Promise!Deposit(t)
    <3>1. CASE a = t.from
      <4>1. Accounted'[a] = [nonce |-> Accounted[a].nonce + 1,
                             token |-> Promise!Balance(t.from) + t.value]
        BY <1>1, <2>4, <3>1 DEF Promise!Deposit
      <4>2. Accounted'[a] \in Account
        BY <1>2, <2>1, <2>3, <4>1, SMTT(60) DEF Account
      <4> QED
        BY <2>2, <4>1, <4>2, NoneIsNoValue
    <3>2. CASE a # t.from
      <4>1. Accounted'[a] = Accounted[a]
        BY <1>1, <2>4, <3>2 DEF Promise!Deposit
      <4> QED
        BY <2>2, <4>1
    <3> QED
      BY <3>1, <3>2
  <2>5. CASE Promise!Pay(t)
    <3>1. Promise!Payable(t)
      BY <2>5 DEF Promise!Pay
    <3>2. Promise!Balance(t.from) >= t.value
      BY <3>1 DEF Promise!Payable
    <3>3. \/ Accounted'[a] = [nonce |-> Promise!Nonce(a) + 1, token |-> Promise!Balance(a)]
          \/ /\ Accounted'[a] = [nonce |-> Promise!Nonce(a) + 1,
                                 token |-> Promise!Balance(a) - t.value]
             /\ a = t.from
          \/ Accounted'[a] = [nonce |-> Promise!Nonce(a), token |-> Promise!Balance(a) + t.value]
          \/ Accounted'[a] = Accounted[a]
      BY <2>5 DEF Promise!Pay
    <3>4. Accounted'[a] \in Account
      BY <1>2, <2>1, <2>2, <2>3, <3>2, <3>3, SMTT(60) DEF Account
    <3>5. Accounted'[a].nonce >= Accounted[a].nonce
      BY <2>2, <3>3
    <3> QED
      BY <3>4, <3>5, NoneIsNoValue
  <2> QED
    BY <1>3, <2>4, <2>5
<1>5. ASSUME NEW u \in Txs, u # t PROVE Counted(u)'
  <2>1. Counted(u) /\ (u \in applied' => u \in applied) /\ u.from \in Accounts /\ u.nonce \in Nat
    BY <1>1, <1>2, <1>3, <1>5, Zenon
  <2>2. ASSUME u \in applied, u.type = "Send"
        PROVE  Accounted'[u.from] # None /\ Accounted'[u.from].nonce >= 1
    <3>1. Accounted[u.from] # None /\ Accounted[u.from].nonce >= 1
      BY <2>1, <2>2 DEF Counted
    <3>2. Accounted[u.from].nonce \in Nat
      BY <1>1, <2>1, <3>1 DEF Account
    <3>3. /\ Accounted'[u.from] # None
          /\ Accounted'[u.from].nonce >= Accounted[u.from].nonce
      BY <1>4, <2>1, <3>1
    <3>4. Accounted' \in [Accounts -> Account \union {None}]
      BY <1>1, <1>2, <1>3, SMTT(60) DEF Promise!Deposit, Promise!Pay, Promise!Payable, Promise!Balance,
         Promise!Nonce, Account
    <3>5. Accounted'[u.from].nonce \in Nat
      BY <2>1, <3>3, <3>4 DEF Account
    <3> QED
      BY <2>1, <3>1, <3>2, <3>3, <3>5
  <2> QED
    BY <2>1, <2>2, Zenon DEF Counted
<1>6. Counted(t)'
  <2> SUFFICES ASSUME t.type = "Send"
               PROVE  Accounted'[t.from] # None /\ Accounted'[t.from].nonce >= 1
    BY Zenon DEF Counted
  <2>1. Promise!Pay(t)
    BY <1>3 DEF Promise!Deposit
  <2>2. Accounted[t.from] \in Account /\ Promise!Nonce(t.from) = Accounted[t.from].nonce
    BY <1>1, <1>2, <2>1 DEF Promise!Pay, Promise!Payable, Promise!Nonce
  <2>3. Accounted'[t.from].nonce = Promise!Nonce(t.from) + 1
    BY <1>2, <2>1 DEF Promise!Pay
  <2>4. Accounted'[t.from] # None
    BY <1>2, <1>4, <2>2, NoneIsNoValue
  <2>5. Promise!Nonce(t.from) \in Nat
    BY <2>2 DEF Account
  <2> QED
    BY <1>2, <2>3, <2>4, <2>5
<1> QED
  BY <1>5, <1>6

\* At the start the ledger holds the accounts of the start.
LEMMA LedgerInit == Init => LedgerInv /\ Promise!Init
<1> SUFFICES ASSUME Init PROVE LedgerInv /\ Promise!Init
  OBVIOUS
<1>1. IsolatedInv /\ applied = {} /\ cache = Genesis
  BY IsolatedInit DEF Init
<1>2. \A t \in Txs : job[t].at = "idle"
  BY DEF Init, Job
<1>3. DepositInv /\ \A t \in Txs : InStep(t) /\ Counted(t)
  BY <1>1, <1>2, ZenonT(60) DEF DepositInv, InStep, Counted
<1>4. \A a \in Accounts : Accounted[a] = Genesis[a]
  BY <1>1, <1>2, Zenon DEF Accounted
<1>5. Accounted = Genesis
  <2>1. Genesis = [a \in Accounts |-> Genesis[a]]
    BY PipelineConstants
  <2>2. Accounted = [a \in Accounts |-> Accounted[a]]
    BY Zenon DEF Accounted
  <2> QED
    BY <1>4, <2>1, <2>2, Zenon
<1> QED
  BY <1>1, <1>3, <1>5 DEF LedgerInv, Promise!Init

\* A step that leaves the other transactions alone, and the accounts of those under way,
\* leaves what was checked of them.
LEMMA InStepFrame ==
  ASSUME LedgerInv, NEW t \in Txs, InStep(t)', \A u \in Txs \ {t} : job'[u] = job[u],
         \A u \in Txs \ {t} : job[u].at # "idle" =>
             cache'[u.from] = cache[u.from] /\ cache'[u.to] = cache[u.to]
  PROVE  \A u \in Txs : InStep(u)'
<1> SUFFICES ASSUME NEW u \in Txs \ {t} PROVE InStep(u)'
  BY Zenon
<1>1. InStep(u) /\ job'[u] = job[u]
  BY DEF LedgerInv
<1>2. CASE job[u].at = "idle"
  BY <1>1, <1>2, Zenon DEF InStep
<1>3. CASE job[u].at # "idle"
  <2>1. cache'[u.from] = cache[u.from] /\ cache'[u.to] = cache[u.to]
    BY <1>3
  <2> QED
    BY <1>1, <2>1, Zenon DEF InStep, Paying, Debited
<1> QED
  BY <1>2, <1>3

\* With no late read the invariant is preserved, and every step is one of the ledger or
\* none.
LEMMA LedgerStep ==
  LedgerInv /\ faults = 0 /\ faults' = 0 /\ [NextIsolated]_vars =>
     LedgerInv' /\ [Promise!Next]_<<Accounted, applied>>
<1> SUFFICES ASSUME LedgerInv, faults = 0, faults' = 0, [NextIsolated]_vars
             PROVE  LedgerInv' /\ [Promise!Next]_<<Accounted, applied>>
  OBVIOUS
<1>1. IsolatedInv /\ Base /\ DepositInv /\ \A t \in Txs : InStep(t) /\ Counted(t)
  BY DEF LedgerInv, IsolatedInv
<1>2. IsolatedInv' /\ alive'
  BY <1>1, IsolatedStep DEF IsolatedInv
<1>3. DepositInv'
  BY <1>1, DepositStep DEF NextIsolated, Next
<1>4. ASSUME UNCHANGED <<Accounted, applied>>, \A t \in Txs : InStep(t)'
      PROVE  LedgerInv' /\ [Promise!Next]_<<Accounted, applied>>
  <2>1. \A t \in Txs : Counted(t)'
    BY <1>1, <1>4, Zenon DEF Counted
  <2> QED
    BY <1>2, <1>3, <1>4, <2>1 DEF LedgerInv
<1>5. CASE UNCHANGED vars \/ Polls
  <2>1. UNCHANGED <<job, cache, applied>>
    BY <1>5 DEF vars, Polls, Poll
  <2>2. UNCHANGED <<Accounted, applied>>
    BY <2>1, Zenon DEF Accounted
  <2>3. \A t \in Txs : InStep(t)'
    BY <1>1, <2>1, Zenon DEF InStep, Paying, Debited
  <2> QED
    BY <1>4, <2>2, <2>3
<1>6. ASSUME NEW t \in Txs, New(t)
      PROVE  LedgerInv' /\ [Promise!Next]_<<Accounted, applied>>
  <2>1. /\ \A u \in Txs \ {t} : job'[u] = job[u]
        /\ job[t].at = "idle" /\ job'[t].at = "to validator"
        /\ applied' = applied
    BY <1>1, <1>6, NewMoves, Zenon
  <2>2. cache' = cache
    BY <1>6 DEF New
  <2>3. InStep(t)'
    BY <2>1, <2>2, Zenon DEF InStep
  <2>4. WritesNothing(t)
    BY <2>1, <2>2 DEF WritesNothing
  <2>5. UNCHANGED <<Accounted, applied>>
    BY <2>1, <2>4, WritesNothingStutters
  <2>6. \A u \in Txs : InStep(u)'
    BY <2>1, <2>2, <2>3, InStepFrame, Zenon
  <2> QED
    BY <1>4, <2>5, <2>6
<1>7. ASSUME NEW t \in Txs, Step(t)
      PROVE  LedgerInv' /\ [Promise!Next]_<<Accounted, applied>>
  <2>1. \A u \in Txs \ {t} : job'[u] = job[u]
    BY <1>1, <1>7, Moves
  <2>2. /\ InStep(t)'
        /\ WritesNothing(t) \/ Computes(t) \/ \E a \in Accounts : Writes(t, a)
    BY <1>2, <1>7, LedgerMoves, Zenon
  <2>3. CASE WritesNothing(t)
    <3>1. UNCHANGED <<Accounted, applied>>
      BY <2>1, <2>3, WritesNothingStutters
    <3>2. cache' = cache
      BY <2>3 DEF WritesNothing
    <3>3. \A u \in Txs : InStep(u)'
      BY <2>1, <2>2, <3>2, InStepFrame, Zenon
    <3> QED
      BY <1>4, <3>1, <3>3
  <2>4. CASE Computes(t)
    <3>1. Promise!Apply(t)
      BY <2>1, <2>4, ComputesApplies
    <3>2. cache' = cache /\ job[t].at \in {"from", "to"}
      BY <2>4 DEF Computes
    <3>3. \A u \in Txs : InStep(u)'
      BY <2>1, <2>2, <3>2, InStepFrame, Zenon
    <3>4. \A u \in Txs : Counted(u)'
      BY <3>1, LedgerCounts
    <3> QED
      BY <1>2, <1>3, <3>1, <3>3, <3>4 DEF LedgerInv, Promise!Next
  <2>5. ASSUME NEW a \in Accounts, Writes(t, a)
        PROVE  LedgerInv' /\ [Promise!Next]_<<Accounted, applied>>
    <3>1. UNCHANGED <<Accounted, applied>>
      BY <1>1, <2>1, <2>5, WriteStutters
    <3>2. a \in AccountsInvolved(t) /\ job[t].at # "idle"
      BY <1>1, <2>5 DEF Writes, IsolatedInv, WritesOwn
    <3>3. ASSUME NEW u \in Txs \ {t}, job[u].at # "idle"
          PROVE  cache'[u.from] = cache[u.from] /\ cache'[u.to] = cache[u.to]
      <4>1. AccountsInvolved(t) \intersect AccountsInvolved(u) = {}
        BY <1>1, <3>2, <3>3, Zenon DEF IsolatedInv, Disjoint
      <4>2. u.from # a /\ u.to # a
        BY <3>2, <4>1, ZenonT(60) DEF AccountsInvolved
      <4>3. u.from \in Accounts /\ u.to \in Accounts
        BY PipelineConstants DEF Transaction
      <4>4. cache \in [Accounts -> Account \union {None}]
        BY <1>1 DEF Base, TypeOK
      <4> QED
        BY <2>5, <4>2, <4>3, <4>4 DEF Writes
    <3>4. \A u \in Txs : InStep(u)'
      BY <2>1, <2>2, <3>3, InStepFrame, Zenon
    <3> QED
      BY <1>4, <3>1, <3>4
  <2> QED
    BY <2>2, <2>3, <2>4, <2>5
<1> QED
  BY <1>5, <1>6, <1>7 DEF NextIsolated

\* While no two transactions under way share an account and no read times out, the
\* validator and the batcher implement a ledger that applies a transaction at a time: a
\* send checked against one read of its sender and applied to another is paid for, a
\* deposit that comes again is not applied again, and a send that comes again is applied
\* again only while its nonce is ahead of its sender's.
THEOREM PipelineImplementsLedger == IsolatedSpec /\ [](faults = 0) => ImplementsLedger
<1>1. LedgerInv /\ faults = 0 /\ (faults = 0)' /\ [NextIsolated]_vars => LedgerInv'
  BY LedgerStep
<1>2. LedgerInv /\ faults = 0 /\ (faults = 0)' /\ [NextIsolated]_vars
         => [Promise!Next]_<<Accounted, applied>>
  BY LedgerStep
<1>3. Init => LedgerInv
  BY LedgerInit
<1>4. Init => Promise!Init
  BY LedgerInit
<1>5. QED
  BY <1>1, <1>2, <1>3, <1>4, PTL DEF IsolatedSpec, ImplementsLedger, Promise!Spec
=============================================================================
