-------------------------- MODULE ExecutionProofs --------------------------
(* Theorems on the executor, for any calls, registrations, programs and contents. *)
EXTENDS Execution, TLAPS

USE ZenonT(2), SMTT(60), ZenonT(60)

Stages == {"idle", "setting", "parsing", "queued", "waiting", "executing",
           "spawning", "spawned", "running", "ended", "failed"}
ResultStages == {"none", "cast", "awaiting", "lost", "succeeded", "failed", "completed",
                 "unheard", "logged"}
TaskStages == {"none", "starting", "opened", "ended", "cast", "done", "failed"}
RegStages == {"idle", "creating", "dropped", "pinning", "bundled", "announced", "logged",
              "failed"}
                \union Parts

\* The program index names no call, so no call ever waits for another.
GraphStates == [vertices : SUBSET Txs, dependencies : [Txs -> {<<>>}],
                index : [Programs -> {{}}]]

Typed ==
    /\ sent \in [Calls -> Txs \union {None}]
    /\ call \in [Calls -> Stages]
    /\ results \in [Calls -> ResultStages]
    /\ task \in [Calls -> TaskStages]
    /\ handles \in [Txs -> Calls \union {None}]
    /\ awaited \in [Calls -> Calls \union {None}]
    /\ told \in [Calls \union Registrations -> SUBSET {"pending", "failed"}]
    /\ bundle \in [ContentIds -> SUBSET Parts]
    /\ reg \in [Registrations -> RegStages]
    /\ graph \in GraphStates

\* The engine lock is held by the one who is at a stage under it.
Locked ==
    /\ \A c \in Calls : call[c] \in {"parsing", "spawning", "spawned"} <=> lock = c
    /\ \A r \in Registrations : reg[r] = "pinning" <=> lock = r

\* A call that came is of a transaction.
SentInv == \A c \in Calls : call[c] # "idle" <=> sent[c] # None

\* How far the executor, the task and the results of a call can be from each other.
Staged(c) ==
    /\ task[c] # "none" => call[c] \in {"spawned", "running", "ended"}
    /\ results[c] # "none" => task[c] \in {"cast", "done", "failed"}
    /\ call[c] = "spawned" => results[c] \in {"none", "cast"}
    /\ call[c] = "ended" => results[c] \in {"succeeded", "completed"}
    /\ results[c] \in {"none", "cast", "lost"} <=> awaited[c] = None
StagesInv == \A c \in Calls : Staged(c)

\* The transaction of a call whose results are not taken has a handle in the map from when
\* exec gives up the lock, unless the results of another call of the transaction took it.
TwinTook(c) == \E d \in Calls \ {c} : sent[d] = sent[c] /\ awaited[d] # None
Handled(c) ==
    /\ call[c] = "running" /\ results[c] \in {"none", "cast"} =>
          handles[sent[c]] # None \/ TwinTook(c)
    /\ results[c] = "lost" => TwinTook(c)
HandlesInv == \A c \in Calls : Handled(c)

\* While the results of a call are still to be taken and its transaction does not come again,
\* no other call of the transaction can take, or replace, its handle.
Unsettled(c) == results[c] = "cast" \/ (results[c] = "none" /\ Running(c))
Lone(c) ==
    /\ \A d \in Calls \ {c} : Unsettled(c) /\ sent[d] = sent[c] =>
          ~Unsettled(d) /\ call[d] # "spawned"
    /\ Unsettled(c) /\ call[c] = "running" => handles[sent[c]] = c
    /\ awaited[c] \in {None, c}
    /\ results[c] # "lost"
LoneInv == \A c \in Calls \ resent : Lone(c)

\* The parts of the bundle that are on disk when a registration is past the steps that
\* make them.
Built(r) ==
    LET parts == bundle[ContentOf[ProgramOf[r]]]
        end == {"bundled", "announced"}
        late == {"payload", "spec", "config"} \union end
    IN /\ reg[r] \in {"objects", "root"} \union late => "package" \in parts
       /\ reg[r] \in {"root"} \union late => "objects" \in parts
       /\ reg[r] \in late => "root" \in parts
       /\ reg[r] \in end => "spec" \in parts /\ "config" \in parts
BundleInv == \A r \in Registrations : Built(r)

\* The files are the ones their content's calls made, and a call that ran alone has the
\* file at its path to itself from when it opens it until its results are cast.
Files ==
    /\ file \in [ContentIds -> Calls \union {None}]
    /\ fd \in [Calls -> Calls \union {None}]
    /\ contents \in [Calls -> Calls \union {"empty", "mixed"}]
    /\ outputs \in [Calls -> Calls \union {"empty", "mixed", None}]
    /\ forwarded \in [Calls -> Calls \union {"empty", "mixed", None}]
    /\ overlapped \subseteq Calls
    /\ \A i \in ContentIds : file[i] # None => sent[file[i]] # None /\ Content(file[i]) = i
    /\ \A c \in Calls : fd[c] # None =>
          sent[c] # None /\ sent[fd[c]] # None /\ Content(fd[c]) = Content(c)
    /\ \A c \in Calls : task[c] \in {"opened", "ended"} => fd[c] # None
Own(c) ==
    /\ Running(c) => Rivals(c) = {}
    /\ task[c] \in {"opened", "ended"} => FileOf(c) = fd[c]
    /\ task[c] = "opened" => contents[fd[c]] = "empty"
    /\ task[c] = "ended" => contents[fd[c]] \in {"empty", c}
    /\ outputs[c] \in {None, c}
OwnInv == \A c \in Calls \ overlapped : Own(c)

\* What is passed on for a call is what its own task read, if its handle was its own.
ForwardInv == \A c \in Calls \ (overlapped \union resent) : forwarded[c] \in {None, c}

IInv == /\ Typed /\ Locked /\ SentInv /\ StagesInv /\ HandlesInv /\ LoneInv
        /\ BundleInv /\ Files /\ OwnInv /\ ForwardInv

-----------------------------------------------------------------------------
\* Every invariant holds when the executor starts.
LEMMA InitInv == Init => IInv
<1> SUFFICES ASSUME Init PROVE IInv
    OBVIOUS
<1> USE ExecutionConstants
<1>1. Typed
  BY DEF Init, Typed, GraphStates, Stages, ResultStages, TaskStages, RegStages, Parts
<1>2. Locked
  BY DEF Init, Locked
<1>3. SentInv /\ StagesInv /\ HandlesInv
  BY DEF Init, SentInv, StagesInv, Staged, HandlesInv, Handled
<1>4. BundleInv
  BY DEF Init, BundleInv, Built
<1>5. Files
  BY DEF Init, Files
<1>6. OwnInv /\ ForwardInv
  BY DEF Init, OwnInv, Own, Running, ForwardInv
<1>7. LoneInv
  BY DEF Init, LoneInv, Lone, Unsettled, Running
<1> QED
  BY <1>1, <1>2, <1>3, <1>4, <1>5, <1>6, <1>7 DEF IInv

\* Nothing is lost while nothing happens.
LEMMA StutterInv ==
    ASSUME IInv, UNCHANGED vars
    PROVE  IInv'
<1>1. UNCHANGED <<lock, told>> /\ UNCHANGED callVars /\ UNCHANGED taskVars /\ UNCHANGED regVars
  BY Zenon DEF vars
<1>2. Typed' /\ Locked' /\ SentInv'
  BY <1>1, SMTT(60) DEF callVars, taskVars, regVars, IInv, Typed, Locked, SentInv
<1>3. StagesInv' /\ HandlesInv'
  <2>1. StagesInv'
    BY <1>1, SMTT(60) DEF callVars, taskVars, IInv, StagesInv, Staged
  <2>2. HandlesInv'
    BY <1>1, SMTT(60) DEF callVars, taskVars, IInv, HandlesInv, Handled, TwinTook
  <2> QED
    BY <2>1, <2>2, Zenon
<1>4. LoneInv' /\ ForwardInv'
  BY <1>1, SMTT(60) DEF callVars, taskVars, IInv, LoneInv, Lone, Unsettled, Running, ForwardInv
<1>5. BundleInv'
  BY <1>1, SMTT(60) DEF callVars, taskVars, regVars, IInv, BundleInv, Built
<1>6. Files' /\ OwnInv'
  BY <1>1, SMTT(60)
  DEF callVars, taskVars, IInv, Files, OwnInv, Own, Running, Rivals, FileOf, Content
<1> QED
  BY <1>2, <1>3, <1>4, <1>5, <1>6, Zenon DEF IInv

\* The handlers and tasks of calls leave the registrations and their bundles alone.
LEMMA CallsLeaveBundles ==
    ASSUME NEW c \in Calls, Submit(c) \/ Executor(c) \/ Container(c)
    PROVE  UNCHANGED <<reg, bundle>>
<1>1. CASE Submit(c) \/ Executor(c)
  BY <1>1
  DEF regVars, Submit, Executor, SetLocks, SetQueues, NoProgram, AddCall, ExecLocks, Execute,
      InsertHandle, TakeHandle, JoinTask, CompletedExec, CallSuccess
<1>2. CASE Container(c)
  BY <1>2
  DEF regVars, Container, OpenOutput, RunContainer, TaskFails, CastResults, RemoveOutput
<1> QED
  BY <1>1, <1>2

\* A registration leaves the calls, their tasks and their files alone.
LEMMA RegistrationsLeaveCalls ==
    ASSUME NEW r \in Registrations, RegisterProgram(r) \/ Creation(r)
    PROVE  /\ UNCHANGED <<sent, call, results, handles, awaited, graph, forwarded>>
           /\ UNCHANGED taskVars
<1>1. ASSUME NEW part, Makes(r, part) \/ Skips(r, part)
      PROVE  UNCHANGED callVars /\ UNCHANGED taskVars
  BY <1>1, Zenon DEF Makes, Skips
<1>2. UNCHANGED callVars /\ UNCHANGED taskVars
  BY <1>1, Zenon
  DEF RegisterProgram, Creation, PinLocks, Pinned, ReadPackage, WriteObjects, BundleRoot,
      AddPayload, BaseSpec, CustomizeSpec, BundleFails, RegistrationEnds
<1> QED
  BY <1>2 DEF callVars

\* No call is in a dependency list, so a completed execution starts no other call.
LEMMA CompletedStartsNone ==
    ASSUME Typed, NEW c \in Calls, CompletedExec(c)
    PROVE  /\ call' = call
           /\ graph' \in GraphStates
<1>1. sent[c] \in graph.vertices => graph.dependencies[sent[c]] = <<>>
  BY DEF Typed, GraphStates
<1>2. call' = [d \in Calls |-> call[d]]
  BY <1>1 DEF CompletedExec
<1>3. graph' \in GraphStates
  BY ZenonT(60) DEF CompletedExec, Typed, GraphStates
<1> QED
  BY <1>2, <1>3 DEF Typed

\* The index is empty, so a call that is added is executed at once.
LEMMA AddedExecutes ==
    ASSUME Typed, SentInv, NEW c \in Calls, AddCall(c)
    PROVE  /\ Goes(c, "queued", "executing")
           /\ graph' \in GraphStates
<1> DEFINE fresh == [graph.dependencies EXCEPT ![sent[c]] = <<>>]
<1>1. sent[c] \in Txs
  BY DEF AddCall, Goes, SentInv, Typed
<1>2. graph.index[ProgramOf[sent[c]]] = {}
  BY <1>1, ExecutionConstants DEF Typed, GraphStates
<1>3. fresh \in [Txs -> {<<>>}]
  BY <1>1 DEF Typed, GraphStates
<1>4. graph' = [graph EXCEPT !.vertices = @ \union {sent[c]},
                             !.dependencies = [u \in Txs |-> fresh[u]]]
  BY <1>2, SMTT(60) DEF AddCall
<1> HIDE DEF fresh
<1>5. graph' \in GraphStates
  BY <1>1, <1>3, <1>4, ZenonT(60) DEF Typed, GraphStates
<1> QED
  BY <1>2, <1>5 DEF AddCall

\* A step of the handlers and tasks of calls leaves the types as they are.
LEMMA TypedCallStep ==
    ASSUME Typed, SentInv, StagesInv, NEW c \in Calls, Submit(c) \/ Executor(c) \/ Container(c)
    PROVE  Typed'
<1> USE DEF Typed, Stages, ResultStages, TaskStages, Goes, Tell, TaskGoes, callVars, taskVars,
            regVars
<1>1. CASE Submit(c)
  <2>1. PICK t \in Txs : sent' = [sent EXCEPT ![c] = t]
    BY <1>1, ExecutionConstants, ZenonT(60) DEF Submit
  <2>2. sent' \in [Calls -> Txs \union {None}]
    BY <2>1
  <2> QED
    BY <1>1, <2>2, SMTT(60) DEF Submit
<1>2. CASE SetLocks(c) \/ SetQueues(c) \/ ExecLocks(c)
  BY <1>2, SMTT(60) DEF SetLocks, SetQueues, ExecLocks
<1>3. CASE NoProgram(c)
  BY <1>3, SMTT(30) DEF NoProgram
<1>4. CASE AddCall(c)
  BY <1>4, AddedExecutes, ZenonT(60) DEF AddCall
<1>5. CASE Execute(c) \/ InsertHandle(c)
  BY <1>5, SMTT(60) DEF Execute, InsertHandle
<1>6. CASE TakeHandle(c)
  <2>1. sent[c] \in Txs
    BY <1>6, SMTT(60) DEF TakeHandle, SentInv, StagesInv, Staged
  <2> QED
    BY <1>6, <2>1, SMTT(60) DEF TakeHandle
<1>7. CASE JoinTask(c)
  BY <1>7, SMTT(30) DEF JoinTask
<1>8. CASE CompletedExec(c)
  BY <1>8, CompletedStartsNone, ZenonT(60) DEF CompletedExec
<1>9. CASE CallSuccess(c)
  BY <1>9, SMTT(60) DEF CallSuccess
<1>10. CASE OpenOutput(c) \/ RunContainer(c) \/ CastResults(c) \/ RemoveOutput(c)
  BY <1>10, ZenonT(60) DEF OpenOutput, RunContainer, CastResults, RemoveOutput
<1>11. CASE TaskFails(c)
  BY <1>11 DEF TaskFails
<1> QED
  BY <1>1, <1>2, <1>3, <1>4, <1>5, <1>6, <1>7, <1>8, <1>9, <1>10, <1>11
  DEF Executor, Container

\* So does a step of a registration. Each step of a bundle leads to another.
LEMMA TypedRegStep ==
    ASSUME Typed, NEW r \in Registrations, RegisterProgram(r) \/ Creation(r)
    PROVE  Typed'
<1> USE ExecutionConstants DEF Typed, RegStages, Parts, Tell, RegGoes, callVars, taskVars, regVars
<1>1. CASE RegisterProgram(r) \/ PinLocks(r) \/ Pinned(r)
  BY <1>1, SMTT(60) DEF RegisterProgram, PinLocks, Pinned
<1>2. ASSUME NEW part \in Parts, Makes(r, part) \/ Skips(r, part)
      PROVE  Typed'
  BY <1>2, SMTT(60) DEF Makes, Skips, After
<1>3. CASE \/ ReadPackage(r) \/ WriteObjects(r) \/ BundleRoot(r) \/ AddPayload(r)
           \/ BaseSpec(r) \/ CustomizeSpec(r)
  BY <1>2, <1>3
  DEF ReadPackage, WriteObjects, BundleRoot, AddPayload, BaseSpec, CustomizeSpec
<1>4. CASE BundleFails(r) \/ RegistrationEnds(r)
  BY <1>4, SMTT(60) DEF BundleFails, RegistrationEnds
<1> QED
  BY <1>1, <1>3, <1>4 DEF Creation

\* The lock of the engine passes from hand to hand: whoever is at a stage under it took it
\* when it was free.
LEMMA LockedStep ==
    ASSUME Typed, SentInv, Locked, Next
    PROVE  Locked'
<1> USE ExecutionConstants DEF Locked, Typed, Goes, Lock, Unlock, callVars, taskVars, regVars
<1>1. ASSUME NEW c \in Calls, Submit(c) \/ Executor(c) \/ Container(c)
      PROVE  Locked'
  <2>1. CASE Submit(c)
    BY <2>1 DEF Submit
  <2>2. CASE SetLocks(c) \/ ExecLocks(c)
    BY <2>2, SMTT(60) DEF SetLocks, ExecLocks
  <2>3. CASE SetQueues(c) \/ NoProgram(c)
    BY <2>3, SMTT(30) DEF SetQueues, NoProgram
  <2>4. CASE AddCall(c)
    BY <2>4, AddedExecutes, ZenonT(60) DEF AddCall
  <2>5. CASE Execute(c) \/ InsertHandle(c)
    BY <2>5, SMTT(60) DEF Execute, InsertHandle
  <2>6. CASE CompletedExec(c)
    BY <2>6, CompletedStartsNone, ZenonT(60) DEF CompletedExec
  <2>7. CASE TakeHandle(c) \/ JoinTask(c) \/ CallSuccess(c)
    BY <2>7, ZenonT(60) DEF TakeHandle, JoinTask, CallSuccess
  <2>8. CASE Container(c)
    BY <2>8 DEF Container, OpenOutput, RunContainer, TaskFails, CastResults, RemoveOutput
  <2> QED
    BY <1>1, <2>1, <2>2, <2>3, <2>4, <2>5, <2>6, <2>7, <2>8 DEF Executor
<1>2. ASSUME NEW r \in Registrations, RegisterProgram(r) \/ Creation(r)
      PROVE  Locked'
  <2> USE DEF RegGoes
  <2>1. CASE RegisterProgram(r) \/ PinLocks(r) \/ Pinned(r)
    BY <2>1, SMTT(60) DEF RegisterProgram, PinLocks, Pinned
  <2>2. ASSUME NEW part \in Parts, Makes(r, part) \/ Skips(r, part)
        PROVE  Locked'
    BY <2>2, SMTT(60) DEF Makes, Skips, After, Parts
  <2>3. CASE \/ ReadPackage(r) \/ WriteObjects(r) \/ BundleRoot(r) \/ AddPayload(r)
             \/ BaseSpec(r) \/ CustomizeSpec(r)
    BY <2>2, <2>3
    DEF ReadPackage, WriteObjects, BundleRoot, AddPayload, BaseSpec, CustomizeSpec, Parts
  <2>4. CASE BundleFails(r) \/ RegistrationEnds(r)
    BY <2>4, ZenonT(60) DEF BundleFails, RegistrationEnds, Parts
  <2> QED
    BY <1>2, <2>1, <2>3, <2>4 DEF Creation
<1> HIDE DEF Locked, Typed
<1> QED
  BY <1>1, <1>2, Zenon DEF Next

-----------------------------------------------------------------------------
\* A call comes once, with its transaction, and keeps it.
LEMMA SentStep ==
    ASSUME Typed, SentInv, Next
    PROVE  /\ SentInv'
           /\ \A c \in Calls : sent[c] # None => sent'[c] = sent[c]
<1> USE ExecutionConstants DEF SentInv, Typed, Goes, callVars
<1>1. ASSUME NEW c \in Calls, Submit(c)
      PROVE  /\ SentInv'
             /\ \A d \in Calls : sent[d] # None => sent'[d] = sent[d]
  BY <1>1, SMTT(60) DEF Submit
<1>2. ASSUME NEW c \in Calls, Executor(c) \/ Container(c)
      PROVE  sent' = sent /\ SentInv'
  <2>1. CASE SetLocks(c) \/ SetQueues(c) \/ ExecLocks(c) \/ Execute(c) \/ InsertHandle(c)
    BY <2>1, SMTT(60) DEF SetLocks, SetQueues, ExecLocks, Execute, InsertHandle
  <2>2. CASE NoProgram(c) \/ CallSuccess(c)
    BY <2>2, SMTT(60) DEF NoProgram, CallSuccess
  <2>3. CASE AddCall(c)
    BY <2>3, AddedExecutes, ZenonT(60) DEF AddCall
  <2>4. CASE CompletedExec(c)
    BY <2>4, CompletedStartsNone, ZenonT(60) DEF CompletedExec
  <2>5. CASE TakeHandle(c) \/ JoinTask(c)
    BY <2>5, SMTT(60) DEF TakeHandle, JoinTask
  <2>6. CASE Container(c)
    BY <2>6, SMTT(60)
    DEF Container, OpenOutput, RunContainer, TaskFails, CastResults, RemoveOutput
  <2> QED
    BY <1>2, <2>1, <2>2, <2>3, <2>4, <2>5, <2>6 DEF Executor
<1>3. ASSUME NEW r \in Registrations, RegisterProgram(r) \/ Creation(r)
      PROVE  sent' = sent /\ SentInv'
  BY <1>3, RegistrationsLeaveCalls
<1> HIDE DEF SentInv, Typed
<1> QED
  BY <1>1, <1>2, <1>3, Zenon DEF Next

\* What the results of a call depend on.
taking == <<sent, call, results, task, handles, awaited, resent>>

\* The steps of calls that touch the stages of a call beyond its start, by what they change.
LEMMA TakingSteps ==
    ASSUME Typed, SentInv, Next
    PROVE  \/ UNCHANGED taking
           \/ \E c \in Calls :
                 \/ Submit(c) \/ Execute(c) \/ InsertHandle(c) \/ TakeHandle(c) \/ JoinTask(c)
                 \/ Container(c)
                 \/ /\ UNCHANGED <<sent, results, task, handles, awaited, resent>>
                    /\ \E from \in {"setting", "parsing", "queued", "executing", "spawning"},
                          to \in {"parsing", "queued", "executing", "spawning", "failed"} :
                          Goes(c, from, to)
                 \/ /\ UNCHANGED <<sent, task, handles, awaited, resent>>
                    /\ \/ /\ results[c] \in {"succeeded", "unheard"} /\ UNCHANGED call
                          /\ \E to \in {"completed", "logged"} :
                                /\ results' = [results EXCEPT ![c] = to]
                                /\ to = "completed" <=> results[c] = "succeeded"
                       \/ /\ UNCHANGED results
                          /\ results[c] \in {"succeeded", "completed"}
                          /\ Goes(c, "running", "ended")
<1>1. ASSUME NEW c \in Calls, SetLocks(c) \/ SetQueues(c) \/ ExecLocks(c) \/ NoProgram(c)
      PROVE  /\ UNCHANGED <<sent, results, task, handles, awaited, resent>>
             /\ \E from \in {"setting", "parsing", "queued", "executing", "spawning"},
                   to \in {"parsing", "queued", "executing", "spawning", "failed"} :
                   Goes(c, from, to)
  BY <1>1, ZenonT(60) DEF SetLocks, SetQueues, ExecLocks, NoProgram, taskVars
<1>2. ASSUME NEW c \in Calls, AddCall(c)
      PROVE  /\ UNCHANGED <<sent, results, task, handles, awaited, resent>>
             /\ Goes(c, "queued", "executing")
  BY <1>2, AddedExecutes, ZenonT(60) DEF AddCall, taskVars
<1>3. ASSUME NEW c \in Calls, CompletedExec(c)
      PROVE  /\ UNCHANGED <<sent, task, handles, awaited, resent>>
             /\ results[c] \in {"succeeded", "unheard"} /\ UNCHANGED call
             /\ \E to \in {"completed", "logged"} :
                   /\ results' = [results EXCEPT ![c] = to]
                   /\ to = "completed" <=> results[c] = "succeeded"
  <2>1. /\ UNCHANGED <<sent, task, handles, awaited, resent>>
        /\ results[c] \in {"succeeded", "unheard"} /\ UNCHANGED call
    BY <1>3, CompletedStartsNone, ZenonT(60) DEF CompletedExec, taskVars
  <2>2. results' = [results EXCEPT ![c] = IF results[c] = "unheard" THEN "logged" ELSE "completed"]
    BY <1>3 DEF CompletedExec
  <2> QED
    BY <2>1, <2>2
<1>4. ASSUME NEW c \in Calls, CallSuccess(c)
      PROVE  /\ UNCHANGED <<sent, task, handles, awaited, resent, results>>
             /\ results[c] \in {"succeeded", "completed"}
             /\ Goes(c, "running", "ended")
  BY <1>4, ZenonT(60) DEF CallSuccess, taskVars
<1>5. ASSUME NEW r \in Registrations, RegisterProgram(r) \/ Creation(r)
      PROVE  UNCHANGED taking
  BY <1>5, RegistrationsLeaveCalls, ZenonT(60) DEF taking, taskVars
<1> QED
  BY <1>1, <1>2, <1>3, <1>4, <1>5, ZenonT(60) DEF Next, Executor

\* The task of a call changes no stage but its own, and casts its results once.
LEMMA ContainerTaking ==
    ASSUME Typed, NEW c \in Calls, Container(c)
    PROVE  /\ UNCHANGED <<sent, call, handles, awaited, resent>>
           /\ task[c] \notin {"none", "done", "failed"}
           /\ \E to \in {"opened", "ended", "cast", "done", "failed"} :
                 /\ task' = [task EXCEPT ![c] = to]
                 /\ \/ UNCHANGED results /\ task[c] = "cast" /\ to \in {"done", "failed"}
                    \/ UNCHANGED results /\ task[c] # "cast" /\ to \in {"opened", "ended", "failed"}
                    \/ /\ task[c] = "ended" /\ to = "cast"
                       /\ results' = [results EXCEPT ![c] = "cast"]
<1> USE DEF TaskGoes, callVars
<1>1. CASE OpenOutput(c)
  BY <1>1, ZenonT(60) DEF OpenOutput
<1>2. CASE RunContainer(c)
  BY <1>2, ZenonT(60) DEF RunContainer
<1>3. CASE TaskFails(c)
  BY <1>3, ZenonT(60) DEF TaskFails
<1>4. CASE CastResults(c)
  BY <1>4, ZenonT(60) DEF CastResults
<1>5. CASE RemoveOutput(c)
  <2>1. CASE FileOf(c) = None
    BY <1>5, <2>1, ZenonT(60) DEF RemoveOutput
  <2>2. CASE FileOf(c) # None
    BY <1>5, <2>2, ZenonT(60) DEF RemoveOutput
  <2> QED
    BY <2>1, <2>2
<1> QED
  BY <1>1, <1>2, <1>3, <1>4, <1>5 DEF Container

\* The executor, the task and the results of a call stay as far from each other as they may.
LEMMA StagesStep ==
    ASSUME Typed, Locked, SentInv, StagesInv, Next
    PROVE  StagesInv'
<1> USE ExecutionConstants DEF StagesInv, Staged, Typed, Goes
<1>1. CASE UNCHANGED taking
  BY <1>1, ZenonT(60) DEF taking
<1>2. ASSUME NEW c \in Calls, Submit(c)
      PROVE  StagesInv'
  BY <1>2, SMTT(60) DEF Submit, taskVars
<1>3. ASSUME NEW c \in Calls, Execute(c)
      PROVE  StagesInv'
  BY <1>3, SMTT(60) DEF Execute
<1>4. ASSUME NEW c \in Calls, InsertHandle(c)
      PROVE  StagesInv'
  BY <1>4, SMTT(60) DEF InsertHandle, taskVars
<1>5. ASSUME NEW c \in Calls, TakeHandle(c)
      PROVE  StagesInv'
  <2>1. call[c] = "running" /\ sent[c] \in Txs
    BY <1>5, SMTT(60) DEF TakeHandle, Locked, SentInv
  <2>2. handles[sent[c]] \in Calls \union {None}
    BY <2>1
  <2>3. /\ results' = [results EXCEPT ![c] =
                          IF handles[sent[c]] = None THEN "lost" ELSE "awaiting"]
        /\ awaited' = [awaited EXCEPT ![c] = handles[sent[c]]]
        /\ UNCHANGED <<call, task>>
    BY <1>5, ZenonT(60) DEF TakeHandle, taskVars
  <2> QED
    BY <1>5, <2>1, <2>2, <2>3, SMTT(60) DEF TakeHandle
<1>6. ASSUME NEW c \in Calls, JoinTask(c)
      PROVE  StagesInv'
  BY <1>6, SMTT(60) DEF JoinTask, taskVars
<1>7. ASSUME NEW c \in Calls, Container(c)
      PROVE  StagesInv'
  BY <1>7, ContainerTaking, SMTT(60)
<1>8. ASSUME NEW c \in Calls, UNCHANGED <<sent, results, task, handles, awaited, resent>>,
             \E from \in {"setting", "parsing", "queued", "executing", "spawning"},
                to \in {"parsing", "queued", "executing", "spawning", "failed"} : Goes(c, from, to)
      PROVE  StagesInv'
  BY <1>8, SMTT(60)
<1>9. ASSUME NEW c \in Calls, UNCHANGED <<sent, task, handles, awaited, resent>>,
             \/ /\ results[c] \in {"succeeded", "unheard"} /\ UNCHANGED call
                /\ \E to \in {"completed", "logged"} :
                      /\ results' = [results EXCEPT ![c] = to]
                      /\ to = "completed" <=> results[c] = "succeeded"
             \/ /\ UNCHANGED results
                /\ results[c] \in {"succeeded", "completed"}
                /\ Goes(c, "running", "ended")
      PROVE  StagesInv'
  BY <1>9, SMTT(60)
<1> HIDE DEF StagesInv, Typed, Goes
<1> QED
  BY <1>1, <1>2, <1>3, <1>4, <1>5, <1>6, <1>7, <1>8, <1>9, TakingSteps, ZenonT(60)

\* That the results of a call took a handle stays so.
LEMMA TwinTookKept ==
    ASSUME Typed, SentInv, StagesInv, Next,
           \A d \in Calls : awaited[d] # None => awaited'[d] # None,
           NEW c \in Calls, sent[c] # None, TwinTook(c)
    PROVE  TwinTook(c)'
<1>1. PICK d \in Calls \ {c} : sent[d] = sent[c] /\ awaited[d] # None
  BY DEF TwinTook
<1>2. sent'[d] = sent[d] /\ sent'[c] = sent[c]
  BY <1>1, SentStep
<1> QED
  BY <1>1, <1>2 DEF TwinTook

\* results can take the handle only when the lock is free, and exec gives up the lock only
\* when the handle is in the map. Only results of a call of the transaction take it out.
LEMMA HandlesStep ==
    ASSUME Typed, Locked, SentInv, StagesInv, HandlesInv, Next
    PROVE  HandlesInv'
<1> SUFFICES ASSUME NEW d \in Calls PROVE Handled(d)'
    BY DEF HandlesInv
<1> USE ExecutionConstants DEF Typed
<1>1. Handled(d) /\ Staged(d)
  BY ZenonT(60) DEF HandlesInv, StagesInv
<1>2. ASSUME \A e \in Calls : awaited[e] # None => awaited'[e] # None,
             call'[d] = "running" /\ results'[d] \in {"none", "cast"} =>
                /\ call[d] = "running" /\ results[d] \in {"none", "cast"}
                /\ handles[sent[d]] # None => handles'[sent[d]] # None,
             results'[d] = "lost" => results[d] = "lost"
      PROVE  Handled(d)'
  <2>1. ASSUME call[d] # "idle"
        PROVE  sent[d] # None /\ sent'[d] = sent[d]
    BY <2>1, SentStep DEF SentInv
  <2>2. results[d] = "lost" => call[d] # "idle"
    BY <1>1 DEF Staged
  <2> QED
    BY <1>1, <1>2, <2>1, <2>2, TwinTookKept, SMTT(60) DEF Handled
<1>3. CASE UNCHANGED taking
  BY <1>2, <1>3, SMTT(60) DEF taking
<1>4. ASSUME NEW c \in Calls, Submit(c) \/ Execute(c)
      PROVE  Handled(d)'
  BY <1>2, <1>4, SMTT(60) DEF Submit, Execute, Goes, taskVars
<1>5. ASSUME NEW c \in Calls, InsertHandle(c)
      PROVE  Handled(d)'
  <2>1. sent[c] \in Txs
    BY <1>5 DEF InsertHandle, Goes, SentInv
  <2>2. /\ handles' = [handles EXCEPT ![sent[c]] = c] /\ call' = [call EXCEPT ![c] = "running"]
        /\ UNCHANGED <<sent, results, awaited>>
    BY <1>5, ZenonT(60) DEF InsertHandle, Goes
  <2>3. CASE d = c
    <3>1. handles'[sent'[d]] # None
      BY <2>1, <2>2, <2>3
    <3>2. results'[d] # "lost"
      BY <1>1, <1>5, <2>2, <2>3, SMTT(60) DEF Staged, InsertHandle, Goes
    <3> QED
      BY <3>1, <3>2 DEF Handled
  <2>4. CASE d # c
    <3>1. call[d] # "idle" => sent[d] \in Txs
      BY DEF SentInv
    <3> QED
      BY <1>2, <2>1, <2>2, <2>4, <3>1, SMTT(60)
  <2> QED
    BY <2>3, <2>4
<1>6. ASSUME NEW c \in Calls, TakeHandle(c)
      PROVE  Handled(d)'
  <2>1. call[c] = "running" /\ sent[c] \in Txs
    BY <1>6, SMTT(60) DEF TakeHandle, Locked, SentInv, StagesInv, Staged
  <2>2. /\ results[c] = "cast"
        /\ results' = [results EXCEPT ![c] =
                          IF handles[sent[c]] = None THEN "lost" ELSE "awaiting"]
        /\ awaited' = [awaited EXCEPT ![c] = handles[sent[c]]]
        /\ handles' = [handles EXCEPT ![sent[c]] = None]
        /\ UNCHANGED <<sent, call>>
    BY <1>6, ZenonT(60) DEF TakeHandle
  <2>3. awaited[c] = None
    BY <2>2 DEF StagesInv, Staged
  <2>4. \A e \in Calls : awaited[e] # None => awaited'[e] # None
    BY <2>2, <2>3
  <2>5. CASE handles[sent[c]] = None
    <3>1. handles' = handles
      BY <2>1, <2>2, <2>5
    <3>2. TwinTook(c)'
      BY <2>1, <2>2, <2>4, <2>5, TwinTookKept DEF HandlesInv, Handled
    <3>3. CASE d = c
      BY <2>2, <2>5, <3>2, <3>3, ZenonT(60) DEF Handled
    <3>4. CASE d # c
      BY <1>2, <2>2, <2>4, <3>1, <3>4, SMTT(60)
    <3> QED
      BY <3>3, <3>4
  <2>6. CASE handles[sent[c]] # None
    <3>1. results'[c] = "awaiting" /\ awaited'[c] # None
      BY <2>2, <2>6
    <3>2. CASE d = c
      BY <3>1, <3>2 DEF Handled
    <3>3. CASE d # c /\ sent[d] = sent[c]
      <4>1. TwinTook(d)'
        BY <2>2, <3>1, <3>3, ZenonT(60) DEF TwinTook
      <4> QED
        BY <4>1 DEF Handled
    <3>4. CASE d # c /\ sent[d] # sent[c]
      <4>1. handles'[sent[d]] = handles[sent[d]] \/ sent[d] \notin Txs
        BY <2>1, <2>2, <3>4
      <4>2. call[d] # "idle" => sent[d] \in Txs
        BY DEF SentInv
      <4> QED
        BY <1>2, <2>2, <2>4, <3>4, <4>1, <4>2, SMTT(60)
    <3> QED
      BY <3>2, <3>3, <3>4
  <2> QED
    BY <2>5, <2>6
<1>7. ASSUME NEW c \in Calls, JoinTask(c)
      PROVE  Handled(d)'
  BY <1>2, <1>7, SMTT(60) DEF JoinTask
<1>8. ASSUME NEW c \in Calls, Container(c)
      PROVE  Handled(d)'
  <2>1. results'[d] # results[d] => task[d] = "ended" /\ results'[d] = "cast"
    BY <1>8, ContainerTaking, SMTT(60)
  <2>2. UNCHANGED <<sent, call, handles, awaited>>
    BY <1>8, ContainerTaking
  <2>3. task[d] = "ended" => results[d] = "none"
    BY <1>1 DEF Staged
  <2> QED
    BY <1>2, <2>1, <2>2, <2>3, SMTT(60)
<1>9. ASSUME NEW c \in Calls, UNCHANGED <<sent, results, task, handles, awaited, resent>>,
             \E from \in {"setting", "parsing", "queued", "executing", "spawning"},
                to \in {"parsing", "queued", "executing", "spawning", "failed"} : Goes(c, from, to)
      PROVE  Handled(d)'
  BY <1>2, <1>9, SMTT(60) DEF Goes
<1>10. ASSUME NEW c \in Calls, UNCHANGED <<sent, task, handles, awaited, resent>>,
              \/ /\ results[c] \in {"succeeded", "unheard"} /\ UNCHANGED call
                 /\ \E to \in {"completed", "logged"} :
                       /\ results' = [results EXCEPT ![c] = to]
                       /\ to = "completed" <=> results[c] = "succeeded"
              \/ /\ UNCHANGED results
                 /\ results[c] \in {"succeeded", "completed"}
                 /\ Goes(c, "running", "ended")
      PROVE  Handled(d)'
  BY <1>2, <1>10, SMTT(60) DEF Goes
<1> QED
  BY <1>3, <1>4, <1>5, <1>6, <1>7, <1>8, <1>9, <1>10, TakingSteps, ZenonT(60)

\* Results are to be taken only of a task that exec started.
LEMMA UnsettledSteps ==
    ASSUME Typed, SentInv, StagesInv, Next
    PROVE  \/ \A c \in Calls : Unsettled(c)' => Unsettled(c)
           \/ \E c \in Calls : Execute(c)
<1> USE ExecutionConstants DEF Typed, Unsettled, Running
<1>1. CASE UNCHANGED taking
  BY <1>1, ZenonT(60) DEF taking
<1>2. ASSUME NEW c \in Calls, Container(c)
      PROVE  \A d \in Calls : Unsettled(d)' => Unsettled(d)
  BY <1>2, ContainerTaking, SMTT(60) DEF StagesInv, Staged
<1>3. ASSUME NEW c \in Calls,
             Submit(c) \/ InsertHandle(c) \/ TakeHandle(c) \/ JoinTask(c)
      PROVE  \A d \in Calls : Unsettled(d)' => Unsettled(d)
  BY <1>3, SMTT(60) DEF Submit, InsertHandle, TakeHandle, JoinTask, taskVars
<1>4. ASSUME NEW c \in Calls, UNCHANGED task,
             \/ UNCHANGED results
             \/ \E to \in {"completed", "logged"} : results' = [results EXCEPT ![c] = to]
      PROVE  \A d \in Calls : Unsettled(d)' => Unsettled(d)
  BY <1>4, SMTT(60)
<1> HIDE DEF Typed, Unsettled, Running
<1> QED
  BY <1>1, <1>2, <1>3, <1>4, TakingSteps, ZenonT(60)

\* What ran at the same time, or came again, stays known.
LEMMA HistoryGrows ==
    ASSUME Next
    PROVE  overlapped \subseteq overlapped' /\ resent \subseteq resent'
<1>1. ASSUME NEW c \in Calls, Execute(c)
      PROVE  overlapped \subseteq overlapped' /\ resent \subseteq resent'
  BY <1>1 DEF Execute
<1>2. ASSUME NEW c \in Calls, Submit(c) \/ Executor(c) \/ Container(c), ~Execute(c)
      PROVE  UNCHANGED <<overlapped, resent>>
  BY <1>2, ZenonT(60)
  DEF taskVars, Submit, Executor, SetLocks, SetQueues, NoProgram, AddCall, ExecLocks,
      InsertHandle, TakeHandle, JoinTask, CompletedExec, CallSuccess,
      Container, OpenOutput, RunContainer, TaskFails, CastResults, RemoveOutput
<1>3. ASSUME NEW r \in Registrations, RegisterProgram(r) \/ Creation(r)
      PROVE  UNCHANGED <<overlapped, resent>>
  BY <1>3, RegistrationsLeaveCalls DEF taskVars
<1> QED
  BY <1>1, <1>2, <1>3, ZenonT(60) DEF Next

\* While a transaction has not come again, the handle under it is the one of its only task
\* whose results are to be taken: exec replaces it only when it comes again, which it notes.
LEMMA LoneStep ==
    ASSUME Typed, Locked, SentInv, StagesInv, HandlesInv, LoneInv, Next
    PROVE  LoneInv'
<1> SUFFICES ASSUME NEW d \in Calls \ resent' PROVE Lone(d)'
    BY DEF LoneInv
<1> USE ExecutionConstants
<1>2. Lone(d) /\ Staged(d)
  BY HistoryGrows DEF LoneInv, StagesInv
<1>3. ASSUME \A e \in Calls : Unsettled(e)' => Unsettled(e),
             \A e \in Calls : call'[e] = "spawned" => call[e] = "spawned",
             call'[d] = "running" => call[d] = "running",
             Unsettled(d) /\ call[d] = "running" => handles'[sent[d]] = handles[sent[d]],
             awaited'[d] = awaited[d],
             results'[d] = "lost" => results[d] = "lost"
      PROVE  Lone(d)'
  <2>1. Unsettled(d)' => sent[d] # None /\ sent'[d] = sent[d]
    <3>1. Unsettled(d) => call[d] # "idle"
      BY <1>2 DEF Unsettled, Running, Staged, Typed
    <3> QED
      BY <1>3, <3>1, SentStep DEF SentInv
  <2>2. ASSUME NEW e \in Calls \ {d}, Unsettled(d)', sent'[e] = sent'[d]
        PROVE  ~Unsettled(e)' /\ call'[e] # "spawned"
    <3>1. CASE sent[e] = sent[d]
      BY <1>2, <1>3, <2>2, <3>1 DEF Lone
    <3>2. CASE sent[e] # sent[d]
      <4>1. sent[e] = None
        BY <2>1, <2>2, <3>2, SentStep, ZenonT(60)
      <4>2. call[e] = "idle" /\ task[e] = "none" /\ results[e] = "none"
        BY <4>1, SMTT(60) DEF SentInv, StagesInv, Staged
      <4>3. ~Unsettled(e) /\ call[e] # "spawned"
        BY <4>2 DEF Unsettled, Running
      <4> QED
        BY <1>3, <4>3
    <3> QED
      BY <3>1, <3>2
  <2>3. Unsettled(d)' /\ call'[d] = "running" => handles'[sent'[d]] = d
    BY <1>2, <1>3, <2>1 DEF Lone
  <2> QED
    BY <1>2, <1>3, <2>2, <2>3 DEF Lone
<1>4. CASE UNCHANGED taking
  BY <1>3, <1>4, ZenonT(60) DEF taking, Unsettled, Running
<1>5. ASSUME NEW c \in Calls, Execute(c)
      PROVE  Lone(d)'
  <2>1. /\ call[c] = "spawning" /\ lock = c /\ call' = [call EXCEPT ![c] = "spawned"]
        /\ task' = [task EXCEPT ![c] = "starting"]
        /\ resent' = resent \union WithRivals(c, Twins(c))
        /\ UNCHANGED <<sent, results, handles, awaited>>
    BY <1>5, ZenonT(60) DEF Execute, Goes
  <2>2. Twins(c) = {} \/ d \notin Twins(c) \union {c}
    BY <2>1 DEF WithRivals
  <2>3. \A e \in Calls : e # c => (Unsettled(e)' <=> Unsettled(e)) /\ call'[e] = call[e]
    BY <2>1, SMTT(60) DEF Unsettled, Running, Typed
  <2>4. \A e \in Calls : e # c => call[e] # "spawned"
    BY <2>1 DEF Locked
  <2>5. CASE d = c
    <3>1. \A e \in Calls \ {c} : sent[e] = sent[c] => ~Unsettled(e)
      BY <2>2, <2>5 DEF Twins, Unsettled
    <3>2. call'[c] = "spawned"
      BY <2>1 DEF Typed
    <3> QED
      BY <1>2, <2>1, <2>3, <2>4, <2>5, <3>1, <3>2, ZenonT(60) DEF Lone
  <2>6. CASE d # c
    <3>1. Unsettled(d) => sent[c] # sent[d]
      BY <2>2, <2>6 DEF Twins, Unsettled
    <3>2. ASSUME NEW e \in Calls \ {d}, Unsettled(d)', sent'[e] = sent'[d]
          PROVE  ~Unsettled(e)' /\ call'[e] # "spawned"
      <4>1. e # c /\ Unsettled(d) /\ sent[e] = sent[d]
        BY <2>1, <2>3, <2>6, <3>1, <3>2
      <4>2. ~Unsettled(e) /\ call[e] # "spawned"
        BY <1>2, <4>1 DEF Lone
      <4> QED
        BY <2>3, <4>1, <4>2
    <3>3. Unsettled(d)' /\ call'[d] = "running" => handles'[sent'[d]] = d
      BY <1>2, <2>1, <2>3, <2>6 DEF Lone
    <3> QED
      BY <1>2, <2>1, <3>2, <3>3 DEF Lone
  <2> QED
    BY <2>5, <2>6
<1>6. CASE ~\E c \in Calls : Execute(c)
  <2>1. \A e \in Calls : Unsettled(e)' => Unsettled(e)
    BY <1>6, UnsettledSteps
  <2>2. ASSUME NEW c \in Calls, Submit(c) \/ JoinTask(c)
        PROVE  Lone(d)'
    <3>1. /\ UNCHANGED <<handles, awaited>>
          /\ \A e \in Calls : call'[e] \in {call[e], "setting"}
          /\ results'[d] = "lost" => results[d] = "lost"
      BY <2>2, SMTT(60) DEF Submit, JoinTask, Goes, Typed
    <3> QED
      BY <1>3, <2>1, <3>1
  <2>3. ASSUME NEW c \in Calls, Container(c)
        PROVE  Lone(d)'
    <3>1. /\ UNCHANGED <<call, handles, awaited>>
          /\ results'[d] = "lost" => results[d] = "lost"
      BY <2>3, ContainerTaking, SMTT(60) DEF Typed
    <3> QED
      BY <1>3, <2>1, <3>1, ZenonT(60)
  <2>4. ASSUME NEW c \in Calls, UNCHANGED <<sent, task, handles, awaited, resent>>,
               \/ UNCHANGED results /\ \E from \in Stages \ {"idle"},
                                          to \in Stages \ {"spawned", "running"} : Goes(c, from, to)
               \/ UNCHANGED call /\ \E to \in {"completed", "logged"} :
                                          results' = [results EXCEPT ![c] = to]
        PROVE  Lone(d)'
    <3>1. /\ \A e \in Calls : call'[e] \in {"spawned", "running"} => call'[e] = call[e]
          /\ results'[d] = "lost" => results[d] = "lost"
      BY <2>4, SMTT(60) DEF Goes, Typed
    <3> QED
      BY <1>3, <2>1, <2>4, <3>1
  <2>5. ASSUME NEW c \in Calls, InsertHandle(c)
        PROVE  Lone(d)'
    <3>1. /\ call[c] = "spawned" /\ call' = [call EXCEPT ![c] = "running"]
          /\ handles' = [handles EXCEPT ![sent[c]] = c]
          /\ UNCHANGED <<sent, results, awaited>>
      BY <2>5, ZenonT(60) DEF InsertHandle, Goes
    <3>2. sent[c] \in Txs
      BY <3>1 DEF SentInv, Typed
    <3>3. CASE d = c
      <4>1. handles'[sent'[d]] = d
        BY <3>1, <3>2, <3>3 DEF Typed
      <4>2. \A e \in Calls \ {d} : call'[e] = call[e]
        BY <3>1, <3>3 DEF Typed
      <4> QED
        BY <1>2, <2>1, <3>1, <4>1, <4>2 DEF Lone
    <3>4. CASE d # c
      <4>1. call'[d] = call[d] /\ \A e \in Calls : call'[e] = "spawned" => call[e] = "spawned"
        BY <3>1, <3>4 DEF Typed
      <4>2. Unsettled(d) => sent[c] # sent[d]
        BY <1>2, <3>1, <3>4 DEF Lone
      <4>3. call[d] = "running" => sent[d] \in Txs
        BY DEF SentInv, Typed
      <4>4. Unsettled(d) /\ call[d] = "running" => handles'[sent[d]] = handles[sent[d]]
        BY <3>1, <3>2, <4>2, <4>3, ZenonT(60) DEF Typed
      <4> QED
        BY <1>3, <2>1, <3>1, <4>1, <4>4
    <3> QED
      BY <3>3, <3>4
  <2>6. ASSUME NEW c \in Calls, TakeHandle(c)
        PROVE  Lone(d)'
    <3>1. call[c] = "running" /\ sent[c] \in Txs
      BY <2>6, SMTT(60) DEF TakeHandle, Locked, SentInv, StagesInv, Staged, Typed
    <3>2. /\ results[c] = "cast"
          /\ results' = [results EXCEPT ![c] =
                            IF handles[sent[c]] = None THEN "lost" ELSE "awaiting"]
          /\ awaited' = [awaited EXCEPT ![c] = handles[sent[c]]]
          /\ handles' = [handles EXCEPT ![sent[c]] = None]
          /\ UNCHANGED <<sent, call, task>>
      BY <2>6, ZenonT(60) DEF TakeHandle, taskVars
    <3>3. Unsettled(c)
      BY <3>2 DEF Unsettled
    <3>4. CASE d = c
      <4>1. handles[sent[c]] = c
        BY <1>2, <3>1, <3>3, <3>4 DEF Lone
      <4>2. results'[c] = "awaiting" /\ awaited'[c] = c
        BY <3>2, <4>1, ZenonT(60) DEF Typed
      <4>3. ~Unsettled(c)'
        BY <4>2 DEF Unsettled
      <4> QED
        BY <3>4, <4>2, <4>3 DEF Lone
    <3>5. CASE d # c
      <4>1. awaited'[d] = awaited[d] /\ results'[d] = results[d]
        BY <3>2, <3>5 DEF Typed
      <4>2. Unsettled(d) => sent[c] # sent[d]
        BY <1>2, <3>3, <3>5 DEF Lone
      <4>3. call[d] = "running" => sent[d] \in Txs
        BY DEF SentInv, Typed
      <4>4. Unsettled(d) /\ call[d] = "running" => handles'[sent[d]] = handles[sent[d]]
        BY <3>1, <3>2, <4>2, <4>3 DEF Typed
      <4> QED
        BY <1>3, <2>1, <3>2, <4>1, <4>4
    <3> QED
      BY <3>4, <3>5
  <2> QED
    BY <1>4, <1>6, <2>2, <2>3, <2>4, <2>5, <2>6, TakingSteps, ZenonT(60) DEF Stages
<1> QED
  BY <1>5, <1>6

\* A registration goes past a part only with the part on disk, the payload and the spec
\* excepted, and past the configuration only with the spec as well. Nothing is removed, by
\* another registration of the program least of all.
LEMMA BundleStep ==
    ASSUME Typed, BundleInv, Next
    PROVE  BundleInv'
<1> USE ExecutionConstants DEF BundleInv, Built, Typed, RegGoes, regVars, callVars, taskVars
<1>1. ASSUME NEW c \in Calls, Submit(c) \/ Executor(c) \/ Container(c)
      PROVE  BundleInv'
  BY <1>1, CallsLeaveBundles, ZenonT(60)
<1>2. ASSUME NEW r \in Registrations, RegisterProgram(r) \/ Creation(r)
      PROVE  BundleInv'
  <2>1. CASE RegisterProgram(r) \/ PinLocks(r) \/ Pinned(r)
    BY <2>1, SMTT(60) DEF RegisterProgram, PinLocks, Pinned
  <2> USE DEF After
  <2>2. CASE ReadPackage(r)
    BY <2>2, ZenonT(60) DEF ReadPackage, Makes
  <2>3. CASE WriteObjects(r)
    BY <2>3, ZenonT(60) DEF WriteObjects, Makes
  <2>4. CASE BundleRoot(r)
    BY <2>4, ZenonT(60) DEF BundleRoot, Makes
  <2>5. CASE AddPayload(r)
    BY <2>5, SMTT(60) DEF AddPayload, Makes, Skips
  <2>6. CASE BaseSpec(r)
    BY <2>6, SMTT(60) DEF BaseSpec, Makes, Skips
  <2>7. CASE CustomizeSpec(r)
    BY <2>7, ZenonT(60) DEF CustomizeSpec, Makes
  <2>8. CASE BundleFails(r) \/ RegistrationEnds(r)
    <3>1. bundle' = bundle
      BY <2>8, ZenonT(60) DEF BundleFails, RegistrationEnds
    <3>2. \/ reg' = [reg EXCEPT ![r] = "failed"]
          \/ reg' = [reg EXCEPT ![r] = "logged"]
          \/ reg[r] = "bundled" /\ reg' = [reg EXCEPT ![r] = "announced"]
      BY <2>8, ZenonT(60) DEF BundleFails, RegistrationEnds
    <3> QED
      BY <3>1, <3>2, SMTT(60)
  <2> HIDE DEF BundleInv, Typed
  <2> QED
    BY <1>2, <2>1, <2>2, <2>3, <2>4, <2>5, <2>6, <2>7, <2>8, Zenon DEF Creation
<1> HIDE DEF BundleInv, Typed
<1> QED
  BY <1>1, <1>2, Zenon DEF Next

-----------------------------------------------------------------------------
\* The variables of the tasks, and the outputs passed on.
filing == <<sent, task, file, contents, fd, outputs, forwarded, overlapped>>

\* Only exec, the task itself and call_success touch a task, its files or its outputs.
LEMMA FilingSteps ==
    ASSUME Next
    PROVE  \/ UNCHANGED filing
           \/ \E c \in Calls : Submit(c) \/ Execute(c) \/ CallSuccess(c) \/ Container(c)
<1>1. ASSUME NEW c \in Calls, Executor(c)
      PROVE  UNCHANGED filing \/ Execute(c) \/ CallSuccess(c)
  BY <1>1, SMTT(30)
  DEF filing, taskVars, Executor, SetLocks, SetQueues, NoProgram, AddCall, ExecLocks,
      InsertHandle, TakeHandle, JoinTask, CompletedExec
<1>2. ASSUME NEW r \in Registrations, RegisterProgram(r) \/ Creation(r)
      PROVE  UNCHANGED filing
  BY <1>2, RegistrationsLeaveCalls DEF filing, taskVars
<1> QED
  BY <1>1, <1>2, ZenonT(60) DEF Next

\* A call keeps the content it is of.
LEMMA ContentKept ==
    ASSUME Typed, SentInv, Next, NEW c \in Calls, sent[c] # None
    PROVE  sent'[c] = sent[c] /\ Content(c)' = Content(c) /\ Content(c) \in ContentIds
BY SentStep, ExecutionConstants DEF Content, Typed

\* A file is at the path of the content of the call that made it, and a container writes to
\* a file of its own content.
LEMMA FilesStep ==
    ASSUME Typed, SentInv, StagesInv, Files, Next
    PROVE  Files'
<1> USE ExecutionConstants DEF Files, Typed, TaskGoes, callVars
<1> DEFINE Made(i) == file[i] # None => sent[file[i]] # None /\ Content(file[i]) = i
           Opened(c) == fd[c] # None =>
                          sent[c] # None /\ sent[fd[c]] # None /\ Content(fd[c]) = Content(c)
<1>1. CASE UNCHANGED filing
  BY <1>1, Zenon DEF filing, Content
<1>2. ASSUME NEW c \in Calls, Submit(c) \/ Execute(c) \/ CallSuccess(c) \/ Container(c)
      PROVE  Files'
  <2> DEFINE Kept == UNCHANGED <<file, fd>>
  <2>a. ASSUME Kept
        PROVE  (\A i \in ContentIds : Made(i)') /\ (\A d \in Calls : Opened(d)')
    <3>1. \A i \in ContentIds : Made(i)'
      BY <2>a, ContentKept, SMTT(60)
    <3>2. \A d \in Calls : Opened(d)'
      BY <2>a, ContentKept, SMTT(60)
    <3> QED
      BY <3>1, <3>2, ZenonT(60)
  <2>b. ASSUME Container(c)
        PROVE  sent[c] # None /\ sent' = sent /\ Content(c) \in ContentIds
    BY <2>b, ContainerTaking, ContentKept, SMTT(60) DEF SentInv, StagesInv, Staged
  <2>0. CASE Submit(c)
    BY <2>0, <2>a, SMTT(60) DEF Submit, taskVars
  <2>1. CASE Execute(c)
    <3>1. overlapped' \subseteq Calls
      BY <2>1, ZenonT(60) DEF Execute, WithRivals, Rivals
    <3> QED
      BY <2>1, <2>a, <3>1, SMTT(60) DEF Execute
  <2>2. CASE CallSuccess(c)
    <3>1. results[c] \in {"succeeded", "completed"} => awaited[c] \in Calls
      BY SMTT(60) DEF StagesInv, Staged
    <3>2. forwarded' \in [Calls -> Calls \union {"empty", "mixed", None}]
      BY <2>2, <3>1, SMTT(60) DEF CallSuccess
    <3>3. UNCHANGED <<task, file, contents, fd, outputs, overlapped>>
      BY <2>2, Zenon DEF CallSuccess, taskVars
    <3> QED
      BY <2>a, <3>2, <3>3, SMTT(60)
  <2>3. CASE OpenOutput(c)
    <3> DEFINE f == IF FileOf(c) = None THEN c ELSE FileOf(c)
    <3>0. Container(c)
      BY <2>3 DEF Container
    <3>1. f \in Calls /\ sent[f] # None /\ Content(f) = Content(c)
      BY <2>b, <3>0 DEF FileOf
    <3>2. file' = [file EXCEPT ![Content(c)] = f] /\ fd' = [fd EXCEPT ![c] = f]
      BY <2>3 DEF OpenOutput
    <3>3. contents' = [contents EXCEPT ![f] = "empty"]
      BY <2>3 DEF OpenOutput
    <3>4. \A d \in Calls : Content(d)' = Content(d)
      BY <2>b, <3>0, ZenonT(60) DEF Content
    <3> HIDE DEF f
    <3>5. \A i \in ContentIds : Made(i)'
      BY <2>b, <3>0, <3>1, <3>2, <3>4, SMTT(60)
    <3>6. \A d \in Calls : Opened(d)'
      BY <2>b, <3>0, <3>1, <3>2, <3>4, SMTT(60)
    <3> QED
      BY <2>b, <2>3, <3>0, <3>1, <3>2, <3>3, <3>5, <3>6, SMTT(60) DEF OpenOutput
  <2>4. ASSUME task[c] = "opened"
        PROVE  Written(c) \in [Calls -> Calls \union {"empty", "mixed"}]
    BY <2>4, ZenonT(60) DEF Written
  <2>5. CASE RunContainer(c) \/ TaskFails(c)
    BY <2>a, <2>4, <2>5, SMTT(60) DEF RunContainer, TaskFails
  <2>6. CASE CastResults(c)
    <3>1. Container(c)
      BY <2>6, ZenonT(60) DEF Container
    <3> QED
      BY <2>a, <2>b, <2>6, <3>1, SMTT(60) DEF CastResults, FileOf
  <2>7. CASE RemoveOutput(c)
    <3>1. Container(c)
      BY <2>7, ZenonT(60) DEF Container
    <3>2. \A d \in Calls : Content(d)' = Content(d)
      BY <2>b, <3>1 DEF Content
    <3>3. \A i \in ContentIds : Made(i)'
      BY <2>b, <2>7, <3>1, <3>2, SMTT(60) DEF RemoveOutput
    <3>4. \A d \in Calls : Opened(d)'
      BY <2>b, <2>7, <3>1, <3>2, SMTT(60) DEF RemoveOutput
    <3> QED
      BY <2>b, <2>7, <3>1, <3>3, <3>4, SMTT(60) DEF RemoveOutput
  <2> QED
    BY <1>2, <2>0, <2>1, <2>2, <2>3, <2>5, <2>6, <2>7, ZenonT(60) DEF Container
<1> HIDE DEF Files, Typed
<1> QED
  BY <1>1, <1>2, FilingSteps, Zenon

\* A call that ran alone keeps its file to itself: who would open, write or remove a file of
\* its content meanwhile is a rival, and exec noted the overlap when it spawned the second.
LEMMA OwnStep ==
    ASSUME Typed, SentInv, StagesInv, Files, OwnInv, Next
    PROVE  OwnInv'
<1> USE ExecutionConstants DEF Typed
<1>1. CASE UNCHANGED filing
  <2>1. ASSUME NEW c \in Calls
        PROVE  Rivals(c)' = Rivals(c) /\ FileOf(c)' = FileOf(c) /\ (Running(c)' <=> Running(c))
    BY <1>1, ZenonT(60) DEF filing, Rivals, FileOf, Running, Content
  <2> QED
    BY <1>1, <2>1, ZenonT(60) DEF filing, OwnInv, Own
<1>2. ASSUME NEW c \in Calls, Submit(c) \/ Execute(c) \/ CallSuccess(c) \/ Container(c),
             NEW d \in Calls \ overlapped'
      PROVE  Own(d)'
  <2>1. d \notin overlapped /\ Own(d)
    BY HistoryGrows, SMTT(30) DEF OwnInv
  <2>a. Running(d) => sent[d] # None
    BY DEF Running, StagesInv, Staged, SentInv
  <2>b. CASE Submit(c)
    <3>1. \A e \in Calls : Running(e) => sent[e] # None /\ Content(e)' = Content(e)
      BY ContentKept DEF Running, StagesInv, Staged, SentInv
    <3>2. UNCHANGED <<task, file, contents, fd, outputs>>
      BY <2>b, Zenon DEF Submit, taskVars
    <3>3. Running(d) => Content(d)' = Content(d) /\ FileOf(d)' = FileOf(d)
      BY <3>1, <3>2, ZenonT(60) DEF FileOf
    <3>4. Running(d)' => Rivals(d)' = {}
      BY <2>1, <3>1, <3>2, SMTT(60) DEF Own, Rivals, Running
    <3>5. task[d] \in {"opened", "ended"} => Running(d)
      BY DEF Running
    <3> QED
      BY <2>1, <3>2, <3>3, <3>4, <3>5 DEF Own
  <2>c. \A e \in Calls : ~Submit(c) => Content(e)' = Content(e)
    BY <1>2, ContainerTaking, ZenonT(60) DEF Execute, CallSuccess, Content
  <2>2. CASE Execute(c)
    <3>0. UNCHANGED sent
      BY <2>2, Zenon DEF Execute
    <3>1. task' = [task EXCEPT ![c] = "starting"]
      BY <2>2 DEF Execute
    <3>2. Rivals(c) # {} => d \notin Rivals(c) \union {c}
      BY <2>2 DEF Execute, WithRivals
    <3>3. UNCHANGED <<file, contents, fd, outputs>>
      BY <2>2, Zenon DEF Execute
    <3>4. CASE d = c
      <4>1. Rivals(c) = {}
        BY <3>2, <3>4
      <4>2. Rivals(c)' = {}
        BY <3>0, <3>1, <4>1, SMTT(30) DEF Rivals, Running, Content
      <4> QED
        BY <2>1, <3>1, <3>3, <3>4, <4>2, ZenonT(60) DEF Own
    <3>5. CASE d # c
      <4>1. task'[d] = task[d]
        BY <3>1, <3>5
      <4>2. Running(d) => Content(d) # Content(c)
        BY <3>2, <3>5, ZenonT(60) DEF Rivals
      <4>3. Running(d)' => Rivals(d)' = {}
        BY <2>1, <3>0, <3>1, <4>1, <4>2, SMTT(60) DEF Own, Rivals, Running, Content
      <4> QED
        BY <2>1, <3>0, <3>3, <4>1, <4>3 DEF Own, FileOf, Content
    <3> QED
      BY <3>4, <3>5
  <2>3. CASE CallSuccess(c)
    BY <2>1, <2>3, SMTT(30) DEF CallSuccess, taskVars, Files, Own, Running, Rivals, FileOf, Content
  <2>4. CASE OpenOutput(c)
    <3> DEFINE f == IF FileOf(c) = None THEN c ELSE FileOf(c)
    <3>1. task[c] = "starting" /\ Running(c) /\ sent[c] # None
      BY <2>4 DEF OpenOutput, TaskGoes, Running, StagesInv, Staged, SentInv
    <3>2. Content(c) \in ContentIds /\ \A e \in Calls : Content(e)' = Content(e)
      BY <2>4, <3>1, ContentKept, ZenonT(60) DEF OpenOutput, callVars, Content
    <3>3. f \in Calls /\ Content(f) = Content(c)
      BY <3>2 DEF FileOf, Files
    <3>4. /\ task' = [task EXCEPT ![c] = "opened"] /\ file' = [file EXCEPT ![Content(c)] = f]
          /\ contents' = [contents EXCEPT ![f] = "empty"] /\ fd' = [fd EXCEPT ![c] = f]
          /\ UNCHANGED outputs
      BY <2>4 DEF OpenOutput, TaskGoes
    <3> HIDE DEF f
    <3>5. \A e \in Calls : Running(e)' <=> Running(e)
      BY <3>1, <3>4 DEF Running
    <3>6. Rivals(d)' = Rivals(d)
      BY <3>2, <3>5, ZenonT(60) DEF Rivals
    <3>7. CASE d = c
      BY <2>1, <3>2, <3>3, <3>4, <3>5, <3>6, <3>7, SMTT(60) DEF Own, FileOf, Files
    <3>8. CASE d # c
      <4>1. Running(d) => Content(d) # Content(c)
        BY <2>1, <3>1, <3>8 DEF Own, Rivals
      <4>2. Running(d) => Content(d) \in ContentIds
        BY <2>a, ContentKept
      <4>3. Running(d) => FileOf(d)' = FileOf(d)
        BY <3>2, <3>4, <4>1, <4>2, SMTT(60) DEF FileOf, Files
      <4>4. fd'[d] = fd[d] /\ task'[d] = task[d]
        BY <3>4, <3>8 DEF Files
      <4>5. task[d] \in {"opened", "ended"} => Running(d) /\ fd[d] \in Calls /\ fd[d] # f
        BY <3>3, <4>1 DEF Running, Files
      <4>6. task[d] \in {"opened", "ended"} => contents'[fd[d]] = contents[fd[d]]
        BY <3>3, <3>4, <4>5, ZenonT(60) DEF Files
      <4>7. Running(d)' <=> Running(d)
        BY <3>5, Zenon
      <4>8. outputs'[d] = outputs[d]
        BY <3>4, Zenon
      <4> QED
        BY <2>1, <3>6, <4>3, <4>4, <4>5, <4>6, <4>7, <4>8, ZenonT(60) DEF Own
    <3> QED
      BY <3>7, <3>8
  <2>5. CASE RunContainer(c) \/ TaskFails(c)
    <3>1. /\ UNCHANGED <<sent, file, fd, outputs, overlapped>>
          /\ \/ contents' = contents
             \/ task[c] = "opened" /\ contents' = Written(c)
          /\ task[c] \in {"starting", "opened", "ended"}
          /\ \E to \in {"ended", "failed"} :
                /\ task' = [task EXCEPT ![c] = to]
                /\ to = "ended" => task[c] = "opened"
      BY <2>5, SMTT(60) DEF RunContainer, TaskFails, TaskGoes, callVars
    <3>2. PICK to \in {"ended", "failed"} :
             /\ task' = [task EXCEPT ![c] = to]
             /\ to = "ended" => task[c] = "opened"
      BY <3>1
    <3>3. Running(c) /\ \A e \in Calls : Running(e)' => Running(e)
      BY <3>1, <3>2 DEF Running
    <3>4. /\ \A e \in Calls : Content(e)' = Content(e)
          /\ FileOf(d)' = FileOf(d)
      BY <3>1, ZenonT(60) DEF FileOf, Content
    <3>5. Running(d)' => Rivals(d)' = {}
      <4>1. Rivals(d)' \subseteq Rivals(d)
        BY <3>3, <3>4, ZenonT(60) DEF Rivals
      <4>2. Running(d) => Rivals(d) = {}
        BY <2>1, ZenonT(60) DEF Own
      <4> QED
        BY <3>3, <4>1, <4>2, ZenonT(60)
    <3>6. CASE d = c
      <4>1. task[c] = "opened" => fd[c] \in Calls /\ contents[fd[c]] = "empty"
        BY <2>1, <3>6 DEF Own, Files
      <4>2. task[c] = "opened" => contents'[fd[c]] \in {"empty", c}
        BY <3>1, <4>1 DEF Written, Files
      <4>3. task'[c] = to /\ (task'[c] = "ended" => task[c] = "opened") /\ task'[c] # "opened"
        BY <3>2
      <4> QED
        BY <2>1, <3>1, <3>4, <3>5, <3>6, <4>2, <4>3, ZenonT(60) DEF Own
    <3>7. CASE d # c
      <4>1. task'[d] = task[d]
        BY <3>2, <3>7
      <4>2. Running(d) => Content(d) # Content(c)
        BY <2>1, <3>3, <3>7 DEF Own, Rivals
      <4>3. /\ task[c] = "opened" => Content(fd[c]) = Content(c)
            /\ task[d] \in {"opened", "ended"} =>
                  Running(d) /\ fd[d] \in Calls /\ Content(fd[d]) = Content(d)
        BY DEF Running, Files
      <4>4. task[d] \in {"opened", "ended"} => contents'[fd[d]] = contents[fd[d]]
        BY <3>1, <4>2, <4>3 DEF Written, Files
      <4> QED
        BY <2>1, <3>1, <3>4, <3>5, <4>1, <4>4, ZenonT(60) DEF Own
    <3> QED
      BY <3>6, <3>7
  <2>6. CASE CastResults(c)
    <3>1. /\ UNCHANGED <<sent, file, contents, fd, overlapped>>
          /\ task[c] = "ended" /\ task' = [task EXCEPT ![c] = "cast"]
          /\ contents[FileOf(c)] # "empty"
          /\ outputs' = [outputs EXCEPT ![c] = contents[FileOf(c)]]
      BY <2>6, ZenonT(60) DEF CastResults, TaskGoes
    <3>2. Running(c) /\ \A e \in Calls : Running(e)' => Running(e)
      BY <3>1 DEF Running
    <3>3. /\ \A e \in Calls : Content(e)' = Content(e)
          /\ FileOf(d)' = FileOf(d)
      BY <3>1, ZenonT(60) DEF FileOf, Content
    <3>4. Running(d)' => Rivals(d)' = {}
      <4>1. Rivals(d)' \subseteq Rivals(d)
        BY <3>2, <3>3, ZenonT(60) DEF Rivals
      <4>2. Running(d) => Rivals(d) = {}
        BY <2>1, ZenonT(60) DEF Own
      <4> QED
        BY <3>2, <4>1, <4>2, ZenonT(60)
    <3>5. CASE d = c
      <4>1. outputs'[c] = contents[FileOf(c)] /\ task'[c] = "cast"
        BY <3>1 DEF Files
      <4>2. contents[FileOf(c)] = c
        BY <2>1, <3>1, <3>5, ZenonT(60) DEF Own
      <4> QED
        BY <2>1, <3>1, <3>3, <3>4, <3>5, <4>1, <4>2, ZenonT(60) DEF Own
    <3>6. CASE d # c
      <4>1. outputs'[d] = outputs[d] /\ task'[d] = task[d]
        BY <3>1, <3>6 DEF Files
      <4> QED
        BY <2>1, <3>1, <3>3, <3>4, <4>1, ZenonT(60) DEF Own
    <3> QED
      BY <3>5, <3>6
  <2>7. CASE RemoveOutput(c)
    <3>1. /\ UNCHANGED <<sent, contents, fd, outputs, overlapped>>
          /\ file' = [file EXCEPT ![Content(c)] = None]
          /\ task[c] = "cast" /\ \E to \in {"failed", "done"} : task' = [task EXCEPT ![c] = to]
      BY <2>7, ZenonT(60) DEF RemoveOutput, TaskGoes, callVars
    <3>2. PICK to \in {"failed", "done"} : task' = [task EXCEPT ![c] = to]
      BY <3>1
    <3>3. Running(d) => sent[d] # None
      BY SMTT(60) DEF Running, StagesInv, Staged, SentInv
    <3>4. \A e \in Calls : Content(e)' = Content(e)
      BY <3>1, ZenonT(60) DEF Content
    <3>5. Running(d) => Content(d) \in ContentIds
      BY <3>3, ContentKept, ZenonT(60)
    <3>6. Running(c) /\ (d # c /\ Running(d) => Content(d) # Content(c))
      BY <2>1, <3>1, SMTT(60) DEF Own, Running, Rivals
    <3>7. d # c /\ Running(d) => FileOf(d)' = FileOf(d)
      BY <3>1, <3>4, <3>5, <3>6, SMTT(60) DEF Files, FileOf
    <3>8. /\ Running(d)' => Running(d) /\ d # c /\ Rivals(d)' \subseteq Rivals(d)
          /\ d # c => task'[d] = task[d]
      BY <3>1, <3>2, <3>4, SMTT(60) DEF Running, Rivals
    <3> QED
      BY <2>1, <3>1, <3>2, <3>7, <3>8, SMTT(60) DEF Own, Running
  <2> QED
    BY <1>2, <2>b, <2>2, <2>3, <2>4, <2>5, <2>6, <2>7, SMTT(30) DEF Container
<1> QED
  BY <1>1, <1>2, FilingSteps, SMTT(30) DEF OwnInv

\* The outputs passed on for a call are those its own task read, if its handle is its own.
LEMMA ForwardStep ==
    ASSUME Typed, SentInv, StagesInv, Files, LoneInv, OwnInv, ForwardInv, Next
    PROVE  ForwardInv'
<1> SUFFICES ASSUME NEW d \in Calls \ (overlapped' \union resent')
             PROVE  forwarded'[d] \in {None, d}
    BY DEF ForwardInv
<1>1. d \notin overlapped \union resent /\ forwarded[d] \in {None, d}
  BY HistoryGrows DEF ForwardInv
<1>2. CASE UNCHANGED forwarded
  BY <1>1, <1>2
<1>3. ASSUME NEW c \in Calls, CallSuccess(c)
      PROVE  forwarded'[d] \in {None, d}
  <2>1. CASE d = c
    <3>1. awaited[d] = d
      BY <1>1, <1>3, <2>1 DEF CallSuccess, StagesInv, Staged, LoneInv, Lone
    <3>2. outputs[d] \in {None, d}
      BY <1>1 DEF OwnInv, Own
    <3> QED
      BY <1>1, <1>3, <2>1, <3>1, <3>2, SMTT(60) DEF CallSuccess, Files
  <2>2. CASE d # c
    BY <1>1, <1>3, <2>2, ZenonT(60) DEF CallSuccess, Files
  <2> QED
    BY <2>1, <2>2
<1>4. ASSUME NEW c \in Calls, Submit(c) \/ Execute(c) \/ Container(c)
      PROVE  UNCHANGED forwarded
  BY <1>4, ZenonT(60)
  DEF Submit, Execute, Container, callVars, OpenOutput, RunContainer, TaskFails, CastResults,
      RemoveOutput
<1> QED
  BY <1>2, <1>3, <1>4, FilingSteps, ZenonT(60) DEF filing

-----------------------------------------------------------------------------
\* Every step keeps the invariant.
LEMMA StepInv == IInv /\ [Next]_vars => IInv'
<1> SUFFICES ASSUME IInv, [Next]_vars PROVE IInv'
    OBVIOUS
<1>1. CASE Next
  <2>1. Typed'
    BY <1>1, TypedCallStep, TypedRegStep, Zenon DEF IInv, Next
  <2>2. /\ Locked' /\ SentInv' /\ StagesInv' /\ HandlesInv' /\ LoneInv' /\ BundleInv' /\ Files'
        /\ OwnInv'
    BY <1>1, LockedStep, SentStep, StagesStep, HandlesStep, LoneStep, BundleStep, FilesStep, OwnStep
    DEF IInv
  <2>3. ForwardInv'
    BY <1>1, HistoryGrows, ForwardStep, ZenonT(60) DEF IInv
  <2> QED
    BY <2>1, <2>2, <2>3 DEF IInv
<1>2. CASE UNCHANGED vars
  BY <1>2, StutterInv, Zenon
<1> QED
  BY <1>1, <1>2

\* The invariant holds throughout.
LEMMA Invariance == Spec => []IInv
BY InitInv, StepInv, PTL DEF Spec

\* The variables have their types, and whoever holds the lock of the ExecutionEngine is at a
\* stage under it: set, exec and pin_object exclude each other.
THEOREM ExecutionTypeOK == Spec => []TypeOK
<1>1. IInv => TypeOK
  BY Zenon DEF IInv, Typed, Locked, TypeOK, Stages, ResultStages, TaskStages
<1> QED
  BY <1>1, Invariance, PTL

\* ExecutorMessage::Results finds a handle, however many calls run and however early the task
\* casts, unless the transaction came again and the results of another call of it took the
\* handle.
THEOREM ResultsFindTheHandle == Spec => []HandleFound
<1>1. IInv => HandleFound
  BY ZenonT(60) DEF IInv, HandlesInv, Handled, TwinTook, LoneInv, Lone, HandleFound
<1> QED
  BY <1>1, Invariance, PTL

\* call_success passes on for a call the outputs of its own container, unless another call
\* of the content id ran at the same time or the transaction came again before its results
\* were taken.
THEOREM LoneCallsHaveTheirOutputs == Spec => []OutputsAreOwn
<1>1. IInv => OutputsAreOwn
  BY DEF IInv, ForwardInv, OutputsAreOwn
<1> QED
  BY <1>1, Invariance, PTL

\* The batcher is told of a program only when its bundle is complete on disk, though
\* base_spec does not notice that a spec is missing.
THEOREM AnnouncedProgramsAreBundled == Spec => []AnnouncedIsBundled
<1>1. IInv => AnnouncedIsBundled
  BY DEF IInv, BundleInv, Built, AnnouncedIsBundled
<1> QED
  BY <1>1, Invariance, PTL
=============================================================================
