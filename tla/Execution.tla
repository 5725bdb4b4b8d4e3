------------------------------ MODULE Execution ------------------------------
(***************************************************************************)
(* How a call becomes outputs and a registration becomes a bundle on disk: *)
(* the engine, the executor with its engine lock and its map of handles,   *)
(* the pre-call graph, and the task that runs a program's container        *)
(* (crates/actors/src/engine.rs, executor.rs, pending_transactions.rs,     *)
(* crates/compute/src/compute.rs).                                         *)
(*                                                                         *)
(* A step is what happens between two awaits. Futures of a pool and actors *)
(* go on in any order. The container runtime and the object store are      *)
(* external: they fail when they like. An actor other than the scheduler   *)
(* may be gone when it is looked up; the scheduler takes the clients it    *)
(* would answer with it.                                                   *)
(***************************************************************************)
EXTENDS Integers, FiniteSets, Sequences

CONSTANTS Calls,           \* calls clients send; two may be of one transaction, sent again
          Registrations,   \* registrations of a program
          Txs,             \* call transactions, by their hash
          MayBe,           \* the transactions a call may be of
          Programs,
          ProgramOf,       \* the program a transaction is to, or a registration is of
          ContentIds,
          ContentOf,       \* the content id of a program; two owners may register one content
          None

ASSUME ExecutionConstants ==
    /\ Calls \intersect Registrations = {}
    /\ None \notin Calls \union Registrations \union Txs
    /\ MayBe \in [Calls -> SUBSET Txs]
    /\ ProgramOf \in [Txs \union Registrations -> Programs]
    /\ ContentOf \in [Programs -> ContentIds]

VARIABLES sent,       \* the transaction of each call, None before it is sent
          call,       \* where the executor is with each call
          results,    \* where it is with the results of the call
          task,       \* where the task run_container spawned is
          lock,       \* who holds the lock of the ExecutionEngine
          handles,    \* ExecutionEngine.handles: the call whose task a transaction's handle is of
          awaited,    \* the call whose task the results of a call await
          graph,      \* PreCallGraph: vertices, their dependencies, the index by program
          told,       \* what the scheduler was told of each transaction
          forwarded,  \* the outputs the engine passed on for each call
          file,       \* the file at the path a container's outputs go to, None for no file
          contents,   \* what is in each file; a file is named after the call that made it
          fd,         \* the file a container writes to
          outputs,    \* what the task read
          reg,        \* where each registration is
          bundle,     \* the parts of the bundle of a content id that are on disk
          overlapped, \* history: calls that ran while another call of the content id did
          resent      \* history: calls whose transaction came again before its results were taken

callVars == <<sent, call, results, handles, awaited, graph, forwarded>>
taskVars == <<task, file, contents, fd, outputs, overlapped, resent>>
regVars == <<reg, bundle>>
vars == <<callVars, taskVars, regVars, lock, told>>

Parts == {"package", "objects", "root", "payload", "spec", "config"}

Content(c) == ContentOf[ProgramOf[sent[c]]]

Init ==
    /\ sent = [c \in Calls |-> None]
    /\ call = [c \in Calls |-> "idle"]
    /\ results = [c \in Calls |-> "none"]
    /\ task = [c \in Calls |-> "none"]
    /\ lock = None
    /\ handles = [t \in Txs |-> None]
    /\ awaited = [c \in Calls |-> None]
    /\ graph = [vertices |-> {}, dependencies |-> [t \in Txs |-> <<>>],
                index |-> [p \in Programs |-> {}]]
    /\ told = [t \in Calls \union Registrations |-> {}]
    /\ forwarded = [c \in Calls |-> None]
    /\ file = [i \in ContentIds |-> None]
    /\ contents = [c \in Calls |-> "empty"]
    /\ fd = [c \in Calls |-> None]
    /\ outputs = [c \in Calls |-> None]
    /\ reg = [r \in Registrations |-> "idle"]
    /\ bundle = [i \in ContentIds |-> {}]
    /\ overlapped = {}
    /\ resent = {}

Goes(c, from, to) == call[c] = from /\ call' = [call EXCEPT ![c] = to]
Tell(t, what) == told' = [told EXCEPT ![t] = @ \union {what}]
Lock(t) == lock = None /\ lock' = t
Unlock(t) == lock = t /\ lock' = None

-----------------------------------------------------------------------------
(* ExecutorMessage::Set: is the program there? *)

\* EngineMessage::Call, passed to the executor. Neither the scheduler nor the engine asks
\* whether the transaction is under way, or was done.
Submit(c) ==
    /\ Goes(c, "idle", "setting")
    /\ \E t \in MayBe[c] : sent' = [sent EXCEPT ![c] = t]
    /\ UNCHANGED <<results, handles, awaited, graph, forwarded, taskVars, regVars, lock, told>>

SetLocks(c) ==
    /\ Goes(c, "setting", "parsing")
    /\ Lock(c)
    /\ UNCHANGED <<sent, results, handles, awaited, graph, forwarded, taskVars, regVars, told>>

\* parse_inputs found the program: NewCall goes to the pending transactions actor, and
\* the client gets the hash of a call that is pending.
SetQueues(c) ==
    /\ Goes(c, "parsing", "queued")
    /\ Unlock(c)
    /\ Tell(c, "pending")
    /\ UNCHANGED <<sent, results, handles, awaited, graph, forwarded, taskVars, regVars>>

NoProgramUntold(c) ==
    /\ \/ (Goes(c, "setting", "failed") \/ Goes(c, "executing", "failed")) /\ UNCHANGED lock
       \/ (Goes(c, "parsing", "failed") \/ Goes(c, "spawning", "failed")) /\ Unlock(c)
    /\ UNCHANGED <<sent, results, handles, awaited, graph, forwarded, taskVars, regVars, told>>
\* The program has no account, or it could not be read in time: before the lock is taken,
\* by set or by exec, and under it, by parse_inputs.
NoProgram(c) ==
    /\ \/ (Goes(c, "setting", "failed") \/ Goes(c, "executing", "failed")) /\ UNCHANGED lock
       \/ (Goes(c, "parsing", "failed") \/ Goes(c, "spawning", "failed")) /\ Unlock(c)
    /\ Tell(c, "failed")
    /\ UNCHANGED <<sent, results, handles, awaited, graph, forwarded, taskVars, regVars>>

-----------------------------------------------------------------------------
(* PreCallGraph *)

\* add_call: the program gets an entry in the index, which no call is ever put into. A
\* call waits for those the index names.
AddCall(c) ==
    LET t == sent[c]
        before == graph.index[ProgramOf[t]] \intersect (graph.vertices \union {t})
        fresh == [graph.dependencies EXCEPT ![t] = <<>>]
    IN /\ Goes(c, "queued", IF before = {} THEN "executing" ELSE "waiting")
       /\ graph' = [graph EXCEPT
             !.vertices = @ \union {t},
             !.dependencies = [u \in Txs |->
                 IF u \in before /\ t \in {fresh[u][i] : i \in DOMAIN fresh[u]}
                 THEN Append(fresh[u], t) ELSE fresh[u]]]
       /\ UNCHANGED <<sent, results, handles, awaited, forwarded, taskVars, regVars, lock, told>>

\* handle_completed_exec: the vertex goes, and the call that waits for it is executed.
CompletedExec(c) ==
    LET t == sent[c]
    IN /\ results[c] \in {"succeeded", "unheard"}
       /\ results' = [results EXCEPT ![c] = IF @ = "unheard" THEN "logged" ELSE "completed"]
       /\ graph' = [graph EXCEPT !.vertices = @ \ {t}, !.dependencies[t] = <<>>]
       /\ call' = [d \in Calls |->
             IF /\ t \in graph.vertices /\ graph.dependencies[t] # <<>>
                /\ sent[d] = Head(graph.dependencies[t]) /\ sent[d] \in graph'.vertices
                /\ call[d] = "waiting"
             THEN "executing" ELSE call[d]]
       /\ UNCHANGED <<sent, handles, awaited, forwarded, taskVars, regVars, lock, told>>

-----------------------------------------------------------------------------
(* ExecutorMessage::Exec: the lock is held until the handle is in the map *)

ExecLocks(c) ==
    /\ Goes(c, "executing", "spawning")
    /\ Lock(c)
    /\ UNCHANGED <<sent, results, handles, awaited, graph, forwarded, taskVars, regVars, told>>

Running(d) == task[d] \notin {"none", "done", "failed"}
Rivals(c) == {d \in Calls \ {c} : Running(d) /\ Content(d) = Content(c)}

\* The other calls of the transaction whose results are still to be taken.
Twins(c) == {d \in Calls \ {c} :
                /\ sent[d] = sent[c]
                /\ results[d] = "cast" \/ (results[d] = "none" /\ Running(d))}
WithRivals(c, rivals) == IF rivals = {} THEN {} ELSE rivals \union {c}

ExecuteUnlocked(c) ==
    /\ Goes(c, "spawning", "spawned")
    /\ task' = [task EXCEPT ![c] = "starting"]
    /\ overlapped' = overlapped \union WithRivals(c, Rivals(c))
    /\ resent' = resent \union WithRivals(c, Twins(c))
    /\ Unlock(c)
    /\ UNCHANGED <<sent, results, handles, awaited, graph, forwarded, file, contents, fd, outputs,
                   regVars, told>>
Execute(c) ==
    /\ Goes(c, "spawning", "spawned")
    /\ lock = c
    /\ task' = [task EXCEPT ![c] = "starting"]
    /\ overlapped' = overlapped \union WithRivals(c, Rivals(c))
    /\ resent' = resent \union WithRivals(c, Twins(c))
    /\ UNCHANGED <<sent, results, handles, awaited, graph, forwarded, file, contents, fd, outputs,
                   regVars, lock, told>>

\* The handle takes the place of the one the transaction has.
InsertHandle(c) ==
    /\ Goes(c, "spawned", "running")
    /\ handles' = [handles EXCEPT ![sent[c]] = c]
    /\ lock' = IF lock = c THEN None ELSE lock
    /\ UNCHANGED <<sent, results, awaited, graph, forwarded, taskVars, regVars, told>>

-----------------------------------------------------------------------------
(* run_container: the task *)

TaskGoes(c, from, to) == task[c] = from /\ task' = [task EXCEPT ![c] = to]
FileOf(c) == file[Content(c)]

OpenWithoutTruncating(c) ==
    LET f == IF FileOf(c) = None THEN c ELSE FileOf(c)
    IN /\ TaskGoes(c, "starting", "opened")
       /\ file' = [file EXCEPT ![Content(c)] = f]
       /\ fd' = [fd EXCEPT ![c] = f]
       /\ UNCHANGED <<callVars, contents, outputs, overlapped, resent, regVars, lock, told>>
\* The file at the path is emptied, or made.
OpenOutput(c) ==
    LET f == IF FileOf(c) = None THEN c ELSE FileOf(c)
    IN /\ TaskGoes(c, "starting", "opened")
       /\ file' = [file EXCEPT ![Content(c)] = f]
       /\ contents' = [contents EXCEPT ![f] = "empty"]
       /\ fd' = [fd EXCEPT ![c] = f]
       /\ UNCHANGED <<callVars, outputs, overlapped, resent, regVars, lock, told>>

Written(c) == [contents EXCEPT ![fd[c]] = IF @ = "empty" THEN c ELSE "mixed"]

\* runsc: the container writes outputs, or nothing, and ends well.
RunContainer(c) ==
    /\ TaskGoes(c, "opened", "ended")
    /\ contents' \in {contents, Written(c)}
    /\ UNCHANGED <<callVars, file, fd, outputs, overlapped, resent, regVars, lock, told>>

\* An error of the file system, of the runtime, of the container or of its outputs ends the
\* task before it casts Results. Nobody awaits its handle.
TaskFails(c) ==
    /\ \/ TaskGoes(c, "starting", "failed") /\ UNCHANGED contents
       \/ TaskGoes(c, "opened", "failed") /\ contents' \in {contents, Written(c)}
       \/ /\ TaskGoes(c, "ended", "failed") /\ UNCHANGED contents
          /\ FileOf(c) # None => contents[FileOf(c)] = "empty"
    /\ UNCHANGED <<callVars, file, fd, outputs, overlapped, resent, regVars, lock, told>>

\* The file is opened by its path again and read, and Results is cast.
CastResults(c) ==
    /\ TaskGoes(c, "ended", "cast")
    /\ FileOf(c) # None /\ contents[FileOf(c)] # "empty"
    /\ outputs' = [outputs EXCEPT ![c] = contents[FileOf(c)]]
    /\ results' = [results EXCEPT ![c] = "cast"]
    /\ UNCHANGED <<sent, call, handles, awaited, graph, forwarded, file, contents, fd, overlapped,
                   resent, regVars, lock, told>>

\* A file that is gone is an error, which the handle carries.
RemoveOutput(c) ==
    /\ TaskGoes(c, "cast", IF FileOf(c) = None THEN "failed" ELSE "done")
    /\ file' = [file EXCEPT ![Content(c)] = None]
    /\ UNCHANGED <<callVars, contents, fd, outputs, overlapped, resent, regVars, lock, told>>

-----------------------------------------------------------------------------
(* ExecutorMessage::Results, and EngineMessage::CallSuccess *)

\* The handle of the transaction is taken, whichever of its calls put it there. That there is
\* none is only logged.
TakeHandle(c) ==
    /\ results[c] = "cast"
    /\ lock = None
    /\ results' = [results EXCEPT ![c] = IF handles[sent[c]] = None THEN "lost" ELSE "awaiting"]
    /\ awaited' = [awaited EXCEPT ![c] = handles[sent[c]]]
    /\ handles' = [handles EXCEPT ![sent[c]] = None]
    /\ UNCHANGED <<sent, call, graph, forwarded, taskVars, regVars, lock, told>>

\* execution_success tells the pending transactions actor, and then the engine. That the
\* engine, or the first of them, is gone is only logged.
JoinTask(c) ==
    /\ results[c] = "awaiting"
    /\ \/ /\ task[awaited[c]] = "done"
          /\ \E heard \in {"succeeded", "unheard", "logged"} :
                results' = [results EXCEPT ![c] = heard]
          /\ UNCHANGED told
       \/ /\ task[awaited[c]] = "failed"
          /\ results' = [results EXCEPT ![c] = "failed"]
          /\ Tell(c, "failed")
    /\ UNCHANGED <<sent, call, handles, awaited, graph, forwarded, taskVars, regVars, lock>>

\* call_success: outputs that parse go to the pending transactions actor.
CallSuccess(c) ==
    /\ results[c] \in {"succeeded", "completed"}
    /\ Goes(c, "running", "ended")
    /\ \/ forwarded' = [forwarded EXCEPT ![c] = outputs[awaited[c]]] /\ UNCHANGED told
       \/ UNCHANGED forwarded /\ Tell(c, "failed")
    /\ UNCHANGED <<sent, results, handles, awaited, graph, taskVars, regVars, lock>>

-----------------------------------------------------------------------------
(* ExecutorMessage::Create *)

RegGoes(r, from, to) == reg[r] = from /\ reg' = [reg EXCEPT ![r] = to]

\* handle_register_program: a registration without content id is only logged.
RegisterProgram(r) ==
    /\ RegGoes(r, "idle", "creating") \/ RegGoes(r, "idle", "dropped")
    /\ UNCHANGED <<callVars, taskVars, bundle, lock, told>>

PinWithoutLock(r) ==
    /\ RegGoes(r, "creating", "pinning")
    /\ UNCHANGED <<callVars, taskVars, bundle, lock, told>>
PinLocks(r) ==
    /\ RegGoes(r, "creating", "pinning")
    /\ Lock(r)
    /\ UNCHANGED <<callVars, taskVars, bundle, told>>

\* A pin that fails is reported, and the bundle is made all the same.
Pinned(r) ==
    /\ RegGoes(r, "pinning", "package")
    /\ Unlock(r)
    /\ Tell(r, "failed") \/ UNCHANGED told
    /\ UNCHANGED <<callVars, taskVars, bundle>>

After == [package |-> "objects", objects |-> "root", root |-> "payload", payload |-> "spec",
          spec |-> "config", config |-> "bundled"]
Makes(r, part) ==
    /\ RegGoes(r, part, After[part])
    /\ bundle' = [bundle EXCEPT ![ContentOf[ProgramOf[r]]] = @ \union {part}]
    /\ UNCHANGED <<callVars, taskVars, lock, told>>
Skips(r, part) ==
    /\ RegGoes(r, part, After[part])
    /\ UNCHANGED <<callVars, taskVars, bundle, lock, told>>

\* create_payload_package: the package is read from the object store within a timeout and
\* kept, then its objects are read and written to disk.
ReadPackage(r) == Makes(r, "package")
WriteObjects(r) == Makes(r, "objects")

\* The directory of the container, and in it a link to the root of the base image.
BundleRoot(r) == Makes(r, "root")

\* A payload that could not be copied is only logged.
AddPayload(r) == Makes(r, "payload") \/ Skips(r, "payload")

\* A runtime that ran and could not write the spec is not noticed.
BaseSpec(r) == Makes(r, "spec") \/ Skips(r, "spec")

\* The absence of the spec is noticed here.
CustomizeSpec(r) == "spec" \in bundle[ContentOf[ProgramOf[r]]] /\ Makes(r, "config")

BundleGoesOn(r) ==
    /\ reg[r] \in Parts
    /\ RegGoes(r, reg[r], After[reg[r]])
    /\ Tell(r, "failed")
    /\ UNCHANGED <<callVars, taskVars, bundle, lock>>
BundleFailsUntold(r) ==
    /\ reg[r] \in Parts
    /\ RegGoes(r, reg[r], "failed")
    /\ UNCHANGED <<callVars, taskVars, bundle, lock, told>>
\* Any other error ends the registration, and is reported.
BundleFails(r) ==
    /\ reg[r] \in Parts
    /\ RegGoes(r, reg[r], "failed")
    /\ Tell(r, "failed")
    /\ UNCHANGED <<callVars, taskVars, bundle, lock>>

\* create_program_id, then the batcher is told to make the account. That it is gone is only
\* logged.
RegistrationEnds(r) ==
    /\ \/ RegGoes(r, "bundled", "announced") /\ UNCHANGED told
       \/ RegGoes(r, "bundled", "logged") /\ UNCHANGED told
       \/ RegGoes(r, "bundled", "failed") /\ Tell(r, "failed")
    /\ UNCHANGED <<callVars, taskVars, bundle, lock>>

-----------------------------------------------------------------------------
Executor(c) == \/ SetLocks(c) \/ SetQueues(c) \/ NoProgram(c) \/ AddCall(c)
               \/ ExecLocks(c) \/ Execute(c) \/ InsertHandle(c)
               \/ TakeHandle(c) \/ JoinTask(c) \/ CompletedExec(c) \/ CallSuccess(c)
Container(c) == \/ OpenOutput(c) \/ RunContainer(c) \/ TaskFails(c) \/ CastResults(c)
                \/ RemoveOutput(c)
Creation(r) == \/ PinLocks(r) \/ Pinned(r)
               \/ ReadPackage(r) \/ WriteObjects(r) \/ BundleRoot(r) \/ AddPayload(r)
               \/ BaseSpec(r) \/ CustomizeSpec(r)
               \/ BundleFails(r) \/ RegistrationEnds(r)

Next == \/ \E c \in Calls : Submit(c) \/ Executor(c) \/ Container(c)
        \/ \E r \in Registrations : RegisterProgram(r) \/ Creation(r)

\* While some future, container or object store can go on, one of them does. The calls are
\* finitely many, so this is enough: none goes on forever at the cost of another.
Fairness == WF_vars(\/ \E c \in Calls : Executor(c) \/ Container(c)
                    \/ \E r \in Registrations : Creation(r))

Spec == Init /\ [][Next]_vars
FairSpec == Spec /\ Fairness

-----------------------------------------------------------------------------
\* Types; whoever holds the lock of the engine is at a stage that is under it.
TypeOK ==
    /\ sent \in [Calls -> Txs \union {None}]
    /\ call \in [Calls -> {"idle", "setting", "parsing", "queued", "waiting", "executing",
                           "spawning", "spawned", "running", "ended", "failed"}]
    /\ results \in [Calls -> {"none", "cast", "awaiting", "lost", "succeeded", "failed",
                              "completed", "unheard", "logged"}]
    /\ task \in [Calls -> {"none", "starting", "opened", "ended", "cast", "done", "failed"}]
    /\ handles \in [Txs -> Calls \union {None}]
    /\ awaited \in [Calls -> Calls \union {None}]
    /\ told \in [Calls \union Registrations -> SUBSET {"pending", "failed"}]
    /\ bundle \in [ContentIds -> SUBSET Parts]
    /\ \A c \in Calls : call[c] \in {"parsing", "spawning", "spawned"} <=> lock = c
    /\ \A r \in Registrations : reg[r] = "pinning" <=> lock = r

\* The results of a container find the handle of its task, though the task starts, and may
\* cast its results, before exec puts the handle into the map. If they find none, the
\* transaction came again before they did, and the results of another call of it took one.
HandleFound ==
    \A c \in Calls : results[c] = "lost" =>
        /\ c \in resent
        /\ \E d \in Calls \ {c} : sent[d] = sent[c] /\ awaited[d] # None

\* The outputs the engine passes on for a call are those of its own container, if no other
\* call of the content id ran at the same time, whose file is the same, and its transaction
\* did not come again before its results found its handle.
OutputsAreOwn ==
    \A c \in Calls : forwarded[c] \notin {None, c} => c \in overlapped \union resent

\* A program is announced to the batcher only when its package, its root and its configuration
\* are on disk: an error of any of these steps ends the registration.
AnnouncedIsBundled ==
    \A r \in Registrations : reg[r] = "announced" =>
        {"package", "objects", "root", "spec", "config"} \subseteq bundle[ContentOf[ProgramOf[r]]]

\* Every call ends: its outputs are passed on and the graph hears of it, the client is told it
\* failed, its container failed, nobody was there to hear that it succeeded, or another call
\* of the transaction took its handle. No call waits forever for the lock, a handle, or a
\* call before it.
EveryCallEnds ==
    <>[](\A c \in Calls : call[c] # "idle" =>
            \/ forwarded[c] # None /\ results[c] = "completed"
            \/ "failed" \in told[c]
            \/ task[c] = "failed"
            \/ results[c] \in {"logged", "lost"})

\* Every registration that has a content id is announced or reported as failed, unless the
\* batcher was gone when it was to be told.
EveryRegistrationEnds ==
    <>[](\A r \in Registrations :
            reg[r] \in {"idle", "dropped", "announced", "logged"} \/ "failed" \in told[r])
=============================================================================
