-------------------------------- MODULE Calls --------------------------------
(***************************************************************************)
(* How the outputs of a program call, and the registration of a program,   *)
(* reach the accounts: the validator reads every account the call names    *)
(* and checks the instructions against them, the batcher reads accounts    *)
(* again, performs the instructions on a buffer and writes the buffer back *)
(* (crates/actors/src/validator.rs, batcher.rs).                           *)
(*                                                                         *)
(* A step is what happens between two awaits. The pools and the pending    *)
(* graph are in Pipeline; here any future under way may take a step.       *)
(***************************************************************************)
EXTENDS CallRules, FiniteSets

CONSTANTS Calls,        \* the calls and registrations that may be submitted, in a sequence
          Genesis,      \* the accounts at the start
          LateReads,    \* the stages whose reads may time out
          MaxLate,      \* bound: reads that time out
          MaxCalls      \* bound: calls submitted

ASSUME CallsConstants ==
    /\ Genesis \in [Addresses -> Account \union {None}]
    /\ \A a \in Addresses : Genesis[a] # None => Genesis[a].self = a
    /\ \A c \in DOMAIN Calls : IsCall(Calls[c])
    /\ Native \subseteq Addresses /\ \A a \in Native : Genesis[a] = None
    /\ MaxLate \in Nat /\ MaxCalls \in Nat

\* A caller signs with a key of their own; the address of a program is a hash, to which
\* nobody has the key (create_program_id).
ASSUME CallersAreUsers ==
    \A c \in DOMAIN Calls :
        /\ Genesis[Calls[c].from] # None => Genesis[Calls[c].from].owner = Calls[c].from
        /\ \A d \in DOMAIN Calls : Calls[c].from # Calls[d].to

VARIABLES cache,   \* the account AccountCacheMessage::Read gives for each address
          job,     \* where each call is, and what its future holds
          told,    \* what the scheduler was told of each call
          alive,   \* the task that polls the pools has not panicked
          late     \* reads that timed out

vars == <<cache, job, told, alive, late>>

\* accounts: what the validator read. read: what the batcher read for the operation at
\* hand, the first of rest. buffer: the batch buffer, later what is left to write.
Job(at) == [at |-> at, accounts |-> <<>>, read |-> <<>>, rest |-> <<>>,
            buffer |-> Empty(Addresses)]

Init ==
    /\ cache = Genesis
    /\ job = [c \in DOMAIN Calls |-> Job("idle")]
    /\ told = [c \in DOMAIN Calls |-> "none"]
    /\ alive = TRUE
    /\ late = 0

-----------------------------------------------------------------------------
(* get_account: an answer that comes too late is no account. *)

Read(stage, name, answer) ==
    LET account == IF name \in Addresses THEN cache[name] ELSE None
    IN \/ answer = account /\ UNCHANGED late
       \/ /\ stage \in LateReads /\ late < MaxLate
          /\ account # None /\ answer = None
          /\ late' = late + 1

Answers(name) == {IF name \in Addresses THEN cache[name] ELSE None, None}

Goes(c, to) == job' = [job EXCEPT ![c] = to]

\* A failed transaction is reported to the pending transactions actor as invalid, which
\* tells the scheduler.
FailsSilently(c) == Goes(c, Job("failed")) /\ UNCHANGED told
Fails(c) == Goes(c, Job("failed")) /\ told' = [told EXCEPT ![c] = "failed"]

-----------------------------------------------------------------------------
(* Submission *)

Submitted == {c \in DOMAIN Calls : job[c].at # "idle"}

Submit(c) ==
    /\ job[c].at = "idle"
    /\ Cardinality(Submitted) < MaxCalls
    /\ Goes(c, Job(IF Calls[c].type = "Call" THEN "checking" ELSE "registering"))
    /\ UNCHANGED <<cache, told, alive, late>>

-----------------------------------------------------------------------------
(* The validator *)

Unread(c) == GetAccountsInvolved(Calls[c]) \ DOMAIN job[c].accounts

\* pending_call reads the accounts one after the other; the order is immaterial.
PendingCall(c) ==
    /\ alive /\ job[c].at = "checking" /\ Unread(c) # {}
    /\ LET name == CHOOSE n \in Unread(c) : TRUE
           a == Resolve(Calls[c], name)
       IN \E answer \in Answers(a) :
             /\ Read("checking", a, answer)
             /\ Goes(c, [job[c] EXCEPT !.accounts =
                           [n \in DOMAIN @ \union {name} |-> IF n = name THEN answer ELSE @[n]]])
    /\ UNCHANGED <<cache, told, alive>>

\* validate_call, on the threads of the validator core.
Validate(c) ==
    /\ job[c].at = "checking" /\ Unread(c) = {}
    /\ IF ValidateCall(Calls[c], job[c].accounts)
       THEN Goes(c, Job("counting")) /\ UNCHANGED told
       ELSE Fails(c)
    /\ UNCHANGED <<cache, alive, late>>

-----------------------------------------------------------------------------
(* The batcher: apply_instructions_to_accounts *)

\* The account read first is the one of the program called.
ReadCalled(c) ==
    /\ alive /\ job[c].at = "counting" /\ job[c].read = <<>>
    /\ \E answer \in Answers(Calls[c].to) :
         /\ Read("counting", Calls[c].to, answer)
         /\ IF answer = None
            THEN Fails(c)
            ELSE Goes(c, [job[c] EXCEPT !.read = <<answer>>]) /\ UNCHANGED told
    /\ UNCHANGED <<cache, alive>>

\* Its nonce goes up, and it is written back before the first instruction.
IncrementNonce(c) ==
    /\ alive /\ job[c].at = "counting" /\ job[c].read # <<>>
    /\ cache' = [cache EXCEPT ![job[c].read[1].self] =
                   [job[c].read[1] EXCEPT !.nonce = @ + 1]]
    /\ Goes(c, [Job("applying") EXCEPT !.rest = Operations(Calls[c])])
    /\ UNCHANGED <<told, alive, late>>

Operation(c) == Head(job[c].rest)

ReadNextUnbuffered(c) ==
    /\ alive /\ job[c].at = "applying" /\ job[c].rest # <<>>
    /\ Len(job[c].read) < Len(Reads(Calls[c], Operation(c)))
    /\ LET r == Reads(Calls[c], Operation(c))[Len(job[c].read) + 1]
       IN \E answer \in Answers(r.name) :
             /\ Read("applying", r.name, answer)
             /\ Goes(c, [job[c] EXCEPT !.read = Append(@, answer)])
    /\ UNCHANGED <<cache, told, alive>>
ReadNext(c) ==
    /\ alive /\ job[c].at = "applying" /\ job[c].rest # <<>>
    /\ Len(job[c].read) < Len(Reads(Calls[c], Operation(c)))
    /\ LET r == Reads(Calls[c], Operation(c))[Len(job[c].read) + 1]
           buffered == r.buffered /\ r.name \in Addresses /\ job[c].buffer[r.name] # None
       IN \E answer \in IF buffered THEN {job[c].buffer[r.name]} ELSE Answers(r.name) :
             /\ IF buffered THEN UNCHANGED late ELSE Read("applying", r.name, answer)
             /\ Goes(c, [job[c] EXCEPT !.read = Append(@, answer)])
    /\ UNCHANGED <<cache, told, alive>>

\* An operation that fails drops the buffer, the nonce stays counted. One that panics
\* unwinds the task that polls the pools.
ApplyNext(c) ==
    /\ alive /\ job[c].at = "applying" /\ job[c].rest # <<>>
    /\ Len(job[c].read) = Len(Reads(Calls[c], Operation(c)))
    /\ LET result == ApplyOperation(Calls[c], Operation(c), job[c].read)
       IN \/ /\ result.is = "ok"
             /\ Goes(c, [job[c] EXCEPT !.read = <<>>, !.rest = Tail(@),
                                       !.buffer = AddToBuffer(@, result.value)])
             /\ UNCHANGED <<told, alive>>
          \/ result.is = "err" /\ Fails(c) /\ UNCHANGED alive
          \/ /\ result.is = "panic"
             /\ Goes(c, Job("lost"))
             /\ alive' = FALSE
             /\ UNCHANGED told
    /\ UNCHANGED <<cache, late>>

AllApplied(c) ==
    /\ alive /\ job[c].at = "applying" /\ job[c].rest = <<>>
    /\ Goes(c, [Job("writing") EXCEPT !.buffer = job[c].buffer])
    /\ UNCHANGED <<cache, told, alive, late>>

\* add_account_to_batch, in the order of a hash map; a registration writes the program
\* before its deployer.
WriteAccount(c, a) ==
    /\ alive /\ job[c].at = "writing" /\ job[c].buffer[a] # None
    /\ Calls[c].type = "RegisterProgram" /\ a = Calls[c].from =>
          job[c].buffer[Calls[c].to] = None
    /\ cache' = [cache EXCEPT ![a] = job[c].buffer[a]]
    /\ Goes(c, [job[c] EXCEPT !.buffer = Without(@, a)])
    /\ UNCHANGED <<told, alive, late>>

\* The caller is read to answer the scheduler; without it the call that was applied is
\* reported as failed.
AnswerCall(c) ==
    /\ alive /\ job[c].at = "writing" /\ job[c].buffer = Empty(Addresses) /\ Calls[c].type = "Call"
    /\ \E answer \in Answers(Calls[c].from) :
         /\ Read("answering", Calls[c].from, answer)
         /\ told' = [told EXCEPT ![c] = IF answer = None THEN "failed" ELSE "applied"]
         /\ Goes(c, Job("applied"))
    /\ UNCHANGED <<cache, alive>>

-----------------------------------------------------------------------------
(* The batcher: apply_program_registration. The address of a program follows from its *)
(* content and its deployer: call.to.                                                 *)

RegisterProgram(c) ==
    LET call == Calls[c]
    IN /\ alive /\ job[c].at = "registering"
       /\ \E answer \in Answers(call.from) :
            /\ Read("registering", call.from, answer)
            /\ IF answer = None \/ ~call.wellFormed
               THEN Fails(c)
               ELSE /\ Goes(c, [Job("writing") EXCEPT !.buffer = AddToBuffer(@,
                                  <<FreshProgram(call.to, call.from, call.metadata),
                                    [answer EXCEPT !.nonce = @ + 1]>>)])
                    /\ UNCHANGED told
       /\ UNCHANGED <<cache, alive>>

AnswerRegistration(c) ==
    /\ alive /\ job[c].at = "writing" /\ job[c].buffer = Empty(Addresses)
    /\ Calls[c].type = "RegisterProgram"
    /\ told' = [told EXCEPT ![c] = "applied"]
    /\ Goes(c, Job("applied"))
    /\ UNCHANGED <<cache, alive, late>>

-----------------------------------------------------------------------------
Step(c) ==
    \/ PendingCall(c) \/ Validate(c)
    \/ ReadCalled(c) \/ IncrementNonce(c) \/ ReadNext(c) \/ ApplyNext(c) \/ AllApplied(c)
    \/ \E a \in Addresses : WriteAccount(c, a)
    \/ AnswerCall(c)
    \/ RegisterProgram(c) \/ AnswerRegistration(c)

\* Every account a call may read or write.
Touched(call) ==
    LET operations == Operations(call)
        Programs(reads) == {reads[r].name : r \in DOMAIN reads}
    IN {Resolve(call, n) : n \in GetAccountsInvolved(call)}
         \union UNION {Programs(Reads(call, operations[o])) : o \in DOMAIN operations}

UnderWay(c) == job[c].at \notin {"idle", "applied", "failed", "lost"}

\* What the pending graphs are there for: no two calls under way share an account.
Alone(c) == \A d \in DOMAIN Calls \ {c} :
    UnderWay(d) => (Touched(Calls[c]) \intersect Touched(Calls[d])) \subseteq {Namespace}

Next == \E c \in DOMAIN Calls : (Submit(c) /\ Alone(c)) \/ Step(c)

\* The task that polls the pools polls a future while one can go on.
Fairness == WF_vars(\E c \in Submitted : Step(c))
Spec == Init /\ [][Next]_vars /\ Fairness

-----------------------------------------------------------------------------
\* Types: an account is stored under its own address, and its balances and allowances
\* stay within U256.
IsAccountOf(account, a) == account # None => account \in Account /\ account.self = a
TypeOK ==
    /\ DOMAIN cache = Addresses
    /\ \A a \in Addresses : IsAccountOf(cache[a], a)
    /\ \A c \in DOMAIN Calls :
          /\ DOMAIN job[c].buffer = Addresses
          /\ \A a \in Addresses : IsAccountOf(job[c].buffer[a], a)
    /\ told \in [DOMAIN Calls -> {"none", "applied", "failed"}]
    /\ alive \in BOOLEAN
    /\ late \in 0..MaxLate

\* A balance, or an id, is only taken from the caller, from a program account that was
\* called or takes its own token, or from an account that lets the caller, the program
\* called or the program that a burn names spend that token: the checks
\* validate_instructions makes before the batcher debits.
Lets(account, token, spender) ==
    \/ account.self = spender
    \/ account.program /\ account.self = token
    \/ At(account.programs[token].allowance, spender, 0) > 0
    \/ account.programs[token].approvals[spender] # None
Takes(before, after, token) ==
    LET old == before.programs[token]
        new == after.programs[token]
    IN old.balance > new.balance \/ \E i \in Ids : old.ids[i] > 0 /\ new.ids[i] = 0
SpendersOf(call) ==
    {call.from, call.to}
        \union {Resolve(call, call.instructions[i].program) :
                   i \in {i \in DOMAIN call.instructions : call.instructions[i].is = "Burn"}}
DebitsAreAuthorized ==
    \A c \in DOMAIN Calls : job[c].at = "writing" /\ Calls[c].type = "Call" =>
        \A a \in Addresses : job[c].buffer[a] # None /\ cache[a] # None =>
            \A token \in Addresses :
                Holds(cache[a], token) /\ Takes(cache[a], job[c].buffer[a], token) =>
                    \E spender \in SpendersOf(Calls[c]) : Lets(cache[a], token, spender)

\* Whom an account lets spend a token changes only in a call of its owner, or with a
\* distribution of the token to it.
Spenders(account, token) ==
    LET t == account.programs[token] IN <<t.allowance, t.approvals>>
GivenTo(call, a, token) ==
    \E o \in DOMAIN Operations(call) :
        /\ Operations(call)[o].is = "Distribution"
        /\ Resolve(call, Operations(call)[o].to) = a
        /\ Resolve(call, Operations(call)[o].program) = token
SpendersAreTheOwners ==
    \A c \in DOMAIN Calls : job[c].at = "writing" /\ Calls[c].type = "Call" =>
        \A a \in Addresses : job[c].buffer[a] # None /\ cache[a] # None =>
            \A token \in Addresses :
                Holds(cache[a], token) /\ Spenders(cache[a], token) # Spenders(job[c].buffer[a], token) =>
                    cache[a].owner = Calls[c].from \/ GivenTo(Calls[c], a, token)

\* In the end every call and registration the node took is answered, unless the task that
\* polls the pools panicked: each of the many failures of the validator and the batcher is
\* reported.
EveryCallAnswered == <>[](alive => \A c \in Submitted : told[c] # "none")
=============================================================================
