-------------------------------- MODULE Pipeline --------------------------------
(***************************************************************************)
(* How a send or a deposit reaches the accounts: the pending transactions  *)
(* actor schedules it with the validator, the validator checks it against  *)
(* the sender as the account cache has it, the batcher reads the accounts  *)
(* again, applies the transaction and writes them back                     *)
(* (crates/actors/src/pending_transactions.rs, validator.rs, batcher.rs,   *)
(* account_cache.rs).                                                      *)
(*                                                                         *)
(* The validator and the batcher push a future per transaction into a      *)
(* pool. One task of the node (crates/node/src/main.rs) polls the pools    *)
(* in turn: it holds the lock of a pool until one of its futures is done,  *)
(* so the futures of a pool interleave where they await, and an actor      *)
(* cannot push into the pool that is polled. The cache answers messages in *)
(* the order they are cast, so a read and a write take effect when cast.   *)
(*                                                                         *)
(* The token is ETH or VERSE, for which no program account is needed.      *)
(***************************************************************************)
EXTENDS PendingGraph

CONSTANTS Genesis,     \* the accounts the cache or the persistence store holds at the start
          MaxFaults    \* bound: reads of the cache that time out

ASSUME PipelineConstants ==
    /\ Txs \subseteq Transaction
    /\ \A t \in Txs : t.type = "BridgeIn" => t.from = t.to
    /\ Genesis \in [Accounts -> Account \union {None}]
    /\ MaxFaults \in Nat

VARIABLES graph,    \* DependencyGraphs.pending
          seen,     \* PendingTransactionActor.bridge_in_transactions
          job,      \* where each transaction is, and the accounts its future holds
          cache,    \* the account AccountCacheMessage::Read gives for each address
          polled,   \* the pool the handler task holds, None between two polls
          alive,    \* the handler task has not panicked
          told,     \* what the scheduler was told of each transaction
          applied,  \* history: the transactions whose accounts were all computed
          faults

vars == <<graph, seen, job, cache, polled, alive, told, applied, faults>>

Stages == {"idle", "waiting", "to validator", "reading", "read", "checking", "to batcher",
           "applying", "from", "to", "writing", "valid", "invalid", "lost"}
NoWrites == [a \in Accounts |-> None]
Job(at) == [at |-> at, held |-> None, writes |-> NoWrites]

Init ==
    /\ graph = NewGraph
    /\ seen = {}
    /\ job = [t \in Txs |-> Job("idle")]
    /\ cache = Genesis
    /\ polled = None
    /\ alive = TRUE
    /\ told = [t \in Txs |-> "none"]
    /\ applied = {}
    /\ faults = 0

-----------------------------------------------------------------------------
(* The pending transactions actor *)

\* The graph changes to result.graph; what it found ready goes to the validator.
Schedule(result, jobs) ==
    /\ graph' = result.graph
    /\ job' = [u \in Txs |-> IF u \in result.ready THEN Job("to validator") ELSE jobs[u]]

\* PendingTransactionMessage::New: a bridge event that was seen is skipped. A client
\* may send again a transaction that was answered.
NewUnseen(t) ==
    /\ job[t].at = "idle"
    /\ seen' = seen
    /\ \E first \in AccountsInvolved(t) :
         Schedule(AddTransaction(graph, t, first), [job EXCEPT ![t] = Job("waiting")])
    /\ told' = [told EXCEPT ![t] = "none"]
    /\ UNCHANGED <<cache, polled, alive, applied, faults>>
New(t) ==
    /\ job[t].at = "idle"
    /\ t \notin seen
    /\ seen' = IF t.type = "BridgeIn" THEN seen \union {t} ELSE seen
    /\ \E first \in AccountsInvolved(t) :
         Schedule(AddTransaction(graph, t, first), [job EXCEPT ![t] = Job("waiting")])
    /\ told' = [told EXCEPT ![t] = "none"]
    /\ UNCHANGED <<cache, polled, alive, applied, faults>>

\* PendingTransactionMessage::Valid and Invalid; Invalid is passed to the scheduler.
Verdict(t) ==
    /\ job[t].at \in {"valid", "invalid"}
    /\ Schedule(HandleVerdict(graph, t), [job EXCEPT ![t] = Job("idle")])
    /\ told' = IF job[t].at = "invalid" THEN [told EXCEPT ![t] = "failed"] ELSE told
    /\ UNCHANGED <<seen, cache, polled, alive, applied, faults>>

\* PendingTransactionMessage::CleanGraph, for a vertex older than PENDING_TIMEOUT.
CleanGraph(t) ==
    /\ t \in graph.vertices
    /\ Schedule(CleanVertex(graph, t), job)
    /\ UNCHANGED <<seen, cache, polled, alive, told, applied, faults>>

-----------------------------------------------------------------------------
(* The pools and the account cache *)

Pool(p) == {t \in Txs : job[t].at \in IF p = "validator" THEN {"reading", "read"}
                                      ELSE {"applying", "from", "to", "writing"}}

Poll(p) ==
    /\ alive
    /\ polled = None
    /\ Pool(p) # {}
    /\ polled' = p
    /\ UNCHANGED <<graph, seen, job, cache, alive, told, applied, faults>>

\* AccountCacheMessage::Write, and Read: the account of the cache or else of the
\* persistence store.
CacheWrite(a, account) == cache' = [cache EXCEPT ![a] = account]
CacheRead(a) == cache[a]

\* check_account_cache: an answer that comes too late is no account.
Read(a, answer) ==
    \/ answer = CacheRead(a) /\ faults' = faults
    \/ CacheRead(a) # None /\ answer = None /\ faults < MaxFaults /\ faults' = faults + 1

-----------------------------------------------------------------------------
(* The validator *)

ValidatorPush(t) ==
    /\ job[t].at = "to validator"
    /\ polled # "validator"
    /\ job' = [job EXCEPT ![t] = Job("reading")]
    /\ UNCHANGED <<graph, seen, cache, polled, alive, told, applied, faults>>

ValidatorRead(t) ==
    /\ polled = "validator"
    /\ job[t].at = "reading"
    /\ \E answer \in {cache[t.from], None} :
         /\ Read(t.from, answer)
         /\ job' = [job EXCEPT ![t] = [Job("read") EXCEPT !.held = answer]]
    /\ UNCHANGED <<graph, seen, cache, polled, alive, told, applied>>

\* The rest of pending_transaction: a send without account is invalid, everything
\* else is checked on the threads of the validator core.
PendingTransactionDrops(t) ==
    /\ polled = "validator"
    /\ job[t].at = "read"
    /\ job' = IF t.type = "Send" /\ job[t].held = None
              THEN [job EXCEPT ![t] = Job("lost")]
              ELSE [job EXCEPT ![t].at = "checking"]
    /\ polled' = None
    /\ UNCHANGED <<graph, seen, cache, alive, told, applied, faults>>
PendingTransaction(t) ==
    /\ polled = "validator"
    /\ job[t].at = "read"
    /\ job' = IF t.type = "Send" /\ job[t].held = None
              THEN [job EXCEPT ![t] = Job("invalid")]
              ELSE [job EXCEPT ![t].at = "checking"]
    /\ polled' = None
    /\ UNCHANGED <<graph, seen, cache, alive, told, applied, faults>>

\* validate_bridge_in and validate_send.
Validate(t) ==
    /\ job[t].at = "checking"
    /\ job' = [job EXCEPT ![t] =
                 IF \/ t.type = "BridgeIn"
                    \/ /\ ValidateBalance(job[t].held, t.value)
                       /\ ValidateNonce(job[t].held, t.nonce)
                 THEN Job("to batcher") ELSE Job("invalid")]
    /\ UNCHANGED <<graph, seen, cache, polled, alive, told, applied, faults>>

-----------------------------------------------------------------------------
(* The batcher: AppendTransaction, then add_transaction_to_account *)

BatcherPush(t) ==
    /\ job[t].at = "to batcher"
    /\ polled # "batcher"
    /\ job' = [job EXCEPT ![t] = Job("applying")]
    /\ UNCHANGED <<graph, seen, cache, polled, alive, told, applied, faults>>

ReadFrom(t) ==
    /\ polled = "batcher"
    /\ job[t].at = "applying"
    /\ \E answer \in {cache[t.from], None} :
         /\ Read(t.from, answer)
         /\ job' = [job EXCEPT ![t] = [Job("from") EXCEPT !.held = answer]]
    /\ UNCHANGED <<graph, seen, cache, polled, alive, told, applied>>

\* The sender as it is applied: a deposit builds an account that was not found.
Sender(t) == IF job[t].held = None THEN FreshAccount
             ELSE [job[t].held EXCEPT !.nonce = @ + 1]

Fails(t) == \/ t.type = "Send" /\ job[t].held = None
            \/ ApplySendErrs(Sender(t), t, t.from)

\* FailedTransaction: the handler task reports the transaction invalid.
FromFails(t) ==
    /\ polled = "batcher"
    /\ job[t].at = "from"
    /\ Fails(t)
    /\ job' = [job EXCEPT ![t] = Job("invalid")]
    /\ polled' = None
    /\ UNCHANGED <<graph, seen, cache, alive, told, applied, faults>>

\* The underflow of the balance unwinds the handler task, which nobody starts again.
FromPanics(t) ==
    /\ polled = "batcher"
    /\ job[t].at = "from"
    /\ ~Fails(t)
    /\ ApplySendPanics(Sender(t), t, t.from)
    /\ alive' = FALSE
    /\ polled' = None
    /\ job' = [job EXCEPT ![t] = Job("lost")]
    /\ UNCHANGED <<graph, seen, cache, told, applied, faults>>

FromApplies(t) ==
    /\ polled = "batcher"
    /\ job[t].at = "from"
    /\ ~Fails(t)
    /\ ~ApplySendPanics(Sender(t), t, t.from)
    /\ LET writes == [NoWrites EXCEPT ![t.from] = ApplySend(Sender(t), t, t.from)]
       IN \/ /\ t.from = t.to
             /\ job' = [job EXCEPT ![t] = [Job("writing") EXCEPT !.writes = writes]]
             /\ applied' = applied \union {t}
             /\ faults' = faults
          \/ /\ t.from # t.to
             /\ \E answer \in {cache[t.to], None} :
                  /\ Read(t.to, answer)
                  /\ job' = [job EXCEPT ![t] = [at |-> "to", held |-> answer, writes |-> writes]]
             /\ applied' = applied
    /\ UNCHANGED <<graph, seen, cache, polled, alive, told>>

ToApplies(t) ==
    /\ polled = "batcher"
    /\ job[t].at = "to"
    /\ LET receiver == IF job[t].held = None THEN FreshAccount ELSE job[t].held
       IN job' = [job EXCEPT ![t] = [at |-> "writing", held |-> None,
                      writes |-> [job[t].writes EXCEPT ![t.to] = ApplySend(receiver, t, t.to)]]]
    /\ applied' = applied \union {t}
    /\ UNCHANGED <<graph, seen, cache, polled, alive, told, faults>>

\* add_account_to_batch, for one account of the buffer. It may wait for the lock of
\* the batcher between two accounts.
WriteAccount(t, a) ==
    /\ polled = "batcher"
    /\ job[t].at = "writing"
    /\ job[t].writes[a] # None
    /\ CacheWrite(a, job[t].writes[a])
    /\ job' = [job EXCEPT ![t].writes[a] = None]
    /\ UNCHANGED <<graph, seen, polled, alive, told, applied, faults>>

Applied(t) ==
    /\ polled = "batcher"
    /\ job[t].at = "writing"
    /\ job[t].writes = NoWrites
    /\ job' = [job EXCEPT ![t] = Job("valid")]
    /\ told' = [told EXCEPT ![t] = "applied"]
    /\ polled' = None
    /\ UNCHANGED <<graph, seen, cache, alive, applied, faults>>

-----------------------------------------------------------------------------
Pending(t) == Verdict(t) \/ CleanGraph(t)
Validator(t) == ValidatorPush(t) \/ ValidatorRead(t) \/ PendingTransaction(t) \/ Validate(t)
Batcher(t) == \/ BatcherPush(t) \/ ReadFrom(t) \/ FromFails(t) \/ FromPanics(t) \/ FromApplies(t)
              \/ ToApplies(t) \/ Applied(t)
              \/ \E a \in Accounts : WriteAccount(t, a)
Step(t) == Pending(t) \/ Validator(t) \/ Batcher(t)
Polls == \E p \in {"validator", "batcher"} : Poll(p)

\* Clients and the bridge submit whenever they like.
Next == Polls \/ \E t \in Txs : New(t) \/ Step(t)

\* What the graph is there for: no two transactions under way share an account.
Alone(t) == \A u \in Txs \ {t} : job[u].at # "idle" =>
                                   AccountsInvolved(t) \intersect AccountsInvolved(u) = {}
NextIsolated == Polls \/ \E t \in Txs : (New(t) /\ Alone(t)) \/ Step(t)

\* The handler task polls the pools in turn and the mutex of a pool is fair to the
\* actor that waits for it; a pool wakes its futures in the order they became ready.
Fairness == /\ \A p \in {"validator", "batcher"} : SF_vars(Poll(p))
            /\ \A t \in Txs : SF_vars(Verdict(t) \/ Validator(t) \/ Batcher(t))

Spec == Init /\ [][Next]_vars
FairSpec == Spec /\ Fairness
IsolatedSpec == Init /\ [][NextIsolated]_vars

-----------------------------------------------------------------------------
\* Types: balances and nonces are never negative, in the cache, in what a future holds
\* and in what it is about to write.
TypeOK ==
    /\ graph \in Graph
    /\ seen \subseteq Txs
    /\ job \in [Txs -> [at : Stages, held : Account \union {None},
                        writes : [Accounts -> Account \union {None}]]]
    /\ cache \in [Accounts -> Account \union {None}]
    /\ polled \in {None, "validator", "batcher"}
    /\ alive \in BOOLEAN
    /\ told \in [Txs -> {"none", "applied", "failed"}]
    /\ applied \subseteq Txs
    /\ faults \in 0..MaxFaults

\* A bridge event is applied at most once, however often it is delivered and whatever
\* else is under way: the list of bridge-ins of the pending transactions actor.
DepositOnce ==
    [][\A t \in Txs : t.type = "BridgeIn" /\ t \in applied /\ job'[t].at = "writing"
                        => job[t].at = "writing"]_vars

\* A transaction the pending actor took is answered, unless the handler task panicked.
EveryTransactionAnswered ==
    \A t \in Txs : job[t].at # "idle" ~> (told[t] # "none" \/ ~alive)

\* The accounts once the writes under way are done.
Accounted == [a \in Accounts |->
    IF \E t \in Txs : job[t].at = "writing" /\ job[t].writes[a] # None
    THEN LET t == CHOOSE t \in Txs : job[t].at = "writing" /\ job[t].writes[a] # None
         IN job[t].writes[a]
    ELSE cache[a]]

\* While no two transactions under way share an account, the pipeline is a ledger that
\* applies a transaction at a time: a send that was validated against one read of the
\* account and applied to another is still paid for, no deposit is applied twice, and a
\* send is applied again only while its nonce is ahead of its account's, which grows by
\* one with each: validate_nonce takes any larger nonce.
Promise == INSTANCE Ledger WITH accounts <- Accounted
ImplementsLedger == Promise!Spec

\* Under the same condition no balance underflows in the batcher: the task that serves
\* the pools of all actors goes on.
HandlerLives == alive

\* A transaction goes to the validator only while no other transaction under way
\* touches its accounts: the dependencies add_transaction looks for.
NoConflictScheduled ==
    \A t, u \in Txs : t # u /\ job[t].at \notin {"idle", "waiting", "lost"}
                           /\ job[u].at \notin {"idle", "waiting", "lost"}
                       => AccountsInvolved(t) \intersect AccountsInvolved(u) = {}

\* When the batcher builds an account for a deposit, the account did not exist: the
\* transaction is first for the account.
FirstForAccount ==
    \A t \in Txs : job[t].at = "from" /\ t.type = "BridgeIn" /\ job[t].held = None
                    => cache[t.from] = None
=============================================================================
