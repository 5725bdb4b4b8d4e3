# A TLA+ model of the LASR node

This directory models the LASR node (`crates/`), an off-chain ledger. Users deposit
through a bridge contract (the *executable oracle*, EO), send tokens to each other and call
programs through the node, and the node settles the resulting accounts: it disperses them in
blobs to a data availability layer (DA) and records the blobs on the EO contract. The
staking contract (`contracts/StakingContract`) stands on its own.

`PROJECT.json` lists the components, the runs, the source lines of every definition, the
hazards and the theorems.

## The system

The node is a set of actors (crate `ractor`). An actor takes the messages of its mailbox one
at a time; a handler that returns an error ends the actor, whose mailbox is lost, and a
supervisor has `main.rs` spawn a new one under the same name. Actors that wait for others do
it in futures they push into a pool. One task of `main.rs`, the *handler task*, polls the
pools in turn and holds the lock of a pool until one of its futures is done. A panic in a
pooled future ends that task, and nothing starts it again.

| Part | State | Operations | Interacts with |
|---|---|---|---|
| EO listener (`eo_listener/src/lib.rs`, `eo_server.rs`) | filters, processed blocks, a file | poll, process logs, save, reload | EO server, engine |
| RPC server (`rpc_server.rs`) | none | call, send, registerProgram, getAccount | scheduler |
| Scheduler (`scheduler.rs`) | reply ports by transaction | submit, answer | engine, RPC server |
| Engine (`engine.rs`) | none | bridge event, call, registration | executor, pending transactions |
| Executor, compute (`executor.rs`, `compute.rs`) | handles, bundles, output files | create, set, exec, results | engine, pending transactions, scheduler |
| Pending transactions (`pending_transactions.rs`) | graphs, list of bridge-ins | new, verdict, clean, calls | validator, executor, scheduler |
| Validator (`validator.rs`) | pool | validate send, deposit, call | account cache, batcher |
| Account cache (`account_cache.rs`) | accounts | read, write | persistence store |
| Batcher (`batcher.rs`) | batches, cache of dispersed batches, pool | apply transaction, call or registration; next batch; proof | account cache, DA, EO client, scheduler |
| DA client, EO client | pending settlements | disperse, poll; settle, retry | batcher, EO contract |
| Supervision (`manager.rs`, `main.rs`) | panic channel, actor references | forward, respawn | all actors |
| Staking contract (`Staking.sol`) | stakes, rewards, fees | stake, claim, unstake, withdraw | none |

What is hard to get right, and where it bites, is the list `hazards` of `PROJECT.json`.

## Modules

| Module | Models | Source |
|---|---|---|
| `EoListener` | the polling of logs, the file of processed blocks, restarts | `eo_listener/src/lib.rs`, `eo_server.rs`, `main.rs` |
| `Bridge` | `EoListener` composed with the way of a deposit to the persistence store | `eo_server.rs`, `engine.rs`, `pending_transactions.rs`, `batcher.rs` |
| `Transfers`, `PendingGraph` | sends and deposits, the dependency graph, as operators | `account.rs`, `transaction.rs`, `pending_transactions.rs` |
| `Pipeline` | pending transactions, validator, account cache, batcher and handler task together | the above, `validator.rs`, `batcher.rs`, `main.rs` |
| `Ledger` | what `Pipeline` promises: transactions applied one at a time | |
| `Instructions` | tokens and accounts under transfers, burns, distributions and updates, as operators | `token.rs`, `account.rs` |
| `CallRules` | what the validator demands of an instruction, what the batcher makes of it, as operators | `validator.rs`, `batcher.rs`, `programming_model.rs` |
| `Calls` | validator and batcher on calls and registrations, await by await | `validator.rs`, `batcher.rs` |
| `ProgramLedger` | what `Calls` promises: a call is performed wholly or not at all, whatever makes it valid and whatever its instructions do | |
| `CallsLedger` | what makes a call valid and what it does to all accounts at once, and with it the refinement mapping from `Calls` to `ProgramLedger` | |
| `Execution` | from a call to its outputs, from a registration to a bundle on disk | `engine.rs`, `executor.rs`, `compute.rs`, `pending_transactions.rs` |
| `Supervision` | panics, supervisors, the panic channel, respawns | `main.rs`, `manager.rs` |
| `Requests` | RPC server and scheduler, on actors of `Supervision` | `rpc_server.rs`, `scheduler.rs`, `helpers.rs` |
| `Settlement` | from an updated account to the blob on the contract | `batcher.rs`, `da_client.rs`, `eo_client.rs`, `manager.rs` |
| `Staking` | the staking contract | `Staking.sol` |
| `*Proofs` | theorems on `EoListener`, `Bridge`, `Pipeline`, `Calls`, `Settlement`, `Execution`, `Requests`, `Staking` | |
| `MC*` | constants for TLC | |

A step of a module is what the code does between two awaits; steps of different tasks
interleave. Definitions named like `DebitUnchecked` that come before the one they resemble
(`Debit`) are mistakes the properties are tried against and belong to no specification.

**EoListener.** A turn of the loop is two steps, because `process_logs` awaits the block
number after it has the logs: `LogsOk` or `LogsErr`, then `ProcessLogs` or `Abandon` (the
number failed or the turn timed out). `SaveBlocksProcessed` writes the file after the cast;
`Crash` may come between any two steps. An event is the height of its block.

**Bridge.** Extends `EoListener` by the mailbox of the EO server actor (`logs`), the futures
of the engine, the list of bridge-ins, the account cache (`credits`) and the store
(`persisted`). `ParseBridgeLog` is what `parse_bridge_log` makes of a reply, its events in
order. An account is a map from deposits to how often each was credited. The batcher reads the
account (`ReadAccount`), writes it back (`WriteAccount`) and puts it into the store later
(`PutAccount`), in steps of their own: of two deposits of one user, or a deposit and a send,
that both hold the account, the one written last undoes the other (`overlapped`). A crash
empties all but the file and the store. That a reply does not parse, an actor is missing or a
put fails is a fault, which drops what was on its way; so is a late read, which makes the
account anew.

**Pipeline.** `job[t]` says which await a transaction has reached, which account its future
holds and which accounts it will write. A read of the cache may time out although the
account exists (`Read`): a future that was not polled for 15 s finds its answer and its
timeout ready, and `select!` takes either. `told` is what the scheduler hears.

**Instructions, CallRules, Calls.** A call carries the instructions its program returned.
`PendingCall` reads the accounts the call names, `Validate` checks every instruction against
them. The batcher counts the call on the account of the *program* (`IncrementNonce`), then
reads what each operation needs (`ReadNext`), performs it on a buffer (`ApplyNext`), writes
the buffer account by account and answers. A result is a value, an error (the call fails) or
a panic (U256 arithmetic; the handler task ends). A map (`programs`, `allowance`,
`approvals`, data and metadata) is a function on all its keys, `None` where it has no entry.

**Execution.** The executor's lock, its map of handles and the pre-call graph; the task that
`run_container` spawns opens the output file, waits for the container, casts `Results` and
removes the file. A file is an inode: a container that lost its path still writes to it. Its
path is made of the *content id* of the program, which two programs may share. Two calls may
be of one transaction that was sent again (`sent`): the handle is stored under the
transaction, so the results of one may take and await the handle of the other (`awaited`). A
registration goes through the steps of `create` and `bundle`, each of which may fail. What the
code only logs (no handle, no engine, no batcher) ends a call or a registration untold.

**Supervision, Requests.** A panicked actor is *stopping* when its supervisor hears of it and
*stopped* later; the main loop respawns only what has stopped. A request waits on a reply
port that moves from the RPC actor to the scheduler's map; a port that is dropped closes the
channel of its client. `Outcomes` is what the executor, the batcher and the pending
transactions actor may say of a transaction to the scheduler, from their casts.

**Settlement.** An account is a version number, a batch a map from accounts to versions.
`CacheAccount` writes the account cache and queues for the lock of the batcher,
`AddAccountToBatch` gets the lock. `GetNextBatch`, `PutAccount`, `StoreBatch` and
`StoreOk`/`StoreErr` are the awaits of `handle_next_batch_request`, which holds the lock
from the first to the last. `Settle` to `SettleSuccess` are the EO client and the contract.

**Staking.** One action per function of the contract; what makes it revert is its guard.
`Precision` stands for 1e18.

Abstractions: log contents, metadata values, wording of errors and payloads are left out.
Signatures of sends are taken as valid; a call has a Boolean `signed`. In `Pipeline` a client
sends a transaction again only once it was answered; in `Requests` and `Execution` at any
time. A nonce may be any that is larger than the account's, as `validate_nonce` has it.

## Runs

| Run | Result | Shows |
|---|---|---|
| `eo_steady` | pass | without restarts no event is skipped, none is cast twice and every one is cast in the end, with failing queries |
| `bridge` | pass | across a crash: the file names only blocks that were cast; a deposit is credited twice only if its block was not saved or was the current one, is skipped only below the height of the restart, and is recorded without credit only by a crash, a fault, or another transaction that held the account at the same time; every other one is persisted |
| `pipeline_isolated` | pass | transactions under way with disjoint accounts, sent as often as clients like: the pipeline implements `Ledger`, nothing underflows, a deposit is applied once |
| `pipeline_rivals` | pass | rival sends and a late read: balances stay natural numbers and every transaction is answered, unless the handler task panicked |
| `pipeline_conflict` | violation | the graph schedules transactions of one account together |
| `pipeline_late_read` | violation | one late read rebuilds an existing account from nothing |
| `calls` | pass | calls under way with disjoint accounts: `Calls` implements `ProgramLedger`, of which the panic of another call leaves a part only before the answer; balances are taken and spenders changed only with leave; every call is answered |
| `execution` | pass | results miss their handle only if the transaction came again; outputs are mixed up only between calls that overlap or were sent again; announced programs are bundled; every call and registration ends |
| `requests` | pass | answers are true and reach their client, every client returns, actors are respawned unless their signal was read too early |
| `settlement` | pass | no update falls out of the batches; what is settled is what was dispersed and is retrievable; every update is settled |
| `settlement_store_fails` | violation | after one failed dispersal nobody asks the new batcher for batches |
| `staking` | pass | ether and stakes add up; rewards are backed in spite of rounding, left by the owner, and not paid beyond the rate |

The condition of `pipeline_isolated` and `calls`, that no two transactions under way share an
account, is what the dependency graph is there to provide. `pipeline_conflict` shows that it
does not: `account_index` is only filled for transactions that already have a dependency. So
these runs say what the rest of the node gives once that condition holds, and not that the
node as it is behaves like a ledger.

Some properties name the exception the code makes, because without it they are false:

- `DepositsAreReal` and `SkippedOnlyBelowRestart`: the list of bridge-ins is in memory, and the
  filter restarts at the saved *height of the chain*.
- `SavedIsCredited` and `EveryDepositPersisted`: the file is saved before the credit is
  persisted; and the batcher reads an account, awaits, and writes it back without regard to
  what was written meanwhile, so without a crash or a fault a deposit is lost when another
  deposit of the user, or a send, holds the account too.
- `ImplementsLedger`: `validate_nonce` takes any larger nonce, and a transaction adds one to
  it. A send whose nonce is `k` ahead can be applied `k` times if it is sent again (`Apply` of
  `Ledger`).
- `ImplementsProgramLedger`: when a call panics, the handler task is gone and with it the
  writes another call had begun (`Halt`); that one was not answered. A transfer from an account
  to itself leaves the credited copy, the debited one is written over (`Perform`).
- `HandleFound`: results find no handle when those of another call of the transaction took it.
- `OutputsAreOwn`: programs of one content id share an output file, `program_index`, which
  should keep calls of a program apart, is never filled, and calls of one transaction share a
  handle. `EveryCallEnds`: a container that fails casts no results, its handle and vertex
  stay, and nobody is told.
- `EveryRegistrationEnds`: that the batcher was gone is only logged.
- `AnnouncedIsBundled` leaves out the payload, whose copy may fail and is only logged.
- `RespawnedUnlessEarly`: a signal read while its actor is stopping is dropped.
- `EveryUpdateSettles`: a lost proof, a failed poll, call or transaction is not tried again.
- `PaidIsEarned`: `withdrawStake` pays a reward that is not free and keeps it on record.

### Bounds

All bounds are constants named in the modules.

- `eo_steady`: two streams, two blocks, two failed queries; `bridge`: one stream, two blocks
  with a deposit each, both of one user, who also sends again and again; the two come in one
  reply or in two, before or after the restart; one crash and one fault.
- `pipeline_isolated`: a send that needs a deposit first, one to oneself, both with nonces two
  ahead, and deposits to accounts with and without the token; any number of times.
  `pipeline_rivals`, `pipeline_conflict`, `pipeline_late_read`: two sends that cannot both be
  paid, a deposit to their receiver, one late read. `RivalSends` is the smaller set for
  liveness.
- `calls`: seven addresses, amounts up to 3, any two of 20 calls and registrations that reach
  every instruction, rule and result, and one late read. Reads while instructions are applied
  are on time: a late one there rebuilds an account, as `pipeline_late_read` shows.
- `execution`: a call, a second one that is of the same transaction or of another program with
  the same content, and a registration of that content, any step of which may fail.
- `requests`: two of five requests of all methods, two of them with the same transaction; two
  panics; a panic channel with room for one (the code has 120), so that it fills up.
- `settlement`: two accounts, two updates, two blobs and two faults of any kind.
- `staking`: two users, who are symmetric (no property is temporal), rewards over three units
  of time at 2 tokens with a precision of 5, so that up to three units of ether at stake leave a
  remainder both in the reward per token (10 by 3) and in what a staker earned (a multiple of
  2 or 3 by 5).

Deadlock is not checked where the modelled system comes to rest: when the bounds are used up
or all requests are answered (`settlement*`, `calls`, `execution`, `requests`, `staking`), and
after the handler task panicked (`pipeline_rivals`).

### Fairness

Weak fairness for the steps of tasks, which tokio polls when they are ready, for timers, and
for the DA and the chain, which are assumed to confirm. Strong fairness where a step waits for
a mutex or a turn in a mailbox that others use in between: tokio's mutex and the mailboxes are
first-in first-out, and `select!` polls the two log queries in random order. Containers end.
New transactions, requests, faults, panics, crashes and cleaning are not fair.

## Proofs

`BridgeProofs` proves of the listener alone (`EoListener`), for any set of streams, chain and
number of faults and crashes:

- `ListenerTypeOK`: the types, with restarts. It needs `InChain`: the blocks the listener
  holds are blocks of the chain with logs, and any set of blocks of the chain can be listed in
  order (`Orderly`), so that `Highest` exists. `Orderly` grows with the chain (`OrderlyNext`):
  the steps of the chain take the place of an induction over its length.
- `NoEventIsSkipped` and `LogsAreCastOnce`, without restarts, from `SteadyInv`. Neither is
  inductive alone: the filter of a stream must start above every processed block and leave
  no unprocessed event below it (`FilterFollows`), and a reply that holds a block must hold
  all events of the filter before it (`ReplyIsPrefix`), also when the chain has grown since.
- `FileNamesOnlyCastBlocks` and `SavedBlocksAreNotCastAgain`, with restarts, from
  `RestartInv`: what is recorded was cast, and a block of the file lies below the filter
  unless it is the one the filter was restarted from.

The assumptions are that the bounds are natural numbers (`BoundsAreNaturals`).

It carries this on to the accounts (`Bridge`), for any chain, users, other transactions,
crashes and faults, from `BridgeInv`. It assumes `DepositsIsAStream`, `TransactionsHaveUsers`
and `NoneIsNoAccount` besides:

- `BridgeSkipsOnlyBelowRestart`, from `SkipInv`: `FilterResumes` says what the filter covers
  since the last restart, and `ReplyIsPrefix` that a reply leaves out nothing in between.
- `BridgeDepositsAreReal`, from `CreditInv`: what is on its way was cast, and a deposit that no
  restart put in doubt is credited at most once. `Once` makes this inductive: a deposit that is
  still coming and not in the list of bridge-ins has no credit and none under way, so the list
  is what keeps the several messages that may hold one deposit from crediting it again.
- `BridgeSavedIsCredited`, from `NothingLost` with both: what was cast is credited or on its
  way while nothing crashed or failed. A write of the batcher replaces the whole account, so
  this needs `Agree`: what a transaction holds of an account is what the cache has of it, for
  all deposits but those whose account two transactions held at a time.

That the events of a message have an order for `ParseBridgeLog` to choose is `ParsedEvents`,
from `Orderly`.

`PipelineProofs` proves for any accounts, transactions, genesis and number of late reads:

- `PipelineTypeOK`: no balance is negative in the cache, in a future or in what it is about
  to write. It rests on `Inert`: the graph never holds a queue or a dependency, so the
  operations of the graph schedule a transaction only when it is new (lemmas
  `AddSchedules`, `VerdictSchedulesNothing`, `CleanSchedulesNothing`). The same lemmas say
  for every instance what `pipeline_conflict` shows on one.
- `DepositsAreAppliedOnce`, from `DepositInv`: a deposit that is under way or applied is in
  the list of bridge-ins, and one that is applied is past the computation for good.
- `HandlerTaskLives`, while no two transactions under way share an account, from
  `IsolatedInv`: a future writes only accounts of its transaction (`WritesOwn`), so nobody
  changes the sender between the two reads and what `validate_send` checked is still there
  when the batcher reads it (`Funded`).
- `PipelineImplementsLedger`, the refinement of `Ledger`, under the same condition and while
  no read is late. The balances of the ledger are the cache with the writes under way done, so
  the step that performs a transaction is the last computation of its future, and every other
  step, each write included, leaves the ledger as it is. Transactions may come any number of
  times: a send passes `validate_nonce` only with a nonce ahead of the account's, which is what
  the ledger asks of one it has applied before. The fairness of the ledger is none, so the
  theorem is the whole refinement that `pipeline_isolated` checks.

They assume `PipelineConstants`: transactions are well formed, a deposit has one address,
and genesis maps addresses to accounts; and `NoneIsNoValue`.

`SettlementProofs` proves for any accounts, capacity of a batch, updates, blobs and faults:

- `SettlementTypeOK`, from `Typed`.
- `UpdatesAreNotLost`, `SettledIsDispersed` and `SettledAccountsAreRetrievable`, from
  `IInv`. `NoUpdateLost` (`Kept`) is not inductive: adding an account to the parent replaces
  the version there, which must not be newer. `Queue` says that what waits for the lock is in
  the order it was written, with the current version last, and `Newest` that the parent holds
  nothing older than what was dispersed or persisted. `Holding` says what the handler has
  persisted while it holds the lock, and that what it disperses is the parent; `Dispersed`
  relates a blob to the store and the contract to the blobs. `IInv` was model-checked on a
  larger instance (three updates, three blobs) before it was proved.

They assume `SettlementConstants`: the bounds are natural numbers.

`ExecutionProofs` proves for any calls, transactions, registrations, programs and contents,
from one invariant `IInv`, whose parts are shown separately:

- `ExecutionTypeOK`, from `Typed` and `Locked`. `Typed` says that the index of the pre-call
  graph stays empty, so no call ever waits for another and a completed one starts none.
- `ResultsFindTheHandle`, from `HandlesInv` and `LoneInv`: between `exec` giving up the lock and
  `results` taking it a handle of the transaction is in the map, unless the results of another
  call of the transaction took it. It needs `Locked`: `results` cannot run while a call is
  between spawning its task and inserting its handle. `LoneInv` says that for a call whose
  transaction did not come again meanwhile the handle is its own, and stays so.
- `AnnouncedProgramsAreBundled`, from `BundleInv`: the parts on disk at each stage of a
  registration. It holds with several registrations of one program, as parts only appear.
- `LoneCallsHaveTheirOutputs`, from `Files`, `OwnInv` and `ForwardInv`: a running call that did
  not overlap with one of its content has no rival, the file at its path is the one its
  container writes to, and by `LoneInv` the task its results await is its own.

They assume `ExecutionConstants`: calls and registrations are apart, `None` is neither of them
nor a transaction, transactions and registrations have programs, and programs have contents.

`RequestsProofs` proves for any requests, actors, panics and capacity of the panic channel:

- `RequestsTypeOK`, from `Supervised` and `Typed`.
- `AnswersAreTrue`, from `TrueMail`: what the mailbox of the scheduler says of a request has
  happened, and is of the kinds the node says of its method. It assumes `OneMethod`: requests
  of one transaction use one method. The type of a transaction is part of its hash, but the
  server does not compare it with the method, so this is up to the clients.
- `AnswersReachClients`, an action property, from `Kept`: while a client waits for a
  transaction the engine was given, its port is in the map.

They assume `RequestsConstants` and `SupervisionConstants` besides.

Both invariants were model-checked on the instances of the runs before they were proved.

`StakingProofs` proves for any finite set of users, amounts, rate, precisions and times, from
`StakingInv`:

- `StakingAccounted`, `StakingRewardsAreBacked`, `StakingOwnerLeavesRewards` and
  `StakingPaidIsEarned`. None is inductive alone. What the contract divides away makes
  `RewardsAreBacked` unfit for induction, so `StakingInv` compares the pending rewards with
  what all stakers are owed *before* any division (`Due`); `UpdatedFacts` says that the
  division of `updateReward` never turns out in favour of a staker.
- The lemmas on sums (`SumUpdate`, `SumAdd`, `SumScale`, `SumMonotonic`) say of `SumFunction`
  over the users what a fold gives in any order.

They assume `StakingConstants`: the numbers are natural, the precisions are not zero, the fee
is capped at the whole, and the launch is not after the closure.

`CallStepsProofs` and `CallsProofs` prove for any addresses, accounts, calls and registrations,
with any instructions in any number. The first takes the steps of `Calls`, with what it needs of
the rules of `CallRules` as a hypothesis (`RulesHold`: what an operation does to well-formed
accounts, which instruction it comes from, and that a call is performed from operation to
operation); the second proves `RulesHold`, operator by operator, and with it:

- `CallsTypes`, whatever is read late, from `TypeInv`: besides the types, what a future has
  read at each stage (`ReadFor`) is what the operation it stands at reads. That every
  instruction gives well-formed accounts is `OperationFacts`, from one lemma per operator of
  `Instructions` and `CallRules`.
- `CallsDebitsAreAuthorized` and `CallsSpendersAreTheOwners`, from `CallsInv`, while the
  batcher's reads are in time (`"applying" \notin LateReads`; a late one there makes an account
  anew, and nothing of the old one is kept). The validator looks at each instruction alone and
  at accounts it read before; the batcher applies them one upon the other. The invariant spans
  the two: what the validator read is still in the cache (`StageInv`), which needs that no
  other call under way touches it (`Isolated`); what it lets through is allowed by the accounts
  as they are (`Allowed`, lemma `ValidIsAllowed`); and each account in the buffer differs from
  the one in the cache only by what was allowed (`Kept`, lemma `KeptNext`), which a further
  instruction on the same account keeps. `SelfOwned` is there because the validator
  compares the owner of an account with the owner of the *caller's* account.

- `CallsImplementLedger`, again while the batcher's reads are in time: `Calls` implements
  `ProgramLedger`. A step of the ledger performs a whole call, where the batcher takes one per
  account it reads or writes. So `LedgerInv` adds to `CallsInv` what has become of the call on
  the way (`LedgerStage`): a call is let through on what the accounts hold, but for some that
  were read late; and the buffer of a call, laid over any accounts that agree with the cache
  where the call touches them (`Overlay`), is what its operations so far make of these
  accounts (`Applied`). That the other accounts may be any lets the other calls write theirs
  meanwhile. `PerformFacts` is the heart of it: an operation applied to what the
  batcher reads, some of it from the buffer and some of it from the cache, does to buffer and
  cache together what `Perform` does to the accounts. The accounts
  a call is writing count as changed (`Accounted`) from the last operation on, so that a write
  changes nothing in the ledger but `written`, which is the cache, and the call is answered once
  `written` has all of it. When a call panics, the writes of others are left undone: `Booked` is
  the cache from then on, as `Halt` has it.

They assume `CallsConstants`, `NoneIsNoValue`, and `CallersAreUsers`: an account from which
calls come belongs to its own key, and is not the account of a program. `TypeInv` and `CallsInv`
were model-checked with the calls of the run before they were proved. `LedgerInv` speaks of
all accounts there may be and is out of TLC's reach; the refinement itself was checked.

Each proof module tries Zenon briefly before the SMT solver: the encoder for the solver infers
the types of a leaf in a table that grows with every leaf it is given, and is slow when most
leaves go there.

Induction over data is out of reach of the installed provers in the form the library states it.
The proofs that need it (sums, lists of updates and of instructions) take a
least counterexample instead: the set of the lengths, or of the sets, for which a claim fails
has no least member (`LeastNatural`, `Counting`, `UserByUser`), and the recursive functions in
`ApplyTokenUpdates`, `ApplyProgramUpdates`, `Operations` and `Performing` are unfolded by lemmas
of their own (`UpdatesUnfold`, `ProgramUpdatesUnfold`, `OperationsUnfold`, `PerformingUnfold`).

Model-checked only: liveness, which is out of reach of the proof system. Every invariant,
action property and refinement of the passing runs is a theorem, those of `Ledger` and
`ProgramLedger` included.

## Not modelled

- The feature `remote` of the executor (jobs polled over RPC): it does not build.
- `retrieve_account` of the DA client, `Remove` and `Update` of the account cache, and the
  balance queries of the EO client: nothing in the node calls them, or they only read.
- Settlement logs beyond the listener: the engine only logs them.
- Child batches: the code never makes one, and an account that does not fit into the parent
  makes the batcher loop with its lock held (`spinning`). No run reaches this; the theorems on
  `Settlement` cover it.
- The blob cache, whose handlers do nothing.
- The archive format of packages, the CLI, the wallet, signing, and the
  clients of TiKV, DA, IPFS and web3: input, output and cryptography.
- A blob that holds half of a transfer, which needs `Pipeline` and `Settlement` composed: no
  code in the node reads settled blobs, so nothing here would tell it from a whole one.
