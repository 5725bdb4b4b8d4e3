-------------------------------- MODULE Bridge --------------------------------
(***************************************************************************)
(* A deposit from the log of the contract to the balance of an account: the *)
(* listener of EoListener composed with the EoServer actor (crates/actors/ *)
(* src/eo_server.rs), the engine (engine.rs) and the list of bridge-ins of *)
(* the pending transactions actor (pending_transactions.rs), up to the     *)
(* batch that persists the account (batcher.rs), with restarts of the node *)
(* in between.                                                             *)
(*                                                                         *)
(* A deposit is the block of its log, an account how often it was credited *)
(* each deposit of its user. Of the validation and application, the        *)
(* subject of Pipeline, the two steps are left in which the batcher reads  *)
(* the account and writes it: for the deposits and for other transactions  *)
(* on the same accounts, which write back what they read.                  *)
(* How a batch is taken while accounts are added is the subject of         *)
(* Settlement: here an account is put as it is in the cache.               *)
(***************************************************************************)
EXTENDS EoListener, Sequences, Functions

CONSTANTS Deposits,   \* the stream of the bridge events
          Sends,      \* other transactions
          Users,
          UserOf      \* whose account a deposit or another transaction is applied to

Blocks == 1..MaxBlock
Txs == Blocks \union Sends

ASSUME DepositsIsAStream == Deposits \in Streams
ASSUME TransactionsHaveUsers == UserOf \in [Txs -> Users] /\ Blocks \intersect Sends = {}
ASSUME NoneIsNoAccount == None \notin [Blocks -> Nat]

VARIABLES logs,       \* mailbox of the EoServer actor: the logs of each cast
          futures,    \* handle_bridge_event futures in the pool of the engine
          new,        \* mailbox of the pending transactions actor
          bridgeIns,  \* bridge_in_transactions
          applying,   \* deposits with the validator or the batcher
          held,       \* held[t]: the account the batcher read for t and has not written
          credits,    \* account cache: how often each deposit was credited
          batch,      \* users whose account is in the parent of the batcher
          persisted,  \* persistence store: how often each deposit was credited
          doubtful,   \* history: deposits a restart may cast again
          resumed,    \* history: the height the filter started at after the last restart
          overlapped  \* history: deposits whose account another transaction held as well

transit == <<logs, futures, new, bridgeIns, applying>>
accounts == <<held, credits, batch, persisted, overlapped>>
restarts == <<doubtful, resumed>>
bridge == <<transit, accounts, restarts>>
bridgeVars == <<vars, bridge>>

NoCredits == [b \in Blocks |-> 0]

BridgeInit ==
    /\ Init
    /\ logs = <<>> /\ futures = {} /\ new = <<>>
    /\ bridgeIns = {} /\ applying = {}
    /\ held = [t \in Txs |-> None] /\ batch = {} /\ overlapped = {}
    /\ credits = NoCredits /\ persisted = NoCredits
    /\ doubtful = {} /\ resumed = 0

-----------------------------------------------------------------------------
\* EoServerWrapper::run casts the logs to the EoServer actor, whatever stream they are of.
CastLogs ==
    /\ ProcessLogs
    /\ logs' = IF reply.blocks = {} \/ reply.stream # Deposits THEN logs
               ELSE Append(logs, reply.blocks)
    /\ UNCHANGED <<futures, new, bridgeIns, applying, accounts, restarts>>

\* parse_bridge_log sorts the events by their ids.
ParseBridgeLog(events) ==
    CHOOSE f \in UNION {[1..n -> events] : n \in 0..MaxBlock} :
        Range(f) = events /\ \A i, j \in DOMAIN f : i < j => f[i] < f[j]

\* handle_log: the events go to the engine in one message. Without an engine the error is
\* logged.
HandleLog ==
    /\ up /\ logs # <<>>
    /\ logs' = Tail(logs)
    /\ \/ /\ futures' = futures \union {ParseBridgeLog(Head(logs))}
          /\ UNCHANGED faults
       \/ /\ faults < MaxFaults /\ faults' = faults + 1
          /\ UNCHANGED futures
    /\ UNCHANGED <<chain, memory, up, disk, history, crashes, new, bridgeIns, applying,
                   accounts, restarts>>

HandleLastBridgeEvent(f) ==
    /\ up /\ f \in futures
    /\ futures' = futures \ {f}
    /\ \/ new' = Append(new, f[Len(f)]) /\ UNCHANGED faults
       \/ /\ faults < MaxFaults /\ faults' = faults + 1
          /\ \E n \in 0..Len(f) - 1 : new' = new \o SubSeq(f, 1, n)
    /\ UNCHANGED <<chain, memory, up, disk, history, crashes, logs, bridgeIns, applying,
                   accounts, restarts>>
\* handle_bridge_event: one New per event. An error drops the events that are left.
HandleBridgeEvent(f) ==
    /\ up /\ f \in futures
    /\ futures' = futures \ {f}
    /\ \/ new' = new \o f /\ UNCHANGED faults
       \/ /\ faults < MaxFaults /\ faults' = faults + 1
          /\ \E n \in 0..Len(f) - 1 : new' = new \o SubSeq(f, 1, n)
    /\ UNCHANGED <<chain, memory, up, disk, history, crashes, logs, bridgeIns, applying,
                   accounts, restarts>>

\* PendingTransactionMessage::New: a deposit in the list is skipped.
NewBridgeIn ==
    /\ up /\ new # <<>>
    /\ new' = Tail(new)
    /\ applying' = IF Head(new) \in bridgeIns THEN applying ELSE applying \union {Head(new)}
    /\ bridgeIns' = bridgeIns \union {Head(new)}
    /\ UNCHANGED <<vars, logs, futures, accounts, restarts>>

Account(u, values) == [b \in Blocks |-> IF UserOf[b] = u THEN values[b] ELSE 0]
Rivals(t) == {r \in Txs \ {t} : held[r] # None /\ UserOf[r] = UserOf[t]}

\* add_transaction_to_account, up to the account: a read that is late finds none, and the
\* transaction is applied to a new account.
ReadAccount(t) ==
    /\ up /\ held[t] = None
    /\ t \in applying \union Sends
    /\ applying' = applying \ {t}
    /\ \/ /\ held' = [held EXCEPT ![t] = Account(UserOf[t], credits)]
          /\ UNCHANGED faults
       \/ /\ faults < MaxFaults /\ faults' = faults + 1
          /\ held' = [held EXCEPT ![t] = NoCredits]
    /\ overlapped' = IF Rivals(t) = {} THEN overlapped
                     ELSE overlapped \union (Blocks \intersect (Rivals(t) \union {t}))
    /\ UNCHANGED <<chain, memory, up, disk, history, crashes, logs, futures, new, bridgeIns,
                   credits, batch, persisted, restarts>>

\* The rest of it: apply_send_transaction on the account, then add_account_to_batch, which
\* writes the account over the one in the cache and over the one in the parent.
WriteAccount(t) ==
    /\ up /\ held[t] # None
    /\ held' = [held EXCEPT ![t] = None]
    /\ credits' = [b \in Blocks |->
           IF UserOf[b] # UserOf[t] THEN credits[b]
           ELSE held[t][b] + IF b = t THEN 1 ELSE 0]
    /\ batch' = batch \union {UserOf[t]}
    /\ UNCHANGED <<vars, transit, persisted, overlapped, restarts>>

\* handle_next_batch_request puts the accounts of the parent into the persistence store one
\* after the other. A put that fails is logged.
PutAccount(u) ==
    /\ up /\ u \in batch
    /\ batch' = batch \ {u}
    /\ \/ /\ persisted' = [b \in Blocks |-> IF UserOf[b] = u THEN credits[b] ELSE persisted[b]]
          /\ UNCHANGED faults
       \/ /\ faults < MaxFaults /\ faults' = faults + 1
          /\ UNCHANGED persisted
    /\ UNCHANGED <<chain, memory, up, disk, history, crashes, transit, held, credits,
                   overlapped, restarts>>

-----------------------------------------------------------------------------
\* Mailboxes, pools, the list of bridge-ins and the account cache are in memory.
NodeCrash ==
    /\ Crash
    /\ logs' = <<>> /\ futures' = {} /\ new' = <<>>
    /\ bridgeIns' = {} /\ applying' = {}
    /\ held' = [t \in Txs |-> None] /\ batch' = {} /\ overlapped' = {}
    /\ credits' = persisted
    /\ UNCHANGED <<persisted, restarts>>

NodeStart ==
    /\ SetupEoServer
    /\ doubtful' = doubtful \union {b \in Blocks :
                       b \notin Loaded.processed[Deposits] \/ b = Loaded.current[Deposits]}
    /\ resumed' = Loaded.current[Deposits]
    /\ UNCHANGED <<transit, accounts>>

Chain == (\E S \in SUBSET Streams : Mine(S)) /\ UNCHANGED bridge
Poll(s) == LogsOk(s) /\ UNCHANGED bridge
Save == SaveBlocksProcessed /\ UNCHANGED bridge
Fails == ((\E s \in Streams : LogsErr(s)) \/ Abandon) /\ UNCHANGED bridge
Deposit == \/ HandleLog \/ NewBridgeIn
           \/ \E f \in futures : HandleBridgeEvent(f)
Apply(t) == ReadAccount(t) \/ WriteAccount(t)

BridgeNext == \/ Chain \/ (\E s \in Streams : Poll(s)) \/ CastLogs \/ Save \/ Fails
              \/ Deposit \/ (\E t \in Txs : Apply(t)) \/ (\E u \in Users : PutAccount(u))
              \/ NodeCrash \/ NodeStart

\* As in EoListener; actors handle their mail, futures are polled, batches are requested.
BridgeFairness ==
    /\ \A s \in Streams : SF_bridgeVars(Poll(s))
    /\ WF_bridgeVars(CastLogs) /\ WF_bridgeVars(Save)
    /\ WF_bridgeVars(Deposit)
    /\ \A b \in Blocks : WF_bridgeVars(Apply(b))
    /\ \A u \in Users : WF_bridgeVars(PutAccount(u))

BridgeSpec == BridgeInit /\ [][BridgeNext]_bridgeVars /\ BridgeFairness

-----------------------------------------------------------------------------
\* A deposit is credited only if the contract logged it, and a second time only if a
\* restart may cast it again: its block is not in the file, or it is the one block the
\* file names as current. The list of bridge-ins does not outlive the node.
DepositsAreReal ==
    \A b \in Blocks : /\ credits[b] > 0 => b \in event[Deposits]
                      /\ credits[b] > 1 => b \in doubtful

\* A restart skips a block with a deposit only if the block is below the height the filter
\* starts at again, which the file gives: everything from there on is asked for.
SkippedOnlyBelowRestart ==
    up => \A b \in event[Deposits] :
             (\E c \in processed[Deposits] : b <= c) => b \in processed[Deposits] \/ b < resumed

\* Every deposit is credited and persisted, unless the node crashes, an actor, a put or the
\* web3 node fails, or another transaction held the account in the batcher while the deposit
\* was applied: however the logs are spread over the replies, and whatever is applied to the
\* account before and after.
EveryDepositPersisted ==
    \A b \in Blocks :
        b \in event[Deposits] ~> \/ persisted[b] > 0 \/ crashes > 0 \/ faults > 0
                                 \/ b \in overlapped

\* The file may name a deposit that is not in its account and not on its way to it, but only
\* if the node crashed, an actor failed while the deposit was on its way, or the account was
\* read for another transaction (a deposit of the same user, a send) between the read and
\* the write of the batcher, or the deposit was applied between those of the other.
SavedIsCredited ==
    \A b \in Blocks :
        /\ file # None /\ b \in file.processed[Deposits]
        /\ crashes = 0 /\ faults = 0 /\ b \notin overlapped
        => \/ credits[b] = 1 \/ held[b] # None
           \/ b \in applying \union Range(new) \union UNION Range(logs)
           \/ \E f \in futures : b \in Range(f)
=============================================================================
