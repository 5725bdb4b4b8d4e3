------------------------------ MODULE Settlement ------------------------------
(***************************************************************************)
(* How updated accounts leave the node: the batcher actor persists and     *)
(* disperses the parent batch (crates/actors/src/batcher.rs), the DA       *)
(* client waits for the blob to be confirmed (da_client.rs), the EO client *)
(* settles it on the contract (eo_client.rs). A batcher that fails dies    *)
(* and is respawned (manager.rs); batch_requestor goes on asking the       *)
(* actor it looked up when the node started.                               *)
(*                                                                         *)
(* An account is its address and a version: the number of updates that     *)
(* went into it. A batch maps each account to a version, 0 when the        *)
(* account is not in it. A blob is the position of its dispersal.          *)
(***************************************************************************)
EXTENDS Naturals, Sequences, FiniteSets

CONSTANTS Accounts,
          Capacity,     \* accounts at which a batch is at_capacity
          MaxUpdates,   \* bound: updates of all accounts
          MaxBlobs,     \* bound: dispersals
          MaxFaults,    \* bound: faults
          Faults,       \* the faults that may happen
          None

ASSUME SettlementConstants == /\ Capacity \in Nat
                              /\ MaxUpdates \in Nat
                              /\ MaxBlobs \in Nat
                              /\ MaxFaults \in Nat
                              /\ None \notin [Accounts -> Nat]

VARIABLES version,    \* latest version of each account, as written to the account cache
          waiting,    \* futures in add_account_to_batch that wait for the lock, in order
          parent,     \* Batcher.parent
          cache,      \* Batcher.cache: request id to batch
          handler,    \* what the batcher actor is doing for GetNextBatch
          up,         \* the batcher actor is registered and runs
          reachable,  \* the reference batch_requestor holds is the running actor
          requested,  \* GetNextBatch waits in the mailbox
          proofs,     \* BlobVerificationProof messages in the mailbox
          pool,       \* handle_blob_verification_proof futures in the pool
          spinning,   \* a pooled future loops for ever, holding the lock of the batcher
          stored,     \* the persistence store
          unput,      \* history: accounts whose last put failed
          blobs,      \* the blobs DA holds, in the order of their dispersal
          polling,    \* request ids poll_blob_status asks for
          call,       \* the settlement of each blob by the EO client
          pending,    \* EoClient.pending
          orphans,    \* settlement transactions nobody waits for any more
          index,      \* the contract: blob of each account, 0 when there is none
          faults

actor == <<handler, up, reachable, requested, proofs>>
batcher == <<waiting, parent, cache, spinning>>
eo == <<call, pending, orphans, index>>
vars == <<version, batcher, actor, pool, stored, unput, blobs, polling, eo, faults>>

Batch == [Accounts -> Nat]
NewBatch == [a \in Accounts |-> 0]
In(batch) == {a \in Accounts : batch[a] # 0}
Blobs == 1..MaxBlobs

Idle == [at |-> "idle", todo |-> {}, batch |-> NewBatch, blob |-> 0]

\* handle_next_batch_request holds the lock of the batcher while it persists and stores.
\* Here and below a variant with a mistake comes before a definition: the properties
\* of this module rule the mistakes out.
LockedToStore == spinning \/ handler.at = "store"
LockedToPersist == spinning \/ handler.at = "put"
Locked == spinning \/ handler.at \in {"put", "store"}

\* A fault loses a settlement unless the code tries again or goes on without.
Fault(kind) ==
    /\ kind \in Faults
    /\ faults.count < MaxFaults
    /\ faults' = [count |-> faults.count + 1,
                  loses |-> faults.loses \/ kind \notin {"put", "timeout"}]

Init ==
    /\ version = [a \in Accounts |-> 0]
    /\ waiting = <<>>
    /\ parent = NewBatch
    /\ cache = [b \in Blobs |-> None]
    /\ handler = Idle
    /\ up = TRUE
    /\ reachable = TRUE
    /\ requested = FALSE
    /\ proofs = {}
    /\ pool = {}
    /\ spinning = FALSE
    /\ stored = NewBatch
    /\ unput = {}
    /\ blobs = <<>>
    /\ polling = {}
    /\ call = [b \in Blobs |-> "none"]
    /\ pending = {}
    /\ orphans = [b \in Blobs |-> 0]
    /\ index = [a \in Accounts |-> 0]
    /\ faults = [count |-> 0, loses |-> FALSE]

(***************************************************************************)
(* Pooled futures of the batcher write updated accounts to the account     *)
(* cache, then wait for the lock, which is given in the order it is asked  *)
(* for, and put the account into the parent. At capacity, with no child    *)
(* batch to take the account, the loop has no way out.                     *)
(***************************************************************************)
Updates == LET add[S \in SUBSET Accounts] ==
                 IF S = {} THEN 0
                 ELSE LET a == CHOOSE a \in S : TRUE IN version[a] + add[S \ {a}]
           IN  add[Accounts]

AtCapacity(batch) == Cardinality(In(batch)) >= Capacity

CacheAccount(a) ==
    /\ Updates < MaxUpdates
    /\ version' = [version EXCEPT ![a] = @ + 1]
    /\ waiting' = Append(waiting, [account |-> a, version |-> version[a] + 1])
    /\ UNCHANGED <<parent, cache, spinning, actor, pool, stored, unput, blobs, polling, eo, faults>>

AddAccountToBatch ==
    /\ ~Locked
    /\ waiting # <<>>
    /\ LET batch == [parent EXCEPT ![Head(waiting).account] = Head(waiting).version]
       IN  IF AtCapacity(batch)
           THEN spinning' = TRUE /\ UNCHANGED <<parent, waiting>>
           ELSE parent' = batch /\ waiting' = Tail(waiting) /\ UNCHANGED spinning
    /\ UNCHANGED <<version, cache, actor, pool, stored, unput, blobs, polling, eo, faults>>

(***************************************************************************)
(* batch_requestor and handle_next_batch_request.                          *)
(***************************************************************************)
BatchRequestor ==
    /\ up /\ reachable
    /\ ~requested
    /\ requested' = TRUE
    /\ UNCHANGED <<version, batcher, handler, up, reachable, proofs, pool, stored, unput, blobs,
                   polling, eo, faults>>

GetNextBatch ==
    /\ up /\ requested /\ handler = Idle /\ ~Locked
    /\ requested' = FALSE
    /\ handler' = IF In(parent) = {} THEN Idle
                  ELSE [Idle EXCEPT !.at = "put", !.todo = In(parent)]
    /\ UNCHANGED <<version, batcher, up, reachable, proofs, pool, stored, unput, blobs,
                   polling, eo, faults>>

\* a failed put is logged
PutAccount(a) ==
    /\ handler.at = "put"
    /\ a \in handler.todo
    /\ handler' = [handler EXCEPT !.todo = @ \ {a}]
    /\ \/ /\ stored' = [stored EXCEPT ![a] = parent[a]]
          /\ unput' = unput \ {a}
          /\ UNCHANGED faults
       \/ /\ Fault("put")
          /\ unput' = unput \cup {a}
          /\ UNCHANGED stored
    /\ UNCHANGED <<version, batcher, up, reachable, requested, proofs, pool, blobs, polling, eo>>

StoreBatchFirst ==
    /\ handler.at = "put"
    /\ Len(blobs) < MaxBlobs
    /\ handler' = [handler EXCEPT !.at = "store", !.batch = parent]
    /\ UNCHANGED <<version, batcher, up, reachable, requested, proofs, pool, stored, unput,
                   blobs, polling, eo, faults>>

StoreBatch ==
    /\ handler.at = "put"
    /\ handler.todo = {}
    /\ Len(blobs) < MaxBlobs
    /\ handler' = [handler EXCEPT !.at = "store", !.batch = parent]
    /\ UNCHANGED <<version, batcher, up, reachable, requested, proofs, pool, stored, unput,
                   blobs, polling, eo, faults>>

\* the blob response arrives: cache the parent, start a new one, release the lock
StoreOk ==
    /\ handler.at = "store"
    /\ blobs' = Append(blobs, handler.batch)
    /\ cache' = [cache EXCEPT ![Len(blobs) + 1] = parent]
    /\ parent' = NewBatch
    /\ handler' = [Idle EXCEPT !.at = "validate", !.blob = Len(blobs) + 1]
    /\ UNCHANGED <<version, waiting, spinning, up, reachable, requested, proofs, pool, stored,
                   unput, polling, eo, faults>>

\* the DA client fails, or its response takes more than 15 s: the error ends the actor
\* and its mailbox, the parent stays
StoreErr ==
    /\ handler.at = "store"
    /\ Fault("store")
    /\ \/ blobs' = Append(blobs, handler.batch)
       \/ blobs' = blobs
    /\ up' = FALSE
    /\ handler' = Idle
    /\ requested' = FALSE
    /\ proofs' = {}
    /\ UNCHANGED <<version, batcher, reachable, pool, stored, unput, polling, eo>>

\* ActorManager::respawn_batcher: a new actor under the same name, on the same Batcher
RespawnBatcher ==
    /\ ~up
    /\ up' = TRUE
    /\ reachable' = FALSE
    /\ UNCHANGED <<version, batcher, handler, requested, proofs, pool, stored, unput, blobs,
                   polling, eo, faults>>

RequestBlobValidation ==
    /\ handler.at = "validate"
    /\ ~spinning
    /\ polling' = polling \cup {handler.blob}
    /\ handler' = Idle
    /\ UNCHANGED <<version, batcher, up, reachable, requested, proofs, pool, stored, unput,
                   blobs, eo, faults>>

(***************************************************************************)
(* poll_blob_status and run_receivers: the proof goes to the batcher that  *)
(* is registered, if any; a status that cannot be read ends the poll.      *)
(***************************************************************************)
BlobConfirmed(b) ==
    /\ b \in polling
    /\ polling' = polling \ {b}
    /\ proofs' = IF up THEN proofs \cup {b} ELSE proofs
    /\ UNCHANGED <<version, batcher, handler, up, reachable, requested, pool, stored, unput,
                   blobs, eo, faults>>

PollErr(b) ==
    /\ b \in polling
    /\ Fault("poll")
    /\ polling' = polling \ {b}
    /\ UNCHANGED <<version, batcher, actor, pool, stored, unput, blobs, eo>>

HandleProof(b) ==
    /\ up /\ handler = Idle
    /\ b \in proofs
    /\ proofs' = proofs \ {b}
    /\ pool' = pool \cup {b}
    /\ UNCHANGED <<version, batcher, handler, up, reachable, requested, stored, unput, blobs,
                   polling, eo, faults>>

\* handle_blob_verification_proof: a request id that is not in the cache is an error
SettleCast(b) ==
    /\ b \in pool
    /\ ~Locked
    /\ pool' = pool \ {b}
    /\ call' = [call EXCEPT ![b] = IF cache[b] # None THEN "cast" ELSE @]
    /\ UNCHANGED <<version, batcher, actor, stored, unput, blobs, polling, pending, orphans,
                   index, faults>>

(***************************************************************************)
(* The EO client: settle spawns a task per blob, which casts its outcome   *)
(* back to the actor.                                                      *)
(***************************************************************************)
Settle(b) ==
    /\ call[b] = "cast"
    /\ ~spinning
    /\ call' = [call EXCEPT ![b] = "calling"]
    /\ pending' = pending \cup {b}
    /\ UNCHANGED <<version, batcher, actor, pool, stored, unput, blobs, polling, orphans, index,
                   faults>>

SignedCall(b) ==
    /\ call[b] = "calling"
    /\ \/ /\ call' = [call EXCEPT ![b] = "sent"]
          /\ UNCHANGED faults
       \/ /\ Fault("call")
          /\ call' = [call EXCEPT ![b] = "failed"]
    /\ UNCHANGED <<version, batcher, actor, pool, stored, unput, blobs, polling, pending,
                   orphans, index>>

\* SettleTimedOut casts Settle again; the first transaction may have been sent
SettleGivesUp(b) ==
    /\ call[b] = "calling"
    /\ Fault("timeout")
    /\ call' = [call EXCEPT ![b] = "failed"]
    /\ UNCHANGED <<version, batcher, actor, pool, stored, unput, blobs, polling, pending,
                   orphans, index>>

SettleTimedOut(b) ==
    /\ call[b] = "calling"
    /\ Fault("timeout")
    /\ call' = [call EXCEPT ![b] = "cast"]
    /\ \/ orphans' = [orphans EXCEPT ![b] = @ + 1]
       \/ UNCHANGED orphans
    /\ UNCHANGED <<version, batcher, actor, pool, stored, unput, blobs, polling, pending, index>>

\* the contract sets the blob of every account of the batch
SettleNextIndex(b) ==
    index' = [a \in Accounts |-> IF a \in In(cache[b]) THEN b + 1 ELSE index[a]]

SettleBlobIndex(b) ==
    index' = [a \in Accounts |-> IF a \in In(cache[b]) THEN b ELSE index[a]]

Mined(b) ==
    /\ \/ /\ call[b] = "sent"
          /\ call' = [call EXCEPT ![b] = "mined"]
          /\ UNCHANGED orphans
       \/ /\ orphans[b] > 0
          /\ orphans' = [orphans EXCEPT ![b] = @ - 1]
          /\ UNCHANGED call
    /\ SettleBlobIndex(b)
    /\ UNCHANGED <<version, batcher, actor, pool, stored, unput, blobs, polling, pending, faults>>

\* a reverted transaction: SettleFailure is logged, the entry stays in pending
Reverted(b) ==
    /\ call[b] = "sent"
    /\ Fault("revert")
    /\ call' = [call EXCEPT ![b] = "failed"]
    /\ UNCHANGED <<version, batcher, actor, pool, stored, unput, blobs, polling, pending,
                   orphans, index>>

SettleSuccess(b) ==
    /\ call[b] = "mined"
    /\ ~spinning
    /\ call' = [call EXCEPT ![b] = "settled"]
    /\ pending' = pending \ {b}
    /\ UNCHANGED <<version, batcher, actor, pool, stored, unput, blobs, polling, orphans, index,
                   faults>>

-----------------------------------------------------------------------------
Batching == \/ BatchRequestor
            \/ GetNextBatch
            \/ \E a \in Accounts : PutAccount(a)
            \/ StoreBatch
            \/ StoreOk
            \/ StoreErr
            \/ RespawnBatcher
            \/ RequestBlobValidation

Settling(b) == \/ BlobConfirmed(b) \/ PollErr(b) \/ HandleProof(b) \/ SettleCast(b)
               \/ Settle(b) \/ SignedCall(b) \/ SettleTimedOut(b)
               \/ Mined(b) \/ Reverted(b) \/ SettleSuccess(b)

Next == \/ \E a \in Accounts : CacheAccount(a)
        \/ AddAccountToBatch
        \/ Batching
        \/ \E b \in Blobs : Settling(b)

\* Every task is polled, DA confirms blobs and the chain mines transactions. Mailboxes
\* and the lock are first-in first-out: a proof among requests gets its turn.
Fairness ==
    /\ SF_vars(AddAccountToBatch)
    /\ WF_vars(BatchRequestor)
    /\ WF_vars(GetNextBatch)
    /\ \A a \in Accounts : WF_vars(PutAccount(a))
    /\ WF_vars(StoreBatch) /\ WF_vars(StoreOk)
    /\ WF_vars(RespawnBatcher)
    /\ WF_vars(RequestBlobValidation)
    /\ \A b \in Blobs : /\ WF_vars(BlobConfirmed(b))
                        /\ SF_vars(HandleProof(b))
                        /\ SF_vars(SettleCast(b))
                        /\ WF_vars(Settle(b))
                        /\ WF_vars(SignedCall(b))
                        /\ WF_vars(Mined(b))
                        /\ WF_vars(SettleSuccess(b))

Spec == Init /\ [][Next]_vars
FairSpec == Spec /\ Fairness

-----------------------------------------------------------------------------
(***************************************************************************)
(* Properties.                                                             *)
(***************************************************************************)

\* The variables keep the types of Batch, Batcher and EoClient.
TypeOK ==
    /\ version \in Batch /\ parent \in Batch /\ stored \in Batch
    /\ waiting \in Seq([account: Accounts, version: Nat])
    /\ cache \in [Blobs -> Batch \cup {None}]
    /\ handler \in [at: {"idle", "put", "store", "validate"}, todo: SUBSET Accounts,
                    batch: Batch, blob: 0..MaxBlobs]
    /\ up \in BOOLEAN /\ reachable \in BOOLEAN /\ requested \in BOOLEAN
    /\ spinning \in BOOLEAN
    /\ proofs \in SUBSET Blobs /\ pool \in SUBSET Blobs /\ polling \in SUBSET Blobs
    /\ pending \in SUBSET Blobs
    /\ unput \in SUBSET Accounts
    /\ blobs \in Seq(Batch)
    /\ Len(blobs) <= MaxBlobs
    /\ call \in [Blobs -> {"none", "cast", "calling", "sent", "mined", "failed", "settled"}]
    /\ orphans \in [Blobs -> Nat]
    /\ index \in [Accounts -> 0..MaxBlobs]
    /\ faults \in [count: 0..MaxFaults, loses: BOOLEAN]

\* An update written to the account cache is in the persistence store, in the parent or
\* with a future that waits for the lock, unless its put failed: the lock is held from
\* the first put to the replacement of the parent, and the parent survives the actor.
NoUpdateLost ==
    \A a \in Accounts :
        \/ version[a] \in {stored[a], parent[a]}
        \/ \E i \in DOMAIN waiting : waiting[i] = [account |-> a, version |-> version[a]]
        \/ a \in unput

\* The accounts the batcher will settle for a blob are the ones in that blob.
CacheIsBlob ==
    \A b \in Blobs : cache[b] # None => b <= Len(blobs) /\ cache[b] = blobs[b]

\* The blob the contract names for an account holds that account, and the persistence
\* store is not behind it unless a put failed: the node can answer from either.
IndexIsRetrievable ==
    \A a \in Accounts : index[a] # 0 =>
        /\ index[a] <= Len(blobs)
        /\ blobs[index[a]][a] # 0
        /\ a \in unput \/ blobs[index[a]][a] <= stored[a]

\* Every update reaches the contract, also when settlements time out and are sent again
\* and when puts fail: the settlement of a blob with that version or a later one succeeds,
\* unless a dispersal, a poll, a call or a transaction fails.
EveryUpdateSettles ==
    \A a \in Accounts : \A n \in 1..MaxUpdates :
        version[a] = n ~>
            \/ faults.loses
            \/ \E b \in 1..Len(blobs) : blobs[b][a] >= n /\ call[b] = "settled"

\* A batch that is not empty is taken over by the DA in the end.
BatchesAreTaken == \A a \in Accounts : parent[a] # 0 ~> parent[a] = 0
=============================================================================
