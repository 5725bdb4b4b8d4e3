--------------------------- MODULE SettlementProofs ---------------------------
(* Proofs about Settlement, for every set of accounts, every set of faults and *)
(* every bound.                                                                *)
EXTENDS Settlement, SequenceTheorems, TLAPS

USE ZenonT(2), SMTT(60), ZenonT(60)

\* The current version of an account waits for the lock of the batcher.
Awaits(a) ==
    \E i \in 1..Len(waiting) : waiting[i].account = a /\ waiting[i].version = version[a]

\* NoUpdateLost, with the fields of a future instead of the whole of it.
Kept ==
    \A a \in Accounts : version[a] \in {stored[a], parent[a]} \/ Awaits(a) \/ a \in unput

\* Nothing that is dispersed, persisted or in the parent is newer than v.
Behind(a, v) ==
    /\ stored[a] <= v
    /\ parent[a] <= v
    /\ \A b \in 1..Len(blobs) : blobs[b][a] <= v

\* The futures that wait for the lock hold versions in the order they were written, and
\* the last of an account holds its current version.
Queue ==
    /\ \A i \in 1..Len(waiting), a \in Accounts, v \in Nat :
          waiting[i].account = a /\ waiting[i].version = v =>
             /\ Behind(a, v)
             /\ v <= version[a]
             /\ \E j \in i..Len(waiting) :
                   waiting[j].account = a /\ waiting[j].version = version[a]
    /\ \A i, j \in 1..Len(waiting) :
          i < j /\ waiting[i].account = waiting[j].account
             => waiting[i].version <= waiting[j].version

\* The parent holds nothing older than what was dispersed or persisted.
Newest ==
    \A a \in Accounts :
        /\ Behind(a, version[a])
        /\ parent[a] # 0 => Behind(a, parent[a]) /\ (parent[a] = version[a] \/ Awaits(a))

\* While handle_next_batch_request holds the lock, the accounts it has gone through are
\* persisted, and what it disperses is the parent.
Holding ==
    /\ handler.at = "put" => handler.todo \subseteq In(parent)
    /\ handler.at = "store" => /\ handler.todo = {}
                               /\ handler.batch = parent
                               /\ Len(blobs) < MaxBlobs
    /\ handler.at \in {"put", "store"} =>
          \A a \in In(parent) \ handler.todo : stored[a] = parent[a] \/ a \in unput

\* What was dispersed is persisted unless a put failed; only blobs in the cache of the
\* batcher are settled.
Dispersed ==
    /\ \A b \in 1..Len(blobs) : \A a \in Accounts : blobs[b][a] <= stored[a] \/ a \in unput
    /\ \A b \in Blobs : cache[b] = None => call[b] = "none" /\ orphans[b] = 0
    /\ \A a \in Accounts : index[a] # 0 => index[a] <= Len(blobs) /\ blobs[index[a]][a] # 0

IInv == Kept /\ CacheIsBlob /\ Queue /\ Newest /\ Holding /\ Dispersed
-----------------------------------------------------------------------------
\* The sets TypeOK names.
Handlers == [at: {"idle", "put", "store", "validate"}, todo: SUBSET Accounts,
             batch: Batch, blob: 0..MaxBlobs]
Waiting == Seq([account: Accounts, version: Nat])
Caches == [Blobs -> Batch \cup {None}]
Calls == [Blobs -> {"none", "cast", "calling", "sent", "mined", "failed", "settled"}]
Tallies == [count: 0..MaxFaults, loses: BOOLEAN]
Dispersals == {s \in Seq(Batch) : Len(s) <= MaxBlobs}

\* The types and what they rest on: a batch is dispersed only while there is room, and
\* the blob a request is made for is one that was dispersed.
Typed ==
    /\ version \in Batch /\ parent \in Batch /\ stored \in Batch
    /\ waiting \in Waiting /\ cache \in Caches /\ handler \in Handlers
    /\ up \in BOOLEAN /\ reachable \in BOOLEAN /\ requested \in BOOLEAN
    /\ spinning \in BOOLEAN
    /\ proofs \subseteq Blobs /\ pool \subseteq Blobs /\ polling \subseteq Blobs
    /\ pending \subseteq Blobs /\ unput \subseteq Accounts
    /\ blobs \in Dispersals /\ call \in Calls
    /\ orphans \in [Blobs -> Nat] /\ index \in [Accounts -> 0..MaxBlobs]
    /\ faults \in Tallies
    /\ handler.at = "store" => Len(blobs) < MaxBlobs
    /\ handler.at = "validate" => handler.blob \in Blobs

\* The types of the invariant are those that are checked.
LEMMA TypedIsTypeOK == Typed => TypeOK
BY DEF Typed, TypeOK, Handlers, Waiting, Caches, Calls, Tallies, Dispersals

\* A new batch is a batch.
LEMMA NewBatchType == NewBatch \in Batch
BY DEF NewBatch, Batch

\* A handler that does nothing is a handler.
LEMMA IdleType == Idle \in Handlers /\ Idle.at = "idle"
BY NewBatchType, SettlementConstants DEF Idle, Handlers

\* A fault is counted within its bound.
LEMMA FaultType == ASSUME NEW kind, Fault(kind), faults \in Tallies PROVE faults' \in Tallies
BY SettlementConstants, SMTT(60) DEF Fault, Tallies

\* The types at the start.
LEMMA InitTyped == Init => Typed
<1> SUFFICES ASSUME Init PROVE Typed
  OBVIOUS
<1>1. version \in Batch /\ parent \in Batch /\ stored \in Batch
  BY NewBatchType DEF Init, Batch
<1>2. waiting \in Waiting /\ blobs \in Dispersals
  BY SettlementConstants DEF Init, Waiting, Dispersals
<1>3. cache \in Caches /\ call \in Calls /\ orphans \in [Blobs -> Nat]
  BY DEF Init, Caches, Calls
<1>4. index \in [Accounts -> 0..MaxBlobs] /\ faults \in Tallies
  BY SettlementConstants DEF Init, Tallies
<1>5. QED
  BY <1>1, <1>2, <1>3, <1>4, IdleType, Zenon DEF Init, Typed

\* The steps of the settlement of one blob keep the types.
LEMMA SettlingTyped == ASSUME Typed, NEW b \in Blobs, Settling(b) PROVE Typed'
<1>1. CASE BlobConfirmed(b) \/ HandleProof(b)
  BY <1>1, ZenonT(60) DEF BlobConfirmed, HandleProof, batcher, eo, Typed
<1>2. CASE PollErr(b)
  <2>1. faults' \in Tallies
    BY <1>2, FaultType DEF PollErr, Typed
  <2>2. QED
    BY <1>2, <2>1 DEF PollErr, batcher, actor, eo, Typed
<1>3. CASE SettleCast(b) \/ Settle(b) \/ SettleSuccess(b)
  <2>1. call' \in Calls
    <3>1. call \in Calls
      BY DEF Typed
    <3>2. QED
      BY <1>3, <3>1 DEF SettleCast, Settle, SettleSuccess, Calls
  <2>2. QED
    BY <1>3, <2>1, ZenonT(60) DEF SettleCast, Settle, SettleSuccess, batcher, actor, Typed
<1>4. CASE SignedCall(b) \/ Reverted(b)
  <2>1. call' \in Calls
    <3>1. call \in Calls
      BY DEF Typed
    <3>2. QED
      BY <1>4, <3>1 DEF SignedCall, Reverted, Calls
  <2>2. faults' \in Tallies
    BY <1>4, FaultType DEF SignedCall, Reverted, Typed
  <2>3. QED
    BY <1>4, <2>1, <2>2, ZenonT(60) DEF SignedCall, Reverted, batcher, actor, Typed
<1>5. CASE SettleTimedOut(b)
  <2>1. call' \in Calls
    <3>1. call \in Calls
      BY DEF Typed
    <3>2. QED
      BY <1>5, <3>1 DEF SettleTimedOut, Calls
  <2>2. faults' \in Tallies
    BY <1>5, FaultType DEF SettleTimedOut, Typed
  <2>3. orphans' \in [Blobs -> Nat]
    <3>1. orphans \in [Blobs -> Nat]
      BY DEF Typed
    <3>2. QED
      BY <1>5, <3>1, SMTT(60) DEF SettleTimedOut
  <2>4. QED
    BY <1>5, <2>1, <2>2, <2>3 DEF SettleTimedOut, batcher, actor, Typed
<1>6. CASE Mined(b)
  <2>1. call' \in Calls /\ orphans' \in [Blobs -> Nat]
    <3>1. call \in Calls /\ orphans \in [Blobs -> Nat]
      BY DEF Typed
    <3>2. QED
      BY <1>6, <3>1, SMTT(60) DEF Mined, Calls
  <2>2. index' \in [Accounts -> 0..MaxBlobs]
    <3>1. index \in [Accounts -> 0..MaxBlobs]
      BY DEF Typed
    <3>2. QED
      BY <1>6, <3>1, SettlementConstants, SMTT(60) DEF Mined, SettleBlobIndex, Blobs
  <2>3. QED
    BY <1>6, <2>1, <2>2 DEF Mined, batcher, actor, Typed
<1>7. QED
  BY <1>1, <1>2, <1>3, <1>4, <1>5, <1>6 DEF Settling

\* No step leaves the types.
LEMMA TypedStep == Typed /\ [Next]_vars => Typed'
<1> SUFFICES ASSUME Typed, [Next]_vars PROVE Typed'
  OBVIOUS
<1>1. ASSUME NEW a \in Accounts, CacheAccount(a) PROVE Typed'
  <2>1. version \in Batch /\ waiting \in Waiting
    BY DEF Typed
  <2>2. version' \in Batch
    BY <1>1, <2>1, SMTT(60) DEF CacheAccount, Batch
  <2>3. [account |-> a, version |-> version[a] + 1] \in [account: Accounts, version: Nat]
    BY <2>1, SMTT(60) DEF Batch
  <2>4. waiting' \in Waiting
    BY <1>1, <2>1, <2>3 DEF CacheAccount, Waiting
  <2>5. QED
    BY <1>1, <2>2, <2>4 DEF CacheAccount, actor, eo, Typed
<1>2. ASSUME AddAccountToBatch PROVE Typed'
  <2>1. parent \in Batch /\ waiting \in Waiting /\ spinning \in BOOLEAN
    BY DEF Typed
  <2>2. Head(waiting) \in [account: Accounts, version: Nat] /\ Tail(waiting) \in Waiting
    <3>1. waiting # <<>>
      BY <1>2 DEF AddAccountToBatch
    <3>2. QED
      BY <2>1, <3>1, HeadTailProperties, Zenon DEF Waiting
  <2>3. parent' \in Batch /\ waiting' \in Waiting /\ spinning' \in BOOLEAN
    BY <1>2, <2>1, <2>2, Zenon DEF AddAccountToBatch, Batch
  <2>4. QED
    BY <1>2, <2>3 DEF AddAccountToBatch, actor, eo, Typed
<1>3. ASSUME BatchRequestor PROVE Typed'
  BY <1>3 DEF BatchRequestor, batcher, eo, Typed
<1>4. ASSUME GetNextBatch PROVE Typed'
  <2>1. handler' \in Handlers /\ handler'.at \in {"idle", "put"}
    BY <1>4, IdleType, Zenon DEF GetNextBatch, Handlers, In
  <2>2. QED
    BY <1>4, <2>1, Zenon DEF GetNextBatch, batcher, eo, Typed
<1>5. ASSUME NEW a \in Accounts, PutAccount(a) PROVE Typed'
  <2>1. stored \in Batch /\ parent \in Batch /\ unput \subseteq Accounts /\ handler \in Handlers
    BY DEF Typed
  <2>2. stored' \in Batch /\ unput' \subseteq Accounts
    BY <1>5, <2>1 DEF PutAccount, Batch
  <2>3. handler' \in Handlers /\ handler'.at = "put"
    BY <1>5, <2>1 DEF PutAccount, Handlers
  <2>4. faults' \in Tallies
    BY <1>5, FaultType DEF PutAccount, Typed
  <2>5. QED
    BY <1>5, <2>2, <2>3, <2>4 DEF PutAccount, batcher, eo, Typed
<1>6. ASSUME StoreBatch PROVE Typed'
  <2>1. handler \in Handlers /\ parent \in Batch
    BY DEF Typed
  <2>2. handler' \in Handlers /\ handler'.at = "store"
    BY <1>6, <2>1, Zenon DEF StoreBatch, Handlers
  <2>3. QED
    BY <1>6, <2>2 DEF StoreBatch, batcher, eo, Typed
<1>7. ASSUME StoreOk PROVE Typed'
  <2>1. /\ blobs \in Dispersals /\ handler \in Handlers /\ parent \in Batch
        /\ cache \in Caches /\ Len(blobs) < MaxBlobs
    BY <1>7 DEF StoreOk, Typed
  <2>2. handler.batch \in Batch
    BY <2>1 DEF Handlers
  <2>3. blobs' \in Dispersals /\ Len(blobs) + 1 \in Blobs
    BY <1>7, <2>1, <2>2, SettlementConstants DEF StoreOk, Dispersals, Blobs
  <2>4. cache' \in Caches
    BY <1>7, <2>1, Zenon DEF StoreOk, Caches
  <2>5. handler' \in Handlers /\ handler'.at = "validate" /\ handler'.blob = Len(blobs) + 1
    <3>1. handler' = [Idle EXCEPT !.at = "validate", !.blob = Len(blobs) + 1]
      BY <1>7 DEF StoreOk
    <3>2. Len(blobs) + 1 \in 0..MaxBlobs
      BY <2>1, <2>3, SettlementConstants DEF Blobs, Dispersals
    <3>3. Idle \in Handlers
      BY IdleType
    <3> HIDE DEF Idle
    <3>4. QED
      BY <3>1, <3>2, <3>3, Zenon DEF Handlers
  <2>6. QED
    BY <1>7, <2>3, <2>4, <2>5, NewBatchType DEF StoreOk, eo, Typed
<1>8. ASSUME StoreErr PROVE Typed'
  <2>1. blobs \in Dispersals /\ handler \in Handlers /\ Len(blobs) < MaxBlobs
    BY <1>8 DEF StoreErr, Typed
  <2>2. handler.batch \in Batch
    BY <2>1 DEF Handlers
  <2>3. blobs' \in Dispersals
    BY <1>8, <2>1, <2>2, SettlementConstants DEF StoreErr, Dispersals
  <2>4. faults' \in Tallies
    BY <1>8, FaultType DEF StoreErr, Typed
  <2>5. QED
    BY <1>8, <2>3, <2>4, IdleType, Zenon DEF StoreErr, batcher, eo, Typed
<1>9. ASSUME RespawnBatcher PROVE Typed'
  BY <1>9, Zenon DEF RespawnBatcher, batcher, eo, Typed
<1>10. ASSUME RequestBlobValidation PROVE Typed'
  BY <1>10, IdleType DEF RequestBlobValidation, batcher, eo, Typed
<1>11. ASSUME UNCHANGED vars PROVE Typed'
  BY <1>11 DEF vars, batcher, actor, eo, Typed
<1>12. QED
  BY <1>1, <1>2, <1>3, <1>4, <1>5, <1>6, <1>7, <1>8, <1>9, <1>10, <1>11, SettlingTyped
     DEF Next, Batching

\* Batch, Batcher, EoClient and the contract keep their types, and no more blobs are
\* dispersed than there is room for, whatever fails.
THEOREM SettlementTypeOK == Spec => []TypeOK
BY InitTyped, TypedStep, TypedIsTypeOK, PTL DEF Spec
-----------------------------------------------------------------------------
\* The invariant at the start.
LEMMA InitIInv == Init => IInv
<1> SUFFICES ASSUME Init PROVE IInv
  OBVIOUS
<1>1. /\ \A a \in Accounts : version[a] = 0 /\ parent[a] = 0 /\ stored[a] = 0 /\ index[a] = 0
      /\ Len(waiting) = 0 /\ Len(blobs) = 0
      /\ \A b \in Blobs : cache[b] = None /\ call[b] = "none" /\ orphans[b] = 0
      /\ handler.at = "idle"
  BY IdleType DEF Init, NewBatch
<1>2. QED
  BY <1>1 DEF IInv, Kept, CacheIsBlob, Queue, Newest, Holding, Dispersed, Behind

\* The fields of the futures that wait, and of the one a new version adds.
LEMMA Fields ==
  ASSUME NEW s \in Waiting
  PROVE  /\ Len(s) \in Nat
         /\ \A i \in 1..Len(s) : /\ s[i].account \in Accounts
                                 /\ s[i].version \in Nat
                                 /\ s[i] = [account |-> s[i].account, version |-> s[i].version]
<1> DEFINE W == [account: Accounts, version: Nat]
<1>1. s \in Seq(W)
  BY DEF Waiting
<1>2. Len(s) \in Nat /\ \A i \in 1..Len(s) : s[i] \in W
  <2> HIDE DEF W
  <2>1. QED
    BY <1>1, ElementOfSeq, LenProperties
<1>3. \A x \in W : x.account \in Accounts /\ x.version \in Nat
                   /\ x = [account |-> x.account, version |-> x.version]
  OBVIOUS
<1> HIDE DEF W
<1>4. QED
  BY <1>2, <1>3

\* A version is kept as long as it is not persisted: no update is lost.
LEMMA KeptIsNoUpdateLost == ASSUME Typed, Kept PROVE NoUpdateLost
<1>1. waiting \in Waiting /\ DOMAIN waiting = 1..Len(waiting)
  BY DEF Typed, Waiting
<1>2. ASSUME NEW a \in Accounts, Awaits(a)
      PROVE  \E i \in DOMAIN waiting : waiting[i] = [account |-> a, version |-> version[a]]
  BY <1>1, <1>2, Fields DEF Awaits
<1>3. QED
  BY <1>2 DEF Kept, NoUpdateLost

\* The versions in the blobs are naturals.
LEMMA BlobFields ==
  ASSUME Typed
  PROVE  Len(blobs) \in Nat /\ \A b \in 1..Len(blobs) : \A a \in Accounts : blobs[b][a] \in Nat
<1>1. blobs \in Seq(Batch)
  BY DEF Typed, Dispersals
<1>2. Len(blobs) \in Nat /\ \A b \in 1..Len(blobs) : blobs[b] \in Batch
  BY <1>1, ElementOfSeq, LenProperties
<1>3. QED
  BY <1>2 DEF Batch

\* What is behind a version is behind a later one.
LEMMA BehindLater ==
  ASSUME Typed, NEW a \in Accounts, NEW v \in Nat, NEW u \in Nat, v <= u, Behind(a, v)
  PROVE  Behind(a, u)
<1>1. stored[a] \in Nat /\ parent[a] \in Nat
  BY DEF Typed, Batch
<1>2. QED
  BY <1>1, BlobFields DEF Behind

\* Steps that leave what the node holds alone, but for the handler outside the lock.
LEMMA OthersKeep ==
  ASSUME IInv, UNCHANGED <<version, waiting, parent, stored, unput, blobs, cache>>, Holding'
  PROVE  Kept' /\ CacheIsBlob' /\ Queue' /\ Newest'
         /\ (\A b \in 1..Len(blobs') : \A a \in Accounts :
               blobs'[b][a] <= stored'[a] \/ a \in unput')
<1>1. \A a \in Accounts : Awaits(a) <=> Awaits(a)'
  BY DEF Awaits
<1>2. \A a \in Accounts, v \in Nat : Behind(a, v) => Behind(a, v)'
  BY DEF Behind
<1>3. Kept'
  BY <1>1 DEF IInv, Kept
<1>4. CacheIsBlob' /\ (\A b \in 1..Len(blobs') : \A a \in Accounts :
                        blobs'[b][a] <= stored'[a] \/ a \in unput')
  BY DEF IInv, CacheIsBlob, Dispersed
<1>5. Queue'
  BY <1>2, SMTT(60) DEF IInv, Queue
<1>6. Newest'
  <2>1. Newest
    BY DEF IInv
  <2>2. QED
    BY <1>1, <2>1 DEF Newest, Behind
<1>7. QED
  BY <1>3, <1>4, <1>5, <1>6

-----------------------------------------------------------------------------
\* A new version goes to the end of the queue.
LEMMA CacheAccountKeeps ==
  ASSUME Typed, IInv, NEW a \in Accounts, CacheAccount(a)
  PROVE  Kept' /\ CacheIsBlob' /\ Queue' /\ Newest' /\ Holding' /\ Dispersed'
<1> DEFINE n == Len(waiting)
           w == [account |-> a, version |-> version[a] + 1]
<1>1. /\ version \in [Accounts -> Nat] /\ parent \in [Accounts -> Nat]
      /\ stored \in [Accounts -> Nat] /\ waiting \in Waiting
  BY DEF Typed, Batch
<1>2. /\ n \in Nat
      /\ \A i \in 1..n : waiting[i].account \in Accounts /\ waiting[i].version \in Nat
  BY <1>1, Fields, ZenonT(60)
<1>3. /\ version' \in [Accounts -> Nat]
      /\ version'[a] = version[a] + 1
      /\ \A c \in Accounts \ {a} : version'[c] = version[c]
  BY <1>1, SMTT(60) DEF CacheAccount
<1>4. /\ Len(waiting') = n + 1
      /\ waiting'[n + 1] = w
      /\ \A i \in 1..n : waiting'[i] = waiting[i]
  <2>1. w \in [account: Accounts, version: Nat] /\ waiting' = Append(waiting, w)
    BY <1>1, SMTT(60) DEF CacheAccount
  <2> HIDE DEF w
  <2>2. QED
    BY <1>1, <2>1, AppendProperties, SMTT(60) DEF Waiting
<1>5. w.account = a /\ w.version = version'[a]
  BY <1>3
<1>6. UNCHANGED <<parent, stored, unput, blobs, cache, handler, call, orphans, index>>
  BY DEF CacheAccount, actor, eo
<1> HIDE DEF n, w
<1>7. \A c \in Accounts : Awaits(c) \/ c = a => Awaits(c)'
  BY <1>2, <1>3, <1>4, <1>5, SMTT(60) DEF Awaits, n
<1>8. \A c \in Accounts, v \in Nat : Behind(c, v) => Behind(c, v)'
  BY <1>6 DEF Behind
<1>9. \A c \in Accounts : Behind(c, version'[c])
  <2>1. \A c \in Accounts : Behind(c, version[c]) /\ version[c] <= version'[c]
    BY <1>1, <1>3 DEF IInv, Newest
  <2>2. QED
    BY <1>1, <1>3, <2>1, BehindLater
<1>10. Kept'
  BY <1>3, <1>6, <1>7 DEF IInv, Kept
<1>11. Newest'
  BY <1>1, <1>3, <1>6, <1>7, <1>8, <1>9 DEF IInv, Newest
<1>12. Queue'
  <2>1. ASSUME NEW i \in 1..n, NEW c \in Accounts, NEW v \in Nat,
               waiting'[i].account = c, waiting'[i].version = v
        PROVE  /\ Behind(c, v)'
               /\ v <= version'[c]
               /\ \E j \in i..n + 1 : waiting'[j].account = c /\ waiting'[j].version = version'[c]
    <3>1. waiting[i].account = c /\ waiting[i].version = v
      BY <1>4, <2>1
    <3>2. PICK j \in i..n : waiting[j].account = c /\ waiting[j].version = version[c]
      BY <3>1 DEF IInv, Queue, n
    <3>3. Behind(c, v) /\ v <= version[c]
      BY <3>1 DEF IInv, Queue, n
    <3>4. CASE c = a
      BY <1>1, <1>2, <1>3, <1>4, <1>5, <1>8, <3>3, <3>4, SMTT(60)
    <3>5. CASE c # a
      BY <1>1, <1>2, <1>3, <1>4, <1>8, <3>2, <3>3, <3>5, SMTT(60)
    <3>6. QED
      BY <3>4, <3>5
  <2>2. ASSUME NEW c \in Accounts, NEW v \in Nat,
               waiting'[n + 1].account = c, waiting'[n + 1].version = v
        PROVE  Behind(c, v)' /\ v = version'[c]
    BY <1>3, <1>4, <1>5, <1>8, <1>9, <2>2
  <2>3. ASSUME NEW i \in 1..n + 1, NEW j \in 1..n + 1, i < j,
               waiting'[i].account = waiting'[j].account
        PROVE  waiting'[i].version <= waiting'[j].version
    <3>1. i \in 1..n
      BY <1>2, <2>3
    <3>2. CASE j \in 1..n
      BY <1>4, <2>3, <3>1, <3>2 DEF IInv, Queue, n
    <3>3. CASE j = n + 1
      BY <1>2, <1>4, <1>5, <2>1, <2>3, <3>1, <3>3, ZenonT(60)
    <3>4. QED
      BY <1>2, <3>2, <3>3
  <2>4. ASSUME NEW i \in 1..n + 1, NEW c \in Accounts, NEW v \in Nat,
               waiting'[i].account = c, waiting'[i].version = v
        PROVE  /\ Behind(c, v)'
               /\ v <= version'[c]
               /\ \E j \in i..n + 1 : waiting'[j].account = c /\ waiting'[j].version = version'[c]
    <3>1. CASE i \in 1..n
      BY <2>1, <2>4, <3>1, ZenonT(60)
    <3>2. CASE i = n + 1
      <4>1. Behind(c, v)' /\ v = version'[c]
        BY <2>2, <2>4, <3>2
      <4>2. i \in i..n + 1 /\ v <= version'[c]
        BY <1>2, <3>2, <4>1, SMTT(30)
      <4>3. QED
        BY <2>4, <4>1, <4>2
    <3>3. QED
      BY <1>2, <3>1, <3>2
  <2>5. QED
    BY <1>4, <2>3, <2>4, SMTT(60) DEF Queue
<1>13. CacheIsBlob' /\ Holding' /\ Dispersed'
  BY <1>6 DEF IInv, CacheIsBlob, Holding, Dispersed, In
<1>14. QED
  BY <1>10, <1>11, <1>12, <1>13

\* The future at the head of the queue puts its account into the parent, which nobody
\* reads meanwhile: the lock is free.
LEMMA AddAccountKeeps ==
  ASSUME Typed, IInv, AddAccountToBatch
  PROVE  Kept' /\ CacheIsBlob' /\ Queue' /\ Newest' /\ Holding' /\ Dispersed'
<1>1. /\ version \in [Accounts -> Nat] /\ parent \in [Accounts -> Nat]
      /\ stored \in [Accounts -> Nat] /\ waiting \in Waiting /\ waiting # <<>>
  BY SMTT(30) DEF Typed, Batch, AddAccountToBatch
<1>2. /\ UNCHANGED <<version, stored, unput, blobs, cache, handler, call, orphans, index>>
      /\ handler.at \notin {"put", "store"}
  BY DEF AddAccountToBatch, actor, eo, Locked
<1>3. CASE UNCHANGED <<parent, waiting>>
  <2>1. Holding'
    BY <1>2, <1>3 DEF IInv, Holding, In
  <2>2. QED
    BY <1>2, <1>3, <2>1, OthersKeep, SMTT(30) DEF IInv, Dispersed
<1>4. CASE ~UNCHANGED <<parent, waiting>>
  <2>1. PICK n \in Nat, a \in Accounts, v \in Nat :
           /\ n = Len(waiting) /\ n > 0
           /\ a = waiting[1].account /\ v = waiting[1].version
           /\ Head(waiting) = waiting[1]
    <3>1. Len(waiting) \in Nat /\ Len(waiting) # 0 /\ Head(waiting) = waiting[1]
      BY <1>1, EmptySeq DEF Waiting
    <3>2. waiting[1].account \in Accounts /\ waiting[1].version \in Nat
      <4>1. 1 \in 1..Len(waiting)
        BY <3>1
      <4>2. waiting \in Waiting
        BY <1>1
      <4>3. QED
        BY <4>1, <4>2, Fields, Zenon
    <3>3. QED
      BY <3>1, <3>2
  <2>2. \A i \in 1..n : waiting[i].account \in Accounts /\ waiting[i].version \in Nat
    BY <1>1, <2>1, Fields, ZenonT(60)
  <2>3. /\ Len(waiting') = n - 1
        /\ \A i \in 1..n - 1 : waiting'[i] = waiting[i + 1]
    <3>1. waiting' = Tail(waiting)
      BY <1>4 DEF AddAccountToBatch
    <3>2. QED
      BY <1>1, <2>1, <3>1, HeadTailProperties DEF Waiting
  <2>4. /\ parent'[a] = v
        /\ \A c \in Accounts \ {a} : parent'[c] = parent[c]
    <3>1. parent' = [parent EXCEPT ![a] = v]
      BY <1>4, <2>1 DEF AddAccountToBatch
    <3>2. QED
      BY <1>1, <3>1
  <2>5. /\ Behind(a, v) /\ v <= version[a]
        /\ \E j \in 1..n : waiting[j].account = a /\ waiting[j].version = version[a]
    BY <2>1, SMTT(60) DEF IInv, Queue
  <2>6. ASSUME NEW c \in Accounts, NEW u \in Nat, Behind(c, u), c = a => v <= u
        PROVE  Behind(c, u)'
    BY <1>2, <2>4, <2>6 DEF Behind
  <2>7. v = version[a] \/ Awaits(a)'
    <3>1. PICK j \in 1..n : waiting[j].account = a /\ waiting[j].version = version[a]
      BY <2>5
    <3>2. CASE j = 1
      BY <2>1, <3>1, <3>2
    <3>3. CASE j # 1
      <4>1. j - 1 \in 1..n - 1 /\ (j - 1) + 1 = j
        BY <3>3
      <4>2. waiting'[j - 1] = waiting[j]
        BY <2>3, <4>1
      <4>3. QED
        BY <1>2, <2>3, <3>1, <4>1, <4>2 DEF Awaits
    <3>4. QED
      BY <3>2, <3>3
  <2>8. ASSUME NEW c \in Accounts \ {a}, Awaits(c) PROVE Awaits(c)'
    <3>1. PICK j \in 1..n : waiting[j].account = c /\ waiting[j].version = version[c]
      BY <2>1, <2>8 DEF Awaits
    <3>2. j - 1 \in 1..n - 1 /\ (j - 1) + 1 = j
      BY <2>1, <3>1
    <3>3. waiting'[j - 1] = waiting[j]
      BY <2>3, <3>2
    <3>4. QED
      BY <1>2, <2>3, <3>1, <3>2, <3>3 DEF Awaits
  <2>9. Kept'
    BY <1>2, <2>4, <2>7, <2>8 DEF IInv, Kept
  <2>10. Newest'
    <3>1. ASSUME NEW c \in Accounts, NEW u \in Nat, u = version[c] PROVE Behind(c, u)'
      BY <2>5, <2>6, <3>1 DEF IInv, Newest
    <3>2. ASSUME NEW c \in Accounts \ {a}, NEW u \in Nat, u = parent[c], u # 0
          PROVE  Behind(c, u)'
      BY <2>6, <3>2 DEF IInv, Newest
    <3>3. Behind(a, v)'
      BY <2>5, <2>6
    <3>4. ASSUME NEW c \in Accounts
          PROVE  /\ Behind(c, version[c])'
                 /\ parent'[c] # 0 =>
                      Behind(c, parent[c])' /\ (parent'[c] = version'[c] \/ Awaits(c)')
      <4>1. PICK u \in Nat : u = version[c] /\ u = version'[c]
        BY <1>1, <1>2
      <4>2. Behind(c, version[c])'
        BY <3>1, <4>1, Zenon DEF Behind
      <4>3. CASE c = a
        BY <1>2, <2>4, <2>7, <3>3, <4>2, <4>3, SMTT(30) DEF Behind
      <4>4. CASE c # a /\ parent[c] # 0
        <5>1. PICK p \in Nat : p = parent[c] /\ p = parent'[c]
          BY <1>1, <2>4, <4>4
        <5>2. Behind(c, p)'
          BY <3>2, <4>4, <5>1, Zenon
        <5>3. Behind(c, parent[c])'
          BY <5>1, <5>2 DEF Behind
        <5>4. QED
          BY <1>2, <2>4, <2>8, <4>2, <4>4, <5>3 DEF IInv, Newest
      <4>5. QED
        BY <2>4, <4>2, <4>3, <4>4
    <3>5. QED
      BY <3>4 DEF Newest
  <2>11. Queue'
    <3>1. ASSUME NEW i \in 1..n - 1, NEW c \in Accounts, NEW u \in Nat,
                 waiting'[i].account = c, waiting'[i].version = u
          PROVE  /\ Behind(c, u)'
                 /\ u <= version'[c]
                 /\ \E j \in i..n - 1 : waiting'[j].account = c /\ waiting'[j].version = version'[c]
      <4>1. i + 1 \in 1..n /\ waiting[i + 1].account = c /\ waiting[i + 1].version = u
        BY <2>1, <2>3, <3>1
      <4>2. PICK j \in i + 1..n : waiting[j].account = c /\ waiting[j].version = version[c]
        BY <2>1, <4>1, ZenonT(60) DEF IInv, Queue
      <4>3. j - 1 \in i..n - 1 /\ j - 1 \in 1..n - 1 /\ (j - 1) + 1 = j
        BY <2>1, <4>1, <4>2
      <4>4. waiting'[j - 1] = waiting[j]
        BY <2>3, <4>3
      <4>5. Behind(c, u) /\ u <= version[c]
        BY <2>1, <4>1 DEF IInv, Queue
      <4>6. c = a => v <= u
        <5>1. 1 < i + 1 /\ 1 \in 1..n
          BY <2>1, <3>1
        <5>2. QED
          BY <2>1, <4>1, <5>1 DEF IInv, Queue
      <4>7. Behind(c, u)'
        BY <2>6, <4>5, <4>6, SMTT(30)
      <4>8. QED
        BY <1>2, <4>2, <4>3, <4>4, <4>5, <4>7
    <3>2. ASSUME NEW i \in 1..n - 1, NEW j \in 1..n - 1, i < j,
                 waiting'[i].account = waiting'[j].account
          PROVE  waiting'[i].version <= waiting'[j].version
      <4>1. i + 1 \in 1..n /\ j + 1 \in 1..n /\ i + 1 < j + 1
        BY <2>1, <3>2
      <4>2. waiting'[i] = waiting[i + 1] /\ waiting'[j] = waiting[j + 1]
        BY <2>3, SMTT(30)
      <4>3. QED
        BY <2>1, <3>2, <4>1, <4>2, SMTT(60) DEF IInv, Queue
    <3>3. QED
      BY <2>3, <3>1, <3>2, SMTT(60) DEF Queue
  <2>12. CacheIsBlob' /\ Holding' /\ Dispersed'
    BY <1>2 DEF IInv, CacheIsBlob, Holding, Dispersed
  <2>13. QED
    BY <2>9, <2>10, <2>11, <2>12
<1>5. QED
  BY <1>3, <1>4

\* A put of the parent's version does not take the store back, and an account whose put
\* failed before is persisted again.
LEMMA PutAccountKeeps ==
  ASSUME Typed, IInv, NEW a \in Accounts, PutAccount(a)
  PROVE  Kept' /\ CacheIsBlob' /\ Queue' /\ Newest' /\ Holding' /\ Dispersed'
<1>1. /\ version \in [Accounts -> Nat] /\ parent \in [Accounts -> Nat]
      /\ stored \in [Accounts -> Nat] /\ handler \in Handlers
  BY DEF Typed, Batch
<1>2. /\ UNCHANGED <<version, waiting, parent, blobs, cache, call, orphans, index>>
      /\ handler.at = "put" /\ a \in handler.todo
      /\ handler' = [handler EXCEPT !.todo = @ \ {a}]
  BY DEF PutAccount, batcher, eo
<1>3. handler'.at = "put" /\ handler'.todo = handler.todo \ {a}
  BY <1>1, <1>2 DEF Handlers
<1>4. parent[a] # 0 /\ handler.todo \subseteq In(parent) /\ In(parent)' = In(parent)
  BY <1>2, SMTT(30) DEF IInv, Holding, In
<1>5. /\ Behind(a, parent[a]) /\ parent[a] <= version[a]
      /\ parent[a] = version[a] \/ Awaits(a)
  BY <1>1, <1>4 DEF IInv, Newest, Behind
<1>6. \A c \in Accounts : Awaits(c) <=> Awaits(c)'
  BY <1>2 DEF Awaits
<1>7. /\ \A c \in Accounts \ {a} : stored'[c] = stored[c] /\ (c \in unput' <=> c \in unput)
      /\ \/ stored'[a] = parent[a] /\ a \notin unput'
         \/ stored'[a] = stored[a] /\ a \in unput'
  BY <1>1 DEF PutAccount
<1>8. \A c \in Accounts, v \in Nat : Behind(c, v) => Behind(c, v)'
  BY <1>2, <1>7 DEF Behind
<1>9. Kept'
  BY <1>2, <1>5, <1>6, <1>7 DEF IInv, Kept
<1>10. Queue'
  BY <1>2, <1>8, SMTT(60) DEF IInv, Queue
<1>11. Newest'
  <2>1. ASSUME NEW c \in Accounts
        PROVE  /\ Behind(c, version[c])'
               /\ parent'[c] # 0 =>
                    Behind(c, parent[c])' /\ (parent'[c] = version'[c] \/ Awaits(c)')
    <3>1. Behind(c, version[c]) /\ (parent[c] # 0 => Behind(c, parent[c]))
      BY DEF IInv, Newest
    <3>2. PICK v \in Nat, u \in Nat : v = version[c] /\ u = parent[c]
      BY <1>1
    <3>3. Behind(c, v)' /\ (u # 0 => Behind(c, u)')
      BY <1>8, <3>1, <3>2
    <3>4. Behind(c, version[c])' /\ (parent[c] # 0 => Behind(c, parent[c])')
      BY <1>2, <3>2, <3>3 DEF Behind
    <3>5. QED
      BY <1>2, <1>6, <3>4 DEF IInv, Newest
  <2>2. QED
    BY <2>1 DEF Newest
<1>12. Holding'
  <2>1. ASSUME NEW c \in In(parent) \ handler'.todo
        PROVE  stored'[c] = parent[c] \/ c \in unput'
    BY <1>2, <1>3, <1>7, <2>1 DEF IInv, Holding, In
  <2>2. QED
    BY <1>2, <1>3, <1>4, <2>1 DEF Holding
<1>13. CacheIsBlob' /\ Dispersed'
  <2>1. ASSUME NEW b \in 1..Len(blobs), NEW c \in Accounts
        PROVE  blobs[b][c] <= stored'[c] \/ c \in unput'
    BY <1>5, <1>7 DEF IInv, Dispersed, Behind
  <2>2. QED
    BY <1>2, <2>1 DEF IInv, Dispersed, CacheIsBlob
<1>14. QED
  BY <1>9, <1>10, <1>11, <1>12, <1>13

\* The dispersed batch is the parent, every account of which is persisted or has failed
\* to be.
LEMMA BlobAppended ==
  ASSUME Typed, IInv, handler.at = "store", blobs' = Append(blobs, handler.batch)
  PROVE  /\ Len(blobs') = Len(blobs) + 1 /\ Len(blobs) \in Nat
         /\ Len(blobs) + 1 \in Blobs
         /\ blobs'[Len(blobs) + 1] = parent
         /\ \A b \in 1..Len(blobs) : blobs'[b] = blobs[b]
<1>1. blobs \in Seq(Batch) /\ handler.batch \in Batch /\ handler.batch = parent
      /\ Len(blobs) < MaxBlobs
  BY DEF Typed, Dispersals, Handlers, IInv, Holding
<1>2. QED
  BY <1>1, AppendProperties, LenProperties, SettlementConstants, SMTT(60) DEF Blobs

\* Another blob of the parent: nothing that waits is older.
LEMMA StillBehind ==
  ASSUME Typed, IInv, handler.at = "store", blobs' = Append(blobs, handler.batch),
         UNCHANGED stored, NEW a \in Accounts, NEW v \in Nat, Behind(a, v),
         parent'[a] \in {0, parent[a]}
  PROVE  Behind(a, v)'
<1>1. \A b \in 1..Len(blobs') : blobs'[b][a] <= v
  BY BlobAppended, SMTT(60) DEF Behind
<1>2. QED
  BY <1>1 DEF Behind

\* What is in another blob of the parent was persisted, or its put failed.
LEMMA StillDispersed ==
  ASSUME Typed, IInv, handler.at = "store", blobs' = Append(blobs, handler.batch),
         UNCHANGED <<stored, unput>>
  PROVE  \A b \in 1..Len(blobs') : \A a \in Accounts : blobs'[b][a] <= stored'[a] \/ a \in unput'
<1>1. stored \in [Accounts -> Nat] /\ parent \in [Accounts -> Nat]
  BY DEF Typed, Batch
<1>2. \A a \in Accounts : parent[a] <= stored[a] \/ a \in unput
  BY <1>1, SMTT(60) DEF IInv, Holding, In
<1>3. QED
  BY <1>2, BlobAppended, SMTT(60) DEF IInv, Dispersed

\* The parent gives way to a new one only when all of it is in the blob and was put.
LEMMA StoreOkKeeps ==
  ASSUME Typed, IInv, StoreOk
  PROVE  Kept' /\ CacheIsBlob' /\ Queue' /\ Newest' /\ Holding' /\ Dispersed'
<1>1. /\ version \in [Accounts -> Nat] /\ parent \in [Accounts -> Nat]
      /\ stored \in [Accounts -> Nat] /\ cache \in Caches
      /\ index \in [Accounts -> 0..MaxBlobs]
  BY DEF Typed, Batch
<1>2. /\ UNCHANGED <<version, waiting, stored, unput, call, orphans, index>>
      /\ handler.at = "store" /\ blobs' = Append(blobs, handler.batch)
      /\ cache' = [cache EXCEPT ![Len(blobs) + 1] = parent]
  BY DEF StoreOk, eo
<1>3. handler'.at = "validate"
  BY IdleType DEF StoreOk, Handlers
<1>4. \A a \in Accounts : parent'[a] = 0
  BY DEF StoreOk, NewBatch
<1>5. /\ Len(blobs') = Len(blobs) + 1 /\ Len(blobs) \in Nat
      /\ Len(blobs) + 1 \in Blobs
      /\ blobs'[Len(blobs) + 1] = parent
      /\ \A b \in 1..Len(blobs) : blobs'[b] = blobs[b]
  BY <1>2, BlobAppended
<1>6. /\ cache'[Len(blobs) + 1] = parent
      /\ \A b \in Blobs : b # Len(blobs) + 1 => cache'[b] = cache[b]
  BY <1>1, <1>2, <1>5 DEF Caches
<1>7. \A a \in Accounts, v \in Nat : Behind(a, v) => Behind(a, v)'
  BY <1>2, <1>4, StillBehind
<1>8. \A a \in Accounts : Awaits(a) <=> Awaits(a)'
  BY <1>2 DEF Awaits
<1>9. Kept'
  <2>1. \A a \in Accounts : parent[a] # 0 => stored[a] = parent[a] \/ a \in unput
    BY <1>2, SMTT(30) DEF IInv, Holding, In
  <2>2. QED
    BY <1>1, <1>2, <1>4, <1>8, <2>1, SMTT(30) DEF IInv, Kept
<1>10. Queue'
  BY <1>2, <1>7, SMTT(60) DEF IInv, Queue
<1>11. Newest'
  <2>1. ASSUME NEW a \in Accounts PROVE Behind(a, version[a])'
    <3>1. PICK v \in Nat : v = version[a]
      BY <1>1
    <3>2. Behind(a, v)'
      BY <1>7, <3>1 DEF IInv, Newest
    <3>3. QED
      BY <1>2, <3>1, <3>2 DEF Behind
  <2>2. QED
    BY <1>4, <2>1 DEF Newest
<1>12. Holding'
  BY <1>3 DEF Holding
<1>13. CacheIsBlob'
  BY <1>5, <1>6, SMTT(60) DEF IInv, CacheIsBlob, Blobs
<1>14. Dispersed'
  <2>1. \A b \in Blobs : cache'[b] = None => call[b] = "none" /\ orphans[b] = 0
    <3>1. parent # None
      BY <1>1, SettlementConstants
    <3>2. QED
      BY <1>6, <3>1 DEF IInv, Dispersed
  <2>2. \A a \in Accounts : index[a] # 0 => index[a] <= Len(blobs') /\ blobs'[index[a]][a] # 0
    <3>1. ASSUME NEW a \in Accounts, index[a] # 0
          PROVE  index[a] \in 1..Len(blobs) /\ blobs[index[a]][a] # 0
      BY <1>1, <1>5, <3>1, SettlementConstants, SMTT(60) DEF IInv, Dispersed
    <3>2. QED
      BY <1>5, <3>1, SMTT(60)
  <2>3. QED
    BY <1>2, <2>1, <2>2, StillDispersed, Zenon DEF Dispersed
<1>15. QED
  BY <1>9, <1>10, <1>11, <1>12, <1>13, <1>14

\* A dispersal that fails may have been stored: its accounts stay in the parent.
LEMMA StoreErrKeeps ==
  ASSUME Typed, IInv, StoreErr
  PROVE  Kept' /\ CacheIsBlob' /\ Queue' /\ Newest' /\ Holding' /\ Dispersed'
<1>1. /\ version \in [Accounts -> Nat] /\ parent \in [Accounts -> Nat]
      /\ index \in [Accounts -> 0..MaxBlobs]
  BY DEF Typed, Batch
<1>2. /\ UNCHANGED <<version, waiting, parent, stored, unput, cache, call, orphans, index>>
      /\ handler.at = "store"
      /\ handler'.at = "idle"
  BY IdleType, SMTT(30) DEF StoreErr, batcher, eo
<1>3. CASE blobs' = blobs
  <2>1. Holding'
    BY <1>2 DEF Holding
  <2>2. QED
    BY <1>2, <1>3, <2>1, OthersKeep, ZenonT(60) DEF IInv, Dispersed
<1>4. CASE blobs' = Append(blobs, handler.batch)
  <2>1. /\ Len(blobs') = Len(blobs) + 1 /\ Len(blobs) \in Nat
        /\ \A b \in 1..Len(blobs) : blobs'[b] = blobs[b]
    BY <1>2, <1>4, BlobAppended
  <2>2. \A a \in Accounts, v \in Nat : Behind(a, v) => Behind(a, v)'
    BY <1>2, <1>4, StillBehind
  <2>3. \A a \in Accounts : Awaits(a) <=> Awaits(a)'
    BY <1>2, SMTT(30) DEF Awaits
  <2>4. Kept' /\ Queue' /\ Holding'
    BY <1>2, <2>2, <2>3, SMTT(60) DEF IInv, Kept, Queue, Holding
  <2>5. Newest'
    <3>1. ASSUME NEW a \in Accounts
          PROVE  /\ Behind(a, version[a])'
                 /\ parent'[a] # 0 =>
                      Behind(a, parent[a])' /\ (parent'[a] = version'[a] \/ Awaits(a)')
      <4>1. Behind(a, version[a]) /\ (parent[a] # 0 => Behind(a, parent[a]))
        BY DEF IInv, Newest
      <4>2. PICK v \in Nat, u \in Nat : v = version[a] /\ u = parent[a]
        BY <1>1
      <4>3. Behind(a, v)' /\ (u # 0 => Behind(a, u)')
        BY <2>2, <4>1, <4>2
      <4>4. Behind(a, version[a])' /\ (parent[a] # 0 => Behind(a, parent[a])')
        BY <1>2, <4>2, <4>3 DEF Behind
      <4>5. QED
        BY <1>2, <2>3, <4>4 DEF IInv, Newest
    <3>2. QED
      BY <3>1, SMTT(30) DEF Newest
  <2>6. CacheIsBlob'
    BY <1>2, <2>1 DEF IInv, CacheIsBlob, Blobs
  <2>7. \A a \in Accounts : index[a] # 0 => index[a] <= Len(blobs') /\ blobs'[index[a]][a] # 0
    <3>1. ASSUME NEW a \in Accounts, index[a] # 0
          PROVE  index[a] \in 1..Len(blobs) /\ blobs[index[a]][a] # 0
      BY <1>1, <2>1, <3>1, SettlementConstants, SMTT(30) DEF IInv, Dispersed
    <3>2. QED
      BY <2>1, <3>1, SMTT(60)
  <2>8. Dispersed'
    BY <1>2, <1>4, <2>7, StillDispersed, ZenonT(60) DEF IInv, Dispersed
  <2>9. QED
    BY <2>4, <2>5, <2>6, <2>8
<1>5. QED
  BY <1>3, <1>4 DEF StoreErr

\* The settlement of a blob names it only for accounts that are in it.
LEMMA SettlingKeeps ==
  ASSUME Typed, IInv, NEW b \in Blobs, Settling(b)
  PROVE  Kept' /\ CacheIsBlob' /\ Queue' /\ Newest' /\ Holding' /\ Dispersed'
<1>1. call \in Calls /\ orphans \in [Blobs -> Nat] /\ index \in [Accounts -> 0..MaxBlobs]
  BY DEF Typed
<1>2. UNCHANGED <<version, waiting, parent, stored, unput, blobs, cache, handler>>
  BY Zenon DEF Settling, BlobConfirmed, PollErr, HandleProof, SettleCast, Settle, SignedCall,
         SettleTimedOut, Mined, Reverted, SettleSuccess, batcher, actor
<1>3. Holding'
  BY <1>2, ZenonT(60) DEF IInv, Holding, In
<1>4. \A c \in Blobs : cache[c] = None => call'[c] = "none" /\ orphans'[c] = 0
  <2>1. \A c \in Blobs : cache[c] = None => call[c] = "none" /\ orphans[c] = 0
    <3>1. Dispersed
      BY Zenon DEF IInv
    <3> QED
      BY <3>1, Zenon DEF Dispersed
  <2>2. \A c \in Blobs \ {b} : call'[c] = call[c] /\ orphans'[c] = orphans[c]
    <3>1. CASE BlobConfirmed(b) \/ PollErr(b) \/ HandleProof(b)
      BY <3>1 DEF BlobConfirmed, PollErr, HandleProof, eo
    <3>2. CASE SettleCast(b) \/ Settle(b) \/ SignedCall(b) \/ Reverted(b) \/ SettleSuccess(b)
      BY <1>1, <3>2 DEF SettleCast, Settle, SignedCall, Reverted, SettleSuccess, Calls
    <3>3. CASE SettleTimedOut(b) \/ Mined(b)
      BY <1>1, <3>3, SMTT(30) DEF SettleTimedOut, Mined, Calls
    <3>4. QED
      BY <3>1, <3>2, <3>3, ZenonT(30) DEF Settling
  <2>3. cache[b] = None => call'[b] = call[b] /\ orphans'[b] = orphans[b]
    <3>1. CASE BlobConfirmed(b) \/ PollErr(b) \/ HandleProof(b)
      BY <3>1 DEF BlobConfirmed, PollErr, HandleProof, eo
    <3>2. CASE SettleCast(b)
      BY <1>1, <3>2, SMTT(30) DEF SettleCast, Calls
    <3>3. CASE Settle(b) \/ SignedCall(b) \/ Reverted(b) \/ SettleSuccess(b) \/ SettleTimedOut(b)
      BY <2>1, <3>3 DEF Settle, SignedCall, Reverted, SettleSuccess, SettleTimedOut
    <3>4. CASE Mined(b)
      BY <2>1, <3>4, SMTT(60) DEF Mined
    <3>5. QED
      BY <3>1, <3>2, <3>3, <3>4, ZenonT(30) DEF Settling
  <2>4. QED
    BY <2>1, <2>2, <2>3
<1>5. \A a \in Accounts : index'[a] # 0 => index'[a] <= Len(blobs) /\ blobs[index'[a]][a] # 0
  <2>1. \A a \in Accounts : index[a] # 0 => index[a] <= Len(blobs) /\ blobs[index[a]][a] # 0
    BY DEF IInv, Dispersed
  <2>2. CASE Mined(b)
    <3>1. cache[b] # None
      BY <1>1, <2>2, SMTT(60) DEF IInv, Dispersed, Mined
    <3>2. b <= Len(blobs) /\ cache[b] = blobs[b]
      BY <3>1 DEF IInv, CacheIsBlob
    <3>3. \A a \in Accounts : index'[a] = IF blobs[b][a] # 0 THEN b ELSE index[a]
      BY <2>2, <3>2 DEF Mined, SettleBlobIndex, In
    <3>4. QED
      BY <2>1, <3>2, <3>3, SMTT(30)
  <2>3. CASE ~Mined(b)
    <3>1. index' = index
      BY <2>3 DEF Settling, BlobConfirmed, PollErr, HandleProof, SettleCast, Settle,
         SignedCall, SettleTimedOut, Reverted, SettleSuccess, eo
    <3>2. QED
      BY <2>1, <3>1, SMTT(30)
  <2>4. QED
    BY <2>2, <2>3, Zenon
<1>6. QED
  BY <1>2, <1>3, <1>4, <1>5, OthersKeep DEF Dispersed

\* Every step keeps the invariant.
LEMMA IInvStep == ASSUME Typed, IInv, [Next]_vars PROVE IInv'
<1>2. ASSUME BatchRequestor \/ GetNextBatch \/ StoreBatch \/ RespawnBatcher
             \/ RequestBlobValidation \/ UNCHANGED vars
      PROVE  Kept' /\ CacheIsBlob' /\ Queue' /\ Newest' /\ Holding' /\ Dispersed'
  <2>1. UNCHANGED <<version, waiting, parent, stored, unput, blobs, cache, call, orphans, index>>
    BY <1>2 DEF BatchRequestor, GetNextBatch, StoreBatch, RespawnBatcher,
       RequestBlobValidation, vars, batcher, eo
  <2>2. Holding'
    <3>1. CASE UNCHANGED handler
      BY <2>1, <3>1, ZenonT(60) DEF IInv, Holding, In
    <3>2. CASE GetNextBatch
      <4>1. \/ handler' = Idle
            \/ handler'.at = "put" /\ handler'.todo = In(parent)
        BY <3>2, IdleType, SMTT(30) DEF GetNextBatch, Handlers
      <4>2. QED
        BY <2>1, <4>1, IdleType DEF Holding, In
    <3>3. CASE StoreBatch
      <4>1. /\ handler'.at = "store" /\ handler'.todo = {} /\ handler'.batch = parent
            /\ handler.at = "put" /\ handler.todo = {} /\ Len(blobs) < MaxBlobs
        BY <3>3 DEF StoreBatch, Typed, Handlers
      <4>2. QED
        BY <2>1, <4>1 DEF IInv, Holding, In
    <3>4. CASE RequestBlobValidation
      BY <3>4, IdleType DEF RequestBlobValidation, Holding
    <3>5. QED
      BY <1>2, <3>1, <3>2, <3>3, <3>4, SMTT(30) DEF BatchRequestor, RespawnBatcher, vars, actor
  <2>3. QED
    BY <2>1, <2>2, OthersKeep, Zenon DEF IInv, Dispersed
<1>3. Kept' /\ CacheIsBlob' /\ Queue' /\ Newest' /\ Holding' /\ Dispersed'
  BY <1>2, CacheAccountKeeps, AddAccountKeeps, PutAccountKeeps, StoreOkKeeps, StoreErrKeeps,
     SettlingKeeps DEF Next, Batching
<1>4. QED
  BY <1>3, ZenonT(30) DEF IInv

-----------------------------------------------------------------------------
\* The types and the invariant hold throughout.
LEMMA AlwaysIInv == Spec => [](Typed /\ IInv)
BY InitTyped, TypedStep, InitIInv, IInvStep, PTL DEF Spec

\* No update falls out of the batches, whatever fails and whenever the batcher dies: the
\* lock keeps the queue off the parent from the first put to its replacement.
THEOREM UpdatesAreNotLost == Spec => []NoUpdateLost
<1>1. Typed /\ IInv => NoUpdateLost
  BY KeptIsNoUpdateLost DEF IInv
<1>2. QED
  BY <1>1, AlwaysIInv, PTL

\* What the batcher settles for a blob is what it dispersed.
THEOREM SettledIsDispersed == Spec => []CacheIsBlob
<1>1. Typed /\ IInv => CacheIsBlob
  BY DEF IInv
<1>2. QED
  BY <1>1, AlwaysIInv, PTL

\* An account is in the blob the contract names for it, and the store is not behind it
\* unless a put failed.
THEOREM SettledAccountsAreRetrievable == Spec => []IndexIsRetrievable
<1>1. ASSUME Typed, IInv PROVE IndexIsRetrievable
  <2>1. Len(blobs) \in Nat /\ index \in [Accounts -> 0..MaxBlobs]
    BY <1>1, BlobFields DEF Typed
  <2>2. ASSUME NEW a \in Accounts, index[a] # 0
        PROVE  index[a] \in 1..Len(blobs) /\ blobs[index[a]][a] # 0
    BY <1>1, <2>1, <2>2, SettlementConstants, SMTT(60) DEF IInv, Dispersed
  <2>3. QED
    BY <1>1, <2>1, <2>2 DEF IInv, Dispersed, IndexIsRetrievable
<1>2. QED
  BY <1>1, AlwaysIInv, PTL
=============================================================================
