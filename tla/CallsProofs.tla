----------------------------- MODULE CallsProofs -----------------------------
(***************************************************************************)
(* Proofs about Calls: what the operators of Instructions and CallRules    *)
(* keep of the accounts they are applied to, whatever the instructions of  *)
(* a call; and with it, from the steps of CallStepsProofs, that Calls      *)
(* keeps its invariants and implements ProgramLedger.                      *)
(***************************************************************************)
EXTENDS CallStepsProofs, WellFoundedInduction

USE ZenonT(2), SMTT(60), ZenonT(60)

-----------------------------------------------------------------------------
(* Induction. *)

\* A set of naturals that is not empty has a least member.
LEMMA LeastNatural ==
  ASSUME NEW T \in SUBSET Nat, T # {}
  PROVE  \E n \in T : \A m \in T : n <= m
<1>1. PICK n \in T : \A m \in T : ~(<<m, n>> \in OpToRel(<, Nat))
  BY WFMin, NatLessThanWellFounded, Zenon
<1>2. \A m \in T : ~(m < n)
  BY <1>1, Zenon DEF OpToRel
<1>3. \A m \in T : m \in Nat /\ n \in Nat
  OBVIOUS
<1> QED
  BY <1>2, <1>3, SMTT(60)

\* A set with 0, and with each natural the next one, has all of them.
LEMMA Counting ==
  ASSUME NEW Good, 0 \in Good, \A n \in Nat : n \in Good => n + 1 \in Good
  PROVE  Nat \subseteq Good
<1> DEFINE Bad == {n \in Nat : n \notin Good}
<1> SUFFICES ASSUME Bad # {} PROVE FALSE
  OBVIOUS
<1>1. PICK n \in Bad : \A m \in Bad : n <= m
  BY LeastNatural, Zenon
<1>2. n # 0 /\ n \in Nat
  OBVIOUS
<1>3. n - 1 \in Nat /\ n - 1 \notin Bad
  BY <1>1, <1>2, SMTT(60)
<1>4. n - 1 + 1 = n
  BY <1>2, SMTT(60)
<1> QED
  BY <1>3, <1>4, ZenonT(60)

-----------------------------------------------------------------------------
(* The updates of a token, one after the other. *)

UpdateStep(result, u) == IF result.is = "ok" THEN ApplyTokenUpdateField(result.value, u) ELSE result
IsUpdating(token, updates, m, after) ==
    after = [n \in 0..m |-> IF n = 0 THEN Ok(token) ELSE UpdateStep(after[n - 1], updates[n])]

\* apply_token_update goes from field to field.
LEMMA UpdatesUnfold ==
  ASSUME NEW token, NEW updates, Len(updates) \in Nat
  PROVE  \E after : /\ after[0] = Ok(token)
                    /\ \A n \in 1..Len(updates) : after[n] = UpdateStep(after[n - 1], updates[n])
                    /\ ApplyTokenUpdates(token, updates) = after[Len(updates)]
<1> DEFINE Good == {m \in Nat : \E after : IsUpdating(token, updates, m, after)}
<1>1. 0 \in Good
  <2> DEFINE g == [n \in 0..0 |-> Ok(token)]
  <2>1. IsUpdating(token, updates, 0, g)
    BY DEF IsUpdating
  <2> QED
    BY <2>1, ZenonT(60)
<1>2. ASSUME NEW m \in Nat, m \in Good
      PROVE  m + 1 \in Good
  <2>1. PICK f : IsUpdating(token, updates, m, f)
    BY <1>2, ZenonT(60)
  <2> DEFINE g == [n \in 0..(m + 1) |->
                     IF n = m + 1 THEN UpdateStep(f[m], updates[n]) ELSE f[n]]
  <2>2. IsUpdating(token, updates, m + 1, g)
    BY <2>1, SMTT(60) DEF IsUpdating
  <2> QED
    BY <2>2
<1>3. Len(updates) \in Good
  <2> HIDE DEF Good
  <2> QED
    BY <1>1, <1>2, Counting, ZenonT(60)
<1> DEFINE after == CHOOSE after : IsUpdating(token, updates, Len(updates), after)
<1>4. IsUpdating(token, updates, Len(updates), after)
  BY <1>3, ZenonT(60)
<1>5. ApplyTokenUpdates(token, updates) = after[Len(updates)]
  BY DEF ApplyTokenUpdates, IsUpdating, UpdateStep, Then
<1> HIDE DEF after
<1> QED
  BY <1>4, <1>5, SMTT(60) DEF IsUpdating

\* Two tokens with the same units, and two that let the same spenders spend.
SameHoldings(t, u) == u.balance = t.balance /\ u.ids = t.ids

\* Inserting into and removing from a map leave it a map.
LEMMA MapFacts ==
  ASSUME NEW K, NEW V, NEW map \in Maps(K, V), NEW key \in K, NEW value \in V
  PROVE  Put(map, key, value) \in Maps(K, V) /\ Without(map, key) \in Maps(K, V)
  BY DEF Maps, Put, Without

\* An update of the data leaves data.
LEMMA DataFacts ==
  ASSUME NEW map \in Data, NEW u, IsDataUpdate(u)
  PROVE  ApplyDataUpdate(map, u) \in Data
  BY MapFacts, ZenonT(60) DEF ApplyDataUpdate, Data, IsDataUpdate

\* An update of the approvals leaves approvals.
LEMMA ApprovalsFacts ==
  ASSUME NEW approvals \in Maps(Addresses, SUBSET Ids), NEW u,
         IsPermitUpdate(u), u.field = "Approvals"
  PROVE  ApplyApprovalsUpdate(approvals, u) \in Maps(Addresses, SUBSET Ids)
<1> DEFINE held == At(approvals, u.key, {})
<1> /\ u.op \in {"Insert", "Extend", "Remove", "Revoke"} /\ u.key \in Addresses
    /\ u.value \in SUBSET Ids
  BY DEF IsPermitUpdate
<1>1. held \in SUBSET Ids
  BY DEF At, Maps
<1>2. \A v \in SUBSET Ids : /\ Put(approvals, u.key, v) \in Maps(Addresses, SUBSET Ids)
                            /\ Without(approvals, u.key) \in Maps(Addresses, SUBSET Ids)
  BY MapFacts
<1>3. held \union u.value \in SUBSET Ids /\ held \ u.value \in SUBSET Ids
  BY <1>1, ZenonT(60)
<1> QED
  BY <1>2, <1>3, Zenon DEF ApplyApprovalsUpdate

\* An update of the allowance that succeeds leaves a token with the same holdings.
LEMMA AllowanceFacts ==
  ASSUME NEW token \in Token, NEW u, ApplyAllowanceUpdate(token, u).is = "ok",
         IsPermitUpdate(u), u.field = "Allowance"
  PROVE  /\ ApplyAllowanceUpdate(token, u).value \in Token
         /\ SameHoldings(token, ApplyAllowanceUpdate(token, u).value)
<1> /\ u.op \in {"Insert", "Extend", "Remove", "Revoke"} /\ u.key \in Addresses
    /\ u.value \in Uint
  BY DEF IsPermitUpdate
<1> DEFINE held == At(token.allowance, u.key, 0)
           Set(n) == [token EXCEPT !.allowance = Put(@, u.key, n)]
<1>0. MaxUint \in Nat
  BY InstructionConstants, ZenonT(60)
<1>1. held \in Uint
  <2>1. token.allowance \in [Addresses -> Uint \union {None}]
    BY ZenonT(60) DEF Token, Maps
  <2> QED
    BY <1>0, <2>1, SMTT(60) DEF At, Uint
<1>2. \A n \in Uint : Set(n) \in Token /\ SameHoldings(token, Set(n))
  BY MapFacts, ZenonT(60) DEF Token, SameHoldings
<1>3. \A t \in Token :
        /\ [t EXCEPT !.approvals = Without(@, u.key)] \in Token
        /\ SameHoldings(t, [t EXCEPT !.approvals = Without(@, u.key)])
  BY ZenonT(60) DEF Token, SameHoldings, Without, Maps
<1>4. /\ [token EXCEPT !.allowance = Without(@, u.key)] \in Token
      /\ SameHoldings(token, [token EXCEPT !.allowance = Without(@, u.key)])
  BY DEF Token, SameHoldings, Without, Maps
<1>5. 0 \in Uint
  BY <1>0, SMTT(60) DEF Uint
<1>6. u.value < held => held - u.value \in Uint
  BY <1>0, <1>1, SMTT(60) DEF Uint
<1>7. held + u.value <= MaxUint => held + u.value \in Uint
  BY <1>0, <1>1, SMTT(60) DEF Uint
<1>8. SameHoldings(token, [Set(0) EXCEPT !.approvals = Without(@, u.key)])
  BY <1>2, <1>3, <1>5, ZenonT(60) DEF SameHoldings
<1>9. \/ u.value < held \/ u.value > held \/ u.value = held
  BY <1>0, <1>1, SMTT(60) DEF Uint
<1>10. held + u.value <= MaxUint \/ held + u.value > MaxUint
  BY <1>0, <1>1, SMTT(60) DEF Uint
<1>11. SameHoldings(token, token)
  BY DEF SameHoldings
<1>12. ApplyAllowanceUpdate(token, u) \in {Panic, Ok(token)}
         \union {Ok(Set(n)) : n \in Uint}
         \union {Ok([Set(0) EXCEPT !.approvals = Without(@, u.key)]),
                 Ok([token EXCEPT !.allowance = Without(@, u.key)])}
  <2>1. CASE u.op = "Insert"
    <3>1. /\ held + u.value > MaxUint => ApplyAllowanceUpdate(token, u) = Panic
          /\ ~(held + u.value > MaxUint) /\ held + u.value <= MaxUint =>
               ApplyAllowanceUpdate(token, u) = Ok(Set(held + u.value))
      BY <2>1, <1>0, <1>1, SMTT(60) DEF ApplyAllowanceUpdate, Uint
    <3>2. held + u.value <= MaxUint => ~(held + u.value > MaxUint)
      BY <1>0, <1>1, SMTT(60) DEF Uint
    <3> HIDE DEF held, Set
    <3> QED
      BY <3>1, <3>2, <1>7, <1>10, ZenonT(60)
  <2>2. CASE u.op = "Extend"
    BY <2>2, ZenonT(60) DEF ApplyAllowanceUpdate
  <2>3. CASE u.op = "Revoke"
    BY <2>3, ZenonT(60) DEF ApplyAllowanceUpdate
  <2>4. CASE u.op = "Remove"
    <3>1. \/ ApplyAllowanceUpdate(token, u) \in {Panic, Ok(token),
                  Ok([Set(0) EXCEPT !.approvals = Without(@, u.key)])}
          \/ u.value < held /\ ApplyAllowanceUpdate(token, u) = Ok(Set(held - u.value))
      BY <2>4, <1>9, SMTT(60) DEF ApplyAllowanceUpdate
    <3> HIDE DEF held, Set
    <3> QED
      BY <3>1, <1>6, ZenonT(60)
  <2> QED
    BY <2>1, <2>2, <2>3, <2>4, ZenonT(60)
<1> HIDE DEF held, Set
<1> QED
  BY <1>12, <1>2, <1>3, <1>4, <1>5, <1>8, <1>11, SMTT(60) DEF Panic, Ok

\* No update of a field moves a balance or an id; two of them change who may spend.
LEMMA UpdateFieldFacts ==
  ASSUME NEW t \in Token, NEW u, IsTokenUpdate(u), ApplyTokenUpdateField(t, u).is = "ok"
  PROVE  /\ ApplyTokenUpdateField(t, u).value \in Token
         /\ SameHoldings(t, ApplyTokenUpdateField(t, u).value)
         /\ u.field \notin {"Approvals", "Allowance"} =>
              SamePermits(t, ApplyTokenUpdateField(t, u).value)
<1>1. CASE IsDataUpdate(u)
  <2>1. \A d \in Data : /\ [t EXCEPT !.data = d] \in Token
                        /\ [t EXCEPT !.metadata = d] \in Token
                        /\ SameHoldings(t, [t EXCEPT !.data = d])
                        /\ SameHoldings(t, [t EXCEPT !.metadata = d])
                        /\ SamePermits(t, [t EXCEPT !.data = d])
                        /\ SamePermits(t, [t EXCEPT !.metadata = d])
    BY DEF Token, SameHoldings, SamePermits
  <2>2. ApplyDataUpdate(t.data, u) \in Data /\ ApplyDataUpdate(t.metadata, u) \in Data
    BY <1>1, DataFacts, ZenonT(60) DEF Token
  <2> QED
    BY <1>1, <2>1, <2>2, Zenon DEF ApplyTokenUpdateField, IsDataUpdate, Ok
<1>2. CASE u.field = "Approvals"
  <2>1. \A d \in Maps(Addresses, SUBSET Ids) :
          [t EXCEPT !.approvals = d] \in Token /\ SameHoldings(t, [t EXCEPT !.approvals = d])
    BY DEF Token, SameHoldings
  <2>2. ApplyApprovalsUpdate(t.approvals, u) \in Maps(Addresses, SUBSET Ids)
    <3>1. IsPermitUpdate(u)
      BY <1>2, ZenonT(60) DEF IsTokenUpdate, IsDataUpdate
    <3>2. t.approvals \in Maps(Addresses, SUBSET Ids)
      BY DEF Token
    <3> QED
      BY <1>2, <3>1, <3>2, ApprovalsFacts, Zenon
  <2> QED
    BY <1>2, <2>1, <2>2, ZenonT(60) DEF ApplyTokenUpdateField, Ok
<1>3. CASE u.field = "Allowance"
  BY <1>3, AllowanceFacts, ZenonT(60) DEF ApplyTokenUpdateField, IsTokenUpdate, IsDataUpdate
<1>4. CASE u.field = "Status"
  <2>1. \A d \in {"Free", "Locked"} :
          /\ [t EXCEPT !.status = d] \in Token /\ SameHoldings(t, [t EXCEPT !.status = d])
          /\ SamePermits(t, [t EXCEPT !.status = d])
    BY DEF Token, SameHoldings, SamePermits
  <2>2. ApplyStatusUpdate(t.status, u) \in {"Free", "Locked"}
    BY <1>4, ZenonT(60) DEF ApplyStatusUpdate, IsTokenUpdate, IsDataUpdate, IsPermitUpdate
  <2> QED
    BY <1>4, <2>1, <2>2, ZenonT(60) DEF ApplyTokenUpdateField, Ok
<1> QED
  BY <1>1, <1>2, <1>3, <1>4, ZenonT(60) DEF IsTokenUpdate, IsPermitUpdate

\* Neither do all the updates of a token together.
LEMMA UpdatesFacts ==
  ASSUME NEW t \in Token, NEW updates, IsList(updates),
         \A f \in DOMAIN updates : IsTokenUpdate(updates[f]),
         ApplyTokenUpdates(t, updates).is = "ok"
  PROVE  /\ ApplyTokenUpdates(t, updates).value \in Token
         /\ SameHoldings(t, ApplyTokenUpdates(t, updates).value)
         /\ ~TouchesPermits(updates) => SamePermits(t, ApplyTokenUpdates(t, updates).value)
<1> DEFINE L == Len(updates)
<1>1. L \in Nat /\ DOMAIN updates = 1..L
  BY DEF IsList
<1>2. PICK after : /\ after[0] = Ok(t)
                   /\ \A n \in 1..L : after[n] = UpdateStep(after[n - 1], updates[n])
                   /\ ApplyTokenUpdates(t, updates) = after[L]
  BY <1>1, UpdatesUnfold, ZenonT(60)
<1> DEFINE Fine(r) == r.is = "ok" => /\ r.value \in Token
                                     /\ SameHoldings(t, r.value)
                                     /\ ~TouchesPermits(updates) => SamePermits(t, r.value)
           Good == {n \in Nat : n <= L => Fine(after[n])}
<1>3. 0 \in Good
  BY <1>2, SMTT(60) DEF Ok, SameHoldings, SamePermits
<1>4. ASSUME NEW n \in Nat, n \in Good
      PROVE  n + 1 \in Good
  <2> SUFFICES ASSUME n + 1 <= L, after[n + 1].is = "ok"
               PROVE  Fine(after[n + 1])
    OBVIOUS
  <2> DEFINE r == after[n]
             u == updates[n + 1]
  <2>1. Fine(r)
    BY <1>1, <1>4
  <2>2. after[n + 1] = UpdateStep(r, u)
    BY <1>1, <1>2, SMTT(60)
  <2>3. r.is = "ok" /\ after[n + 1] = ApplyTokenUpdateField(r.value, u)
    BY <2>2, ZenonT(60) DEF UpdateStep
  <2>4. n + 1 \in DOMAIN updates
    BY <1>1, SMTT(60)
  <2>5. IsTokenUpdate(u)
    BY <2>4
  <2>6. /\ after[n + 1].value \in Token
        /\ SameHoldings(r.value, after[n + 1].value)
        /\ u.field \notin {"Approvals", "Allowance"} => SamePermits(r.value, after[n + 1].value)
    <3> HIDE DEF r, u
    <3> QED
      BY <2>1, <2>3, <2>5, UpdateFieldFacts, ZenonT(60)
  <2>7. ~TouchesPermits(updates) => u.field \notin {"Approvals", "Allowance"}
    BY <2>4, ZenonT(60) DEF TouchesPermits
  <2> QED
    BY <2>1, <2>3, <2>6, <2>7 DEF SameHoldings, SamePermits
<1>5. L \in Good
  <2> HIDE DEF Good, L
  <2> QED
    BY <1>1, <1>3, <1>4, Counting, ZenonT(60)
<1> QED
  BY <1>1, <1>2, <1>5, SMTT(60)

-----------------------------------------------------------------------------
(* The updates of a program account. *)

IsProgramUpdating(account, updates, m, after) ==
    after = [n \in 0..m |-> IF n = 0 THEN account
                            ELSE ApplyProgramUpdateField(after[n - 1], updates[n])]

\* The updates of a program go from field to field.
LEMMA ProgramUpdatesUnfold ==
  ASSUME NEW account, NEW updates, Len(updates) \in Nat
  PROVE  \E after : /\ after[0] = account
                    /\ \A n \in 1..Len(updates) :
                          after[n] = ApplyProgramUpdateField(after[n - 1], updates[n])
                    /\ ApplyProgramUpdates(account, updates) = after[Len(updates)]
<1> DEFINE Good == {m \in Nat : \E after : IsProgramUpdating(account, updates, m, after)}
<1>1. 0 \in Good
  <2> DEFINE g == [n \in 0..0 |-> account]
  <2>1. IsProgramUpdating(account, updates, 0, g)
    BY SMTT(60) DEF IsProgramUpdating
  <2> QED
    BY <2>1, ZenonT(60)
<1>2. ASSUME NEW m \in Nat, m \in Good
      PROVE  m + 1 \in Good
  <2>1. PICK f : IsProgramUpdating(account, updates, m, f)
    BY <1>2
  <2> DEFINE g == [n \in 0..(m + 1) |->
                     IF n = m + 1 THEN ApplyProgramUpdateField(f[m], updates[n]) ELSE f[n]]
  <2>2. IsProgramUpdating(account, updates, m + 1, g)
    BY <2>1, SMTT(60) DEF IsProgramUpdating
  <2> QED
    BY <2>2
<1>3. Len(updates) \in Good
  <2> HIDE DEF Good
  <2> QED
    BY <1>1, <1>2, Counting
<1> DEFINE after == CHOOSE after : IsProgramUpdating(account, updates, Len(updates), after)
<1>4. IsProgramUpdating(account, updates, Len(updates), after)
  BY <1>3
<1>5. ApplyProgramUpdates(account, updates) = after[Len(updates)]
  BY DEF ApplyProgramUpdates, IsProgramUpdating
<1> HIDE DEF after
<1> QED
  BY <1>4, <1>5, SMTT(60) DEF IsProgramUpdating

\* Neither the holdings nor the owner of a program account change with its data.
SameAccount(x, y) ==
    y.self = x.self /\ y.owner = x.owner /\ y.program = x.program /\ y.programs = x.programs

\* The updates of a program leave an account with the same holdings.
LEMMA ProgramUpdatesFacts ==
  ASSUME NEW account \in Account, NEW updates, IsList(updates),
         \A f \in DOMAIN updates : IsProgramUpdate(updates[f])
  PROVE  /\ ApplyProgramUpdates(account, updates) \in Account
         /\ SameAccount(account, ApplyProgramUpdates(account, updates))
<1> DEFINE L == Len(updates)
<1>1. L \in Nat /\ DOMAIN updates = 1..L
  BY DEF IsList
<1>2. PICK after : /\ after[0] = account
                   /\ \A n \in 1..L : after[n] = ApplyProgramUpdateField(after[n - 1], updates[n])
                   /\ ApplyProgramUpdates(account, updates) = after[L]
  BY <1>1, ProgramUpdatesUnfold, SMTT(60)
<1> DEFINE Good == {n \in Nat : n <= L => after[n] \in Account /\ SameAccount(account, after[n])}
<1>3. 0 \in Good
  BY <1>2, ZenonT(60) DEF SameAccount
<1>4. ASSUME NEW n \in Nat, n \in Good
      PROVE  n + 1 \in Good
  <2> SUFFICES ASSUME n + 1 <= L
               PROVE  after[n + 1] \in Account /\ SameAccount(account, after[n + 1])
    OBVIOUS
  <2> DEFINE x == after[n]
             u == updates[n + 1]
  <2>1. x \in Account /\ SameAccount(account, x)
    BY <1>1, <1>4
  <2>2. after[n + 1] = ApplyProgramUpdateField(x, u)
    BY <1>1, <1>2, SMTT(60)
  <2>3. IsProgramUpdate(u)
    BY <1>1, SMTT(60)
  <2> HIDE DEF x, u
  <2>4. \A d \in Data : /\ [x EXCEPT !.data = d] \in Account
                        /\ [x EXCEPT !.metadata = d] \in Account
                        /\ SameAccount(x, [x EXCEPT !.data = d])
                        /\ SameAccount(x, [x EXCEPT !.metadata = d])
    BY <2>1, ZenonT(60) DEF Account, SameAccount
  <2>5. \A d \in SUBSET Addresses : /\ [x EXCEPT !.linked = d] \in Account
                                    /\ SameAccount(x, [x EXCEPT !.linked = d])
    BY <2>1, ZenonT(60) DEF Account, SameAccount
  <2>6. x.data \in Data /\ x.metadata \in Data /\ x.linked \in SUBSET Addresses
    BY <2>1, ZenonT(60) DEF Account
  <2>7. CASE IsDataUpdate(u)
    <3>1. ApplyDataUpdate(x.data, u) \in Data /\ ApplyDataUpdate(x.metadata, u) \in Data
      BY <2>6, <2>7, DataFacts, ZenonT(60)
    <3>2. after[n + 1] \in {[x EXCEPT !.data = ApplyDataUpdate(@, u)],
                            [x EXCEPT !.metadata = ApplyDataUpdate(@, u)]}
      BY <2>2, <2>7, ZenonT(60) DEF ApplyProgramUpdateField, IsDataUpdate
    <3> QED
      BY <2>1, <2>4, <3>1, <3>2, Zenon DEF SameAccount
  <2>8. CASE u.field = "LinkedPrograms" /\ u.key \in Addresses
    <3>1. x.linked \ {u.key} \in SUBSET Addresses /\ x.linked \union {u.key} \in SUBSET Addresses
      BY <2>6, <2>8, ZenonT(60)
    <3>2. after[n + 1] \in {[x EXCEPT !.linked = @ \ {u.key}],
                            [x EXCEPT !.linked = @ \union {u.key}]}
      BY <2>2, <2>8, Zenon DEF ApplyProgramUpdateField
    <3> QED
      BY <2>1, <2>5, <3>1, <3>2, Zenon DEF SameAccount
  <2> QED
    BY <2>3, <2>7, <2>8, ZenonT(60) DEF IsProgramUpdate
<1>5. L \in Good
  <2> HIDE DEF Good, L
  <2> QED
    BY <1>1, <1>3, <1>4, Counting, ZenonT(60)
<1> QED
  BY <1>1, <1>2, <1>5, SMTT(60)

-----------------------------------------------------------------------------
(* What an operation does to a token and to an account. *)

Amounts == Uint \union {None}

\* A credit that does not overflow takes nothing and changes no permit.
LEMMA CreditFacts ==
  ASSUME NEW t \in Token, NEW amount \in Amounts, Credit(t, amount).is = "ok"
  PROVE  /\ Credit(t, amount).value \in Token /\ Unmoved(t, Credit(t, amount).value)
         /\ SamePermits(t, Credit(t, amount).value)
<1>1. t.balance \in Nat /\ t.balance \in Uint /\ MaxUint \in Nat /\ t.ids \in [Ids -> Nat]
  BY InstructionConstants, SMTT(60) DEF Token, Uint
<1>2. CASE amount = None
  BY <1>1, <1>2, SMTT(60) DEF Credit, Ok, Unmoved, SamePermits
<1>3. CASE amount # None /\ t.balance + amount > MaxUint
  BY <1>1, <1>3, SMTT(60) DEF Credit, Panic, Amounts, Uint
<1>4. CASE amount # None /\ t.balance + amount <= MaxUint
  <2>1. amount \in Nat /\ t.balance + amount \in Uint
    BY <1>1, <1>4, SMTT(60) DEF Amounts, Uint
  <2>2. Credit(t, amount) = Ok([t EXCEPT !.balance = @ + amount])
    BY <1>1, <1>4, <2>1, SMTT(60) DEF Credit
  <2>3. \A n \in Uint : /\ [t EXCEPT !.balance = n] \in Token
                        /\ [t EXCEPT !.balance = n].balance = n
                        /\ [t EXCEPT !.balance = n].ids = t.ids
                        /\ SamePermits(t, [t EXCEPT !.balance = n])
    BY DEF Token, SamePermits
  <2> DEFINE n == t.balance + amount
  <2>4. n \in Uint /\ n >= t.balance /\ Credit(t, amount).value = [t EXCEPT !.balance = n]
    BY <1>1, <2>1, <2>2, SMTT(60) DEF Ok
  <2> HIDE DEF n
  <2> QED
    BY <1>1, <2>4, <2>3, SMTT(60) DEF Unmoved
<1> QED
  BY <1>1, <1>2, <1>3, <1>4, SMTT(60) DEF Amounts, Uint

\* A debit that does not underflow leaves a balance within U256.
LEMMA DebitFacts ==
  ASSUME NEW t \in Token, NEW amount \in Amounts, Debit(t, amount).is = "ok"
  PROVE  Debit(t, amount).value \in Token /\ SamePermits(t, Debit(t, amount).value)
<1>1. t.balance \in Nat /\ t.balance \in Uint /\ MaxUint \in Nat
  BY InstructionConstants, SMTT(60) DEF Token, Uint
<1>2. CASE amount = None
  BY <1>2, ZenonT(60) DEF Debit, Ok, SamePermits
<1>3. CASE amount # None /\ amount > t.balance
  BY <1>1, <1>3, SMTT(60) DEF Debit, Err, Amounts, Uint
<1>4. CASE amount # None /\ amount <= t.balance
  <2>1. amount \in Nat /\ t.balance - amount \in Uint
    BY <1>1, <1>4, SMTT(60) DEF Amounts, Uint
  <2>2. Debit(t, amount) = Ok([t EXCEPT !.balance = @ - amount])
    BY <1>1, <1>4, <2>1, SMTT(60) DEF Debit
  <2>3. \A n \in Uint : /\ [t EXCEPT !.balance = n] \in Token
                        /\ SamePermits(t, [t EXCEPT !.balance = n])
    BY DEF Token, SamePermits
  <2> QED
    BY <2>1, <2>2, <2>3, SMTT(60) DEF Ok
<1> QED
  BY <1>1, <1>2, <1>3, <1>4, SMTT(60) DEF Amounts, Uint

\* Adding ids takes none, and removing them leaves a token.
LEMMA IdsFacts ==
  ASSUME NEW t \in Token, NEW ids \in SUBSET Ids
  PROVE  /\ AddTokenIds(t, ids) \in Token /\ Unmoved(t, AddTokenIds(t, ids))
         /\ SamePermits(t, AddTokenIds(t, ids))
         /\ RemoveTokenIds(t, ids).is = "ok" =>
              /\ RemoveTokenIds(t, ids).value \in Token
              /\ SamePermits(t, RemoveTokenIds(t, ids).value)
<1>1. t.balance \in Nat /\ t.ids \in [Ids -> Nat]
  BY InstructionConstants, SMTT(60) DEF Token, Uint
<1>2. \A f \in [Ids -> Nat] : /\ [t EXCEPT !.ids = f] \in Token
                              /\ [t EXCEPT !.ids = f].balance = t.balance
                              /\ [t EXCEPT !.ids = f].ids = f
                              /\ SamePermits(t, [t EXCEPT !.ids = f])
  BY DEF Token, SamePermits
<1> DEFINE more == [i \in Ids |-> IF i \in ids THEN t.ids[i] + 1 ELSE t.ids[i]]
           less == [i \in Ids |-> IF i \in ids THEN 0 ELSE t.ids[i]]
<1>3. more \in [Ids -> Nat] /\ less \in [Ids -> Nat]
  BY <1>1, SMTT(60)
<1>4. \A i \in Ids : t.ids[i] > 0 => more[i] > 0
  BY <1>1, SMTT(60)
<1>5. AddTokenIds(t, ids) = [t EXCEPT !.ids = more]
  BY DEF AddTokenIds
<1>6. RemoveTokenIds(t, ids) \in {Err, Ok([t EXCEPT !.ids = less])}
  BY DEF RemoveTokenIds
<1> HIDE DEF more, less
<1>7. Unmoved(t, AddTokenIds(t, ids))
  BY <1>1, <1>2, <1>3, <1>4, <1>5, SMTT(60) DEF Unmoved
<1> QED
  BY <1>2, <1>3, <1>5, <1>6, <1>7, SMTT(60) DEF Err, Ok

\* Storing a token in an account leaves the others in it alone.
LEMMA WithTokenFacts ==
  ASSUME NEW x \in Account, NEW token \in Addresses, NEW t \in Token
  PROVE  LET y == [x EXCEPT !.programs = Put(@, token, t)]
         IN /\ Heir(x, y) /\ Holds(y, token) /\ y.programs[token] = t
            /\ \A k \in Addresses : k # token => y.programs[k] = x.programs[k]
<1>1. x.programs \in [Addresses -> Token \union {None}]
  BY DEF Account, Maps
<1> DEFINE p == Put(x.programs, token, t)
<1>2. /\ p \in [Addresses -> Token \union {None}] /\ p[token] = t
      /\ \A k \in Addresses : k # token => p[k] = x.programs[k]
  BY <1>1, ZenonT(60) DEF Put
<1>3. \A q \in Maps(Addresses, Token) :
         Heir(x, [x EXCEPT !.programs = q]) /\ [x EXCEPT !.programs = q].programs = q
  BY DEF Account, Heir
<1> HIDE DEF p
<1>4. Heir(x, [x EXCEPT !.programs = p]) /\ [x EXCEPT !.programs = p].programs = p
  BY <1>2, <1>3, ZenonT(60) DEF Maps
<1>5. t # None
  BY NoneIsNoValue, ZenonT(60)
<1> QED
  BY <1>2, <1>4, <1>5, ZenonT(60) DEF Holds, p

\* A token made from the account of its program is a token.
LEMMA NewTokenFacts ==
  ASSUME NEW program, program # None => program \in Account
  PROVE  NewToken(program) \in Token
<1>1. Empty(Keys) \in Data /\ Empty(Addresses) \in Maps(Addresses, SUBSET Ids)
        /\ Empty(Addresses) \in Maps(Addresses, Uint)
  BY DEF Empty, Data, Maps
<1>2. program # None => program.data \in Data /\ program.metadata \in Data
  BY ZenonT(60) DEF Account
<1>3. 0 \in Uint
  BY InstructionConstants, SMTT(60) DEF Uint
<1> QED
  BY <1>1, <1>2, <1>3, ZenonT(60) DEF NewToken, Token

\* The account with t as its token.
LEMMA PutFacts ==
  ASSUME NEW x \in Account, NEW token \in Addresses, NEW t \in Token
  PROVE  LET y == [x EXCEPT !.programs = Put(@, token, t)]
         IN /\ Heir(x, y)
            /\ \A k \in Addresses :
                 /\ (k # token \/ (Holds(x, token) => Unmoved(x.programs[token], t)))
                       => KeepsHoldings(x, y, k)
                 /\ (k # token \/ (Holds(x, token) => SamePermits(x.programs[token], t)))
                       => KeepsPermits(x, y, k)
<1> DEFINE y == [x EXCEPT !.programs = Put(@, token, t)]
<1>1. /\ Heir(x, y) /\ Holds(y, token) /\ y.programs[token] = t
      /\ \A k \in Addresses : k # token => y.programs[k] = x.programs[k]
  BY WithTokenFacts, SMTT(60)
<1> HIDE DEF y
<1>2. \A k \in Addresses : Holds(x, k) => Unmoved(x.programs[k], x.programs[k])
  <2>1. \A u \in Token : Unmoved(u, u)
    BY InstructionConstants, SMTT(60) DEF Unmoved, Token, Uint
  <2> QED
    BY <2>1, ZenonT(60) DEF Account, Maps, Holds
<1>3. /\ Heir(x, y)
      /\ \A k \in Addresses :
           /\ (k # token \/ (Holds(x, token) => Unmoved(x.programs[token], t)))
                 => KeepsHoldings(x, y, k)
           /\ (k # token \/ (Holds(x, token) => SamePermits(x.programs[token], t)))
                 => KeepsPermits(x, y, k)
  BY <1>1, <1>2, ZenonT(60) DEF KeepsHoldings, KeepsPermits, Holds, SamePermits
<1> QED
  BY <1>3, ZenonT(60) DEF y

\* The token an operation that makes one where there is none starts from.
HeldOr(x, token, program) == IF Holds(x, token) THEN x.programs[token] ELSE NewToken(program)

\* So is the one an account holds, or the new one when it holds none.
LEMMA HeldFacts ==
  ASSUME NEW x \in Account, NEW token \in Addresses,
         NEW program, program # None => program \in Account
  PROVE  HeldOr(x, token, program) \in Token
  BY NewTokenFacts, ZenonT(60) DEF Account, Maps, Holds, HeldOr

\* The receiver of a transfer loses nothing and lets nobody else spend.
LEMMA TransferToFacts ==
  ASSUME NEW x \in Account, NEW token \in Addresses, NEW amount \in Amounts,
         NEW ids \in SUBSET Ids, NEW program, program # None => program \in Account,
         ApplyTransferTo(x, token, amount, ids, program).is = "ok"
  PROVE  LET y == ApplyTransferTo(x, token, amount, ids, program).value
         IN /\ Heir(x, y)
            /\ \A k \in Addresses : KeepsHoldings(x, y, k) /\ KeepsPermits(x, y, k)
<1> DEFINE held == HeldOr(x, token, program)
           credited == Credit(held, amount)
           t == AddTokenIds(credited.value, ids)
<1>1. held \in Token
  BY HeldFacts, ZenonT(60)
<1>2. ApplyTransferTo(x, token, amount, ids, program) =
        IF credited.is = "ok" THEN Ok([x EXCEPT !.programs = Put(@, token, t)]) ELSE credited
  BY DEF ApplyTransferTo, HeldOr, WithToken, Then, Ok
<1> HIDE DEF held
<1>3. credited.is = "ok"
  BY <1>2, ZenonT(60)
<1>4. /\ credited.value \in Token /\ Unmoved(held, credited.value)
      /\ SamePermits(held, credited.value)
  BY <1>1, <1>3, CreditFacts, ZenonT(60)
<1>5. ApplyTransferTo(x, token, amount, ids, program).value
        = [x EXCEPT !.programs = Put(@, token, t)]
  BY <1>2, <1>3, SMTT(60) DEF Ok
<1> HIDE DEF credited
<1>6. t \in Token /\ Unmoved(held, t) /\ SamePermits(held, t)
  BY <1>1, <1>4, IdsFacts, UnmovedTwice, SMTT(60) DEF SamePermits
<1> HIDE DEF t
<1>7. Holds(x, token) => Unmoved(x.programs[token], t) /\ SamePermits(x.programs[token], t)
  BY <1>6, ZenonT(60) DEF held, HeldOr
<1> QED
  BY <1>5, <1>6, <1>7, PutFacts, SMTT(60)

\* The sender of a transfer holds the token, and loses no other.
LEMMA TransferFromFacts ==
  ASSUME NEW x \in Account, NEW token \in Addresses, NEW amount \in Amounts,
         NEW ids \in SUBSET Ids, ApplyTransferFrom(x, token, amount, ids).is = "ok"
  PROVE  LET y == ApplyTransferFrom(x, token, amount, ids).value
         IN /\ Heir(x, y) /\ Holds(x, token)
            /\ \A k \in Addresses : KeepsPermits(x, y, k) /\ (k # token => KeepsHoldings(x, y, k))
<1> DEFINE held == x.programs[token]
           debited == Debit(held, amount)
           removed == RemoveTokenIds(debited.value, ids)
<1>1. Holds(x, token)
  BY DEF ApplyTransferFrom, Err
<1>2. held \in Token
  BY <1>1, ZenonT(60) DEF Account, Maps, Holds
<1>3. ApplyTransferFrom(x, token, amount, ids) =
        IF debited.is = "ok"
        THEN IF removed.is = "ok" THEN Ok([x EXCEPT !.programs = Put(@, token, removed.value)])
             ELSE removed
        ELSE debited
  BY <1>1, ZenonT(60) DEF ApplyTransferFrom, WithToken, Then
<1>4. debited.is = "ok" /\ removed.is = "ok"
  BY <1>3, ZenonT(60)
<1>5. debited.value \in Token /\ SamePermits(held, debited.value)
  BY <1>2, <1>4, DebitFacts, ZenonT(60)
<1>6. ApplyTransferFrom(x, token, amount, ids).value
        = [x EXCEPT !.programs = Put(@, token, removed.value)]
  BY <1>3, <1>4, SMTT(60) DEF Ok
<1> HIDE DEF debited, held
<1>7. removed.value \in Token /\ SamePermits(held, removed.value)
  BY <1>4, <1>5, IdsFacts, ZenonT(60) DEF SamePermits
<1> HIDE DEF removed
<1> QED
  BY <1>1, <1>6, <1>7, PutFacts, SMTT(60) DEF held

\* A distribution takes nothing from the account it is made to.
LEMMA DistributionFacts ==
  ASSUME NEW x \in Account, NEW token \in Addresses, NEW amount \in Amounts,
         NEW ids \in SUBSET Ids, NEW updates, IsList(updates),
         \A f \in DOMAIN updates : IsTokenUpdate(updates[f]),
         NEW program, program # None => program \in Account,
         ApplyTokenDistribution(x, token, amount, ids, updates, program).is = "ok"
  PROVE  LET y == ApplyTokenDistribution(x, token, amount, ids, updates, program).value
         IN /\ Heir(x, y)
            /\ \A k \in Addresses : KeepsHoldings(x, y, k) /\ (k # token => KeepsPermits(x, y, k))
<1> DEFINE held == HeldOr(x, token, program)
           credited == Credit(held, amount)
           added == AddTokenIds(credited.value, ids)
           updated == ApplyTokenUpdates(added, updates)
<1>1. held \in Token
  BY HeldFacts, ZenonT(60)
<1>2. ApplyTokenDistribution(x, token, amount, ids, updates, program) =
        IF credited.is = "ok"
        THEN IF updated.is = "ok" THEN Ok([x EXCEPT !.programs = Put(@, token, updated.value)])
             ELSE updated
        ELSE credited
  BY ZenonT(60) DEF ApplyTokenDistribution, HeldOr, WithToken, Then
<1> HIDE DEF held
<1>3. credited.is = "ok" /\ updated.is = "ok"
  BY <1>2, ZenonT(60)
<1>4. credited.value \in Token /\ Unmoved(held, credited.value)
  BY <1>1, <1>3, CreditFacts, ZenonT(60)
<1>5. ApplyTokenDistribution(x, token, amount, ids, updates, program).value
        = [x EXCEPT !.programs = Put(@, token, updated.value)]
  BY <1>2, <1>3, SMTT(60) DEF Ok
<1> HIDE DEF credited
<1>6. added \in Token /\ Unmoved(held, added)
  BY <1>1, <1>4, IdsFacts, UnmovedTwice, ZenonT(60)
<1> HIDE DEF added
<1>7. updated.value \in Token /\ SameHoldings(added, updated.value)
  BY <1>3, <1>6, UpdatesFacts, ZenonT(60)
<1> HIDE DEF updated
<1>8. Unmoved(held, updated.value)
  BY <1>6, <1>7, ZenonT(60) DEF Unmoved, SameHoldings
<1>9. Holds(x, token) => Unmoved(x.programs[token], updated.value)
  BY <1>8, ZenonT(60) DEF held, HeldOr
<1> QED
  BY <1>5, <1>7, <1>9, PutFacts, SMTT(60)

\* The update of a token takes nothing from the account it is made to.
LEMMA TokenUpdateFacts ==
  ASSUME NEW x \in Account, NEW token \in Addresses, NEW updates, IsList(updates),
         \A f \in DOMAIN updates : IsTokenUpdate(updates[f]),
         NEW program, program # None => program \in Account,
         ApplyTokenUpdate(x, token, updates, program).is = "ok"
  PROVE  LET y == ApplyTokenUpdate(x, token, updates, program).value
         IN /\ Heir(x, y)
            /\ \A k \in Addresses :
                 /\ KeepsHoldings(x, y, k)
                 /\ k # token \/ ~TouchesPermits(updates) => KeepsPermits(x, y, k)
<1> DEFINE held == HeldOr(x, token, program)
           updated == ApplyTokenUpdates(held, updates)
<1>1. held \in Token
  BY HeldFacts, ZenonT(60)
<1>2. ApplyTokenUpdate(x, token, updates, program) =
        IF updated.is = "ok" THEN Ok([x EXCEPT !.programs = Put(@, token, updated.value)])
        ELSE updated
  BY ZenonT(60) DEF ApplyTokenUpdate, HeldOr, WithToken, Then
<1> HIDE DEF held
<1>3. updated.is = "ok"
  BY <1>2, ZenonT(60)
<1>4. ApplyTokenUpdate(x, token, updates, program).value
        = [x EXCEPT !.programs = Put(@, token, updated.value)]
  BY <1>2, <1>3, SMTT(60) DEF Ok
<1>5. /\ updated.value \in Token /\ SameHoldings(held, updated.value)
      /\ ~TouchesPermits(updates) => SamePermits(held, updated.value)
  BY <1>1, <1>3, UpdatesFacts, ZenonT(60)
<1> HIDE DEF updated
<1>6. Unmoved(held, updated.value)
  <2>1. held.balance \in Nat
    BY <1>1, InstructionConstants, SMTT(60) DEF Token, Uint
  <2> QED
    BY <1>5, <2>1, SMTT(60) DEF Unmoved, SameHoldings
<1>7. Holds(x, token) => /\ Unmoved(x.programs[token], updated.value)
                         /\ ~TouchesPermits(updates) => SamePermits(x.programs[token], updated.value)
  BY <1>5, <1>6, ZenonT(60) DEF held, HeldOr
<1> QED
  BY <1>4, <1>5, <1>7, PutFacts, SMTT(60)

-----------------------------------------------------------------------------
(* What an operation of the batcher leaves of the accounts it reads. *)

\* apply_transfer_instruction: what becomes of the two accounts.
LEMMA TransferFacts ==
  ASSUME NEW call, call.to \in Addresses, call.from \in Addresses,
         NEW o, IsTransfer(o), NEW read, Found(call, o, read),
         ApplyOperation(call, o, read).is = "ok"
  PROVE  LET value == ApplyOperation(call, o, read).value
         IN /\ value = <<value[1], value[2]>> /\ read[1] # None
            /\ Becomes(call, o, 1, read[1], value[1])
            /\ Becomes(call, o, 2, read[2], value[2])
<1> DEFINE R(name, b) == [name |-> Resolve(call, name), buffered |-> b]
<1>1. /\ Reads(call, o) = <<R(o.from, TRUE), R(o.to, TRUE), R(o.token, FALSE)>>
      /\ ApplyOperation(call, o, read) = ApplyTransferInstruction(o, read[1], read[2], read[3])
      /\ o.is = "Transfer"
  BY Zenon DEF IsTransfer, Reads, ApplyOperation
<1>2. /\ o.token \in Addresses /\ o.from \in Names /\ o.to \in Names
      /\ o.amount \in Amounts /\ o.ids \in SUBSET Ids
  BY ZenonT(60) DEF IsTransfer, Amounts
<1>3. /\ read[1] # None => read[1] \in Account /\ read[1].self = Resolve(call, o.from)
      /\ read[2] # None => read[2] \in Account /\ read[2].self = Resolve(call, o.to)
      /\ read[3] # None => read[3] \in Account
      /\ Reads(call, o)[1] = R(o.from, TRUE) /\ Reads(call, o)[2] = R(o.to, TRUE)
  BY <1>1, SMTT(60) DEF Found
<1> DEFINE x1 == read[1]
           x2 == read[2]
           program == read[3]
           debited == ApplyTransferFrom(x1, o.token, o.amount, o.ids)
           credited == TransferTo(o, x2, program)
           made == IF x2 = None THEN FreshUser(o.to) ELSE x2
<1> HIDE DEF x1, x2, program
<1>4. ApplyOperation(call, o, read) =
        IF x1 = None THEN Err
        ELSE IF debited.is = "ok"
             THEN IF credited.is = "ok" THEN Ok(<<debited.value, credited.value>>) ELSE credited
             ELSE debited
  BY <1>1, ZenonT(60) DEF ApplyTransferInstruction, Then, x1, x2, program
<1>5. /\ x1 # None /\ debited.is = "ok" /\ credited.is = "ok"
      /\ ApplyOperation(call, o, read).value = <<debited.value, credited.value>>
  BY <1>4, SMTT(60) DEF Err, Ok
<1>6. Becomes(call, o, 1, x1, debited.value)
  <2>1. x1 \in Account /\ x1.self = Resolve(call, o.from)
    BY <1>3, <1>5, ZenonT(60) DEF x1
  <2>2. /\ Heir(x1, debited.value)
        /\ \A k \in Addresses : /\ KeepsPermits(x1, debited.value, k)
                                /\ k # o.token => KeepsHoldings(x1, debited.value, k)
    BY <1>2, <1>5, <2>1, TransferFromFacts, ZenonT(60)
  <2> HIDE DEF debited
  <2> QED
    BY <1>1, <1>3, <1>5, <2>1, <2>2, SMTT(60) DEF Becomes, Heir, MayTake
<1>7. Becomes(call, o, 2, x2, credited.value)
  <2>1. /\ ~(x2 = None /\ o.to \in {This, Namespace})
        /\ credited = ApplyTransferTo(made, o.token, o.amount, o.ids, program)
    BY <1>5, ZenonT(60) DEF TransferTo, Err
  <2>2. x2 = None => o.to \in Addresses /\ Resolve(call, o.to) = o.to
    BY <1>2, <2>1, NamesFacts, ZenonT(60)
  <2>3. Empty(Keys) \in Data
    BY DEF Empty, Data, Maps
  <2>4. /\ made \in Account /\ made.self = Resolve(call, o.to)
        /\ x2 = None => made.owner = made.self
    BY <1>3, <2>2, <2>3, FreshFacts, ZenonT(60) DEF x2
  <2>5. program # None => program \in Account
    BY <1>3, ZenonT(60) DEF program
  <2> HIDE DEF credited, made
  <2>6. /\ Heir(made, credited.value)
        /\ \A k \in Addresses : /\ KeepsPermits(made, credited.value, k)
                                /\ KeepsHoldings(made, credited.value, k)
    BY <1>2, <1>5, <2>1, <2>4, <2>5, TransferToFacts, ZenonT(60)
  <2>7. x2 # None => made = x2
    BY ZenonT(60) DEF made
  <2> QED
    BY <1>3, <2>4, <2>6, <2>7, SMTT(60) DEF Becomes, Heir
<1> QED
  BY <1>5, <1>6, <1>7, SMTT(60) DEF x1, x2

\* apply_burn_instruction: what becomes of the account.
LEMMA BurnFacts ==
  ASSUME NEW call, call.to \in Addresses, call.from \in Addresses,
         NEW o, IsBurn(o), NEW read, Found(call, o, read),
         ApplyOperation(call, o, read).is = "ok"
  PROVE  LET value == ApplyOperation(call, o, read).value
         IN /\ value = <<value[1]>> /\ read[1] # None
            /\ Becomes(call, o, 1, read[1], value[1])
<1>1. /\ Reads(call, o) = <<[name |-> Resolve(call, o.from), buffered |-> TRUE]>>
      /\ ApplyOperation(call, o, read) = ApplyBurnInstruction(o, read[1])
      /\ o.is = "Burn"
  BY Zenon DEF IsBurn, Reads, ApplyOperation
<1>2. o.token \in Addresses /\ o.amount \in Amounts /\ o.ids \in SUBSET Ids
  BY DEF IsBurn, Amounts
<1> DEFINE x == read[1]
           burnt == ApplyTransferFrom(x, o.token, o.amount, o.ids)
<1>3. /\ x # None => x \in Account /\ x.self = Resolve(call, o.from)
      /\ Reads(call, o)[1].name = Resolve(call, o.from) /\ Reads(call, o)[1].buffered
  BY <1>1, SMTT(60) DEF Found
<1> HIDE DEF x
<1>4. ApplyOperation(call, o, read) =
        IF x = None THEN Err ELSE IF burnt.is = "ok" THEN Ok(<<burnt.value>>) ELSE burnt
  BY <1>1, ZenonT(60) DEF ApplyBurnInstruction, ApplyBurn, Then, x
<1>5. /\ x # None /\ burnt.is = "ok"
      /\ ApplyOperation(call, o, read).value = <<burnt.value>>
  BY <1>4, SMTT(60) DEF Err, Ok
<1>6. /\ Heir(x, burnt.value)
      /\ \A k \in Addresses : /\ KeepsPermits(x, burnt.value, k)
                              /\ k # o.token => KeepsHoldings(x, burnt.value, k)
  BY <1>2, <1>3, <1>5, TransferFromFacts, ZenonT(60)
<1> HIDE DEF burnt
<1>7. Becomes(call, o, 1, x, burnt.value)
  BY <1>1, <1>3, <1>5, <1>6, ZenonT(60) DEF Becomes, Heir, MayTake
<1> QED
  BY <1>5, <1>7, SMTT(60) DEF x

\* apply_distribution: what becomes of the account.
LEMMA DistributedFacts ==
  ASSUME NEW call, call.to \in Addresses, call.from \in Addresses,
         NEW o, IsDistribution(o), NEW read, Found(call, o, read),
         ApplyOperation(call, o, read).is = "ok"
  PROVE  LET value == ApplyOperation(call, o, read).value
         IN value = <<value[1]>> /\ Becomes(call, o, 1, read[1], value[1])
<1> DEFINE R(name, b) == [name |-> Resolve(call, name), buffered |-> b]
<1>1. /\ Reads(call, o) = <<R(o.to, TRUE), R(o.program, FALSE)>>
      /\ ApplyOperation(call, o, read) = ApplyDistribution(call, o, read[1], read[2])
      /\ o.is = "Distribution"
  BY ZenonT(30) DEF IsDistribution, Reads, ApplyOperation
<1>2. /\ o.to \in Names /\ o.program \in Names /\ o.amount \in Amounts /\ o.ids \in SUBSET Ids
      /\ IsList(o.fields) /\ \A f \in DOMAIN o.fields : IsTokenUpdate(o.fields[f])
  BY ZenonT(60) DEF IsDistribution, Amounts
<1> DEFINE x == read[1]
           program == read[2]
           token == Resolve(call, o.program)
           fresh == IF o.to = This THEN FreshProgram(call.to, call.from, Empty(Keys))
                    ELSE FreshUser(o.to)
           made == IF x = None THEN fresh ELSE x
           given == ApplyTokenDistribution(made, token, o.amount, o.ids, o.fields, program)
<1>3. /\ x # None => x \in Account /\ x.self = Resolve(call, o.to)
      /\ program # None => program \in Account /\ program.self = token
      /\ Reads(call, o)[1].name = Resolve(call, o.to) /\ Reads(call, o)[1].buffered
  BY <1>1, SMTT(60) DEF Found
<1>4. ApplyOperation(call, o, read) =
        IF o.to = Namespace \/ program = None THEN Err
        ELSE IF given.is = "ok" THEN Ok(<<given.value>>) ELSE given
  BY <1>1, ZenonT(60) DEF ApplyDistribution, Then
<1> HIDE DEF x, program
<1>5. /\ o.to # Namespace /\ program # None /\ given.is = "ok"
      /\ ApplyOperation(call, o, read).value = <<given.value>>
  BY <1>4, SMTT(60) DEF Err, Ok
<1>6. token \in Addresses
  BY <1>3, <1>5, ZenonT(60) DEF Account
<1>7. Empty(Keys) \in Data
  BY DEF Empty, Data, Maps
<1>8. /\ fresh \in Account /\ fresh.self = Resolve(call, o.to)
      /\ fresh.owner = fresh.self \/ fresh.self = call.to
  <2>1. CASE o.to = This
    BY <2>1, <1>7, FreshFacts, ZenonT(60) DEF Resolve
  <2>2. CASE o.to # This
    <3>1. o.to \in Addresses /\ Resolve(call, o.to) = o.to
      BY <1>2, <1>5, <2>2, NamesFacts, ZenonT(60)
    <3> QED
      BY <2>2, <3>1, <1>7, FreshFacts, ZenonT(60)
  <2> QED
    BY <2>1, <2>2, ZenonT(60)
<1> HIDE DEF fresh
<1>9. /\ made \in Account /\ made.self = Resolve(call, o.to)
      /\ x = None => made.owner = made.self \/ made.self = call.to
      /\ x # None => made = x
  BY <1>3, <1>8, ZenonT(60)
<1> HIDE DEF made, token
<1>10. /\ Heir(made, given.value)
       /\ \A k \in Addresses : /\ KeepsHoldings(made, given.value, k)
                               /\ k # token => KeepsPermits(made, given.value, k)
  BY <1>2, <1>3, <1>5, <1>6, <1>9, DistributionFacts, ZenonT(60)
<1> HIDE DEF given
<1>11. Becomes(call, o, 1, x, given.value)
  BY <1>1, <1>3, <1>9, <1>10, ZenonT(60) DEF Becomes, Heir, MayPermit, token
<1> QED
  BY <1>5, <1>11, SMTT(60) DEF x

\* apply_token_update: what becomes of the account.
LEMMA TokenUpdatedFacts ==
  ASSUME NEW call, call.to \in Addresses, call.from \in Addresses,
         NEW o, IsUpdate(o), o.is = "Token", NEW read, Found(call, o, read),
         ApplyOperation(call, o, read).is = "ok"
  PROVE  LET value == ApplyOperation(call, o, read).value
         IN value = <<value[1]>> /\ Becomes(call, o, 1, read[1], value[1])
<1> DEFINE R(name, b) == [name |-> Resolve(call, name), buffered |-> b]
<1>1. /\ Reads(call, o) = <<R(o.account, TRUE), R(o.token, FALSE)>>
      /\ ApplyOperation(call, o, read) = ApplyTokenUpdateInstruction(call, o, read[1], read[2])
  BY ZenonT(30) DEF Reads, ApplyOperation
<1>2. /\ o.account \in Names /\ o.token \in Names
      /\ IsList(o.fields) /\ \A f \in DOMAIN o.fields : IsTokenUpdate(o.fields[f])
  BY ZenonT(60) DEF IsUpdate
<1> DEFINE x == read[1]
           program == read[2]
           token == Resolve(call, o.token)
           made == IF x = None THEN FreshUser(o.account) ELSE x
           updated == ApplyTokenUpdate(made, token, o.fields, program)
<1>3. /\ x # None => x \in Account /\ x.self = Resolve(call, o.account)
      /\ program # None => program \in Account /\ program.self = token
      /\ Reads(call, o)[1].name = Resolve(call, o.account) /\ Reads(call, o)[1].buffered
  BY <1>1, SMTT(60) DEF Found
<1>4. ApplyOperation(call, o, read) =
        IF o.account = Namespace \/ program = None \/ (x = None /\ o.account = This) THEN Err
        ELSE IF updated.is = "ok" THEN Ok(<<updated.value>>) ELSE updated
  BY <1>1, ZenonT(60) DEF ApplyTokenUpdateInstruction, Then
<1> HIDE DEF x, program
<1>5. /\ o.account # Namespace /\ program # None /\ updated.is = "ok"
      /\ ~(x = None /\ o.account = This)
      /\ ApplyOperation(call, o, read).value = <<updated.value>>
  BY <1>4, SMTT(60) DEF Err, Ok
<1>6. token \in Addresses
  BY <1>3, <1>5, ZenonT(60) DEF Account
<1>7. Empty(Keys) \in Data
  BY DEF Empty, Data, Maps
<1>8. x = None => o.account \in Addresses /\ Resolve(call, o.account) = o.account
  BY <1>2, <1>5, NamesFacts, ZenonT(60)
<1>9. /\ made \in Account /\ made.self = Resolve(call, o.account)
      /\ x = None => made.owner = made.self
      /\ x # None => made = x
  BY <1>3, <1>7, <1>8, FreshFacts, ZenonT(60)
<1> HIDE DEF made, token
<1>10. /\ Heir(made, updated.value)
       /\ \A k \in Addresses :
            /\ KeepsHoldings(made, updated.value, k)
            /\ k # token \/ ~TouchesPermits(o.fields) => KeepsPermits(made, updated.value, k)
  BY <1>2, <1>3, <1>5, <1>6, <1>9, TokenUpdateFacts, ZenonT(60)
<1> HIDE DEF updated
<1>11. Becomes(call, o, 1, x, updated.value)
  BY <1>1, <1>3, <1>9, <1>10, ZenonT(60) DEF Becomes, Heir, MayPermit, token
<1> QED
  BY <1>5, <1>11, SMTT(60) DEF x

\* apply_program_update: what becomes of the account.
LEMMA ProgramUpdatedFacts ==
  ASSUME NEW call, call.to \in Addresses, call.from \in Addresses,
         NEW o, IsUpdate(o), o.is = "ProgramUpdate", NEW read, Found(call, o, read),
         ApplyOperation(call, o, read).is = "ok"
  PROVE  LET value == ApplyOperation(call, o, read).value
         IN value = <<value[1]>> /\ Becomes(call, o, 1, read[1], value[1])
<1>1. /\ Reads(call, o) = <<[name |-> Resolve(call, o.account), buffered |-> TRUE]>>
      /\ ApplyOperation(call, o, read) = ApplyProgramUpdateInstruction(o, read[1])
  BY Zenon DEF Reads, ApplyOperation
<1>2. IsList(o.fields) /\ \A f \in DOMAIN o.fields : IsProgramUpdate(o.fields[f])
  BY ZenonT(60) DEF IsUpdate
<1> DEFINE x == read[1]
           y == ApplyProgramUpdates(x, o.fields)
<1>3. /\ x # None => x \in Account /\ x.self = Resolve(call, o.account)
      /\ Reads(call, o)[1].name = Resolve(call, o.account) /\ Reads(call, o)[1].buffered
  BY <1>1, SMTT(60) DEF Found
<1>4. ApplyOperation(call, o, read) =
        IF x = None THEN Err ELSE IF x.program THEN Ok(<<y>>) ELSE Err
  BY <1>1, ZenonT(60) DEF ApplyProgramUpdateInstruction, ApplyProgramUpdate, Then, Ok, Err
<1> HIDE DEF x
<1>5. x # None /\ ApplyOperation(call, o, read).value = <<y>>
  BY <1>4, SMTT(60) DEF Err, Ok
<1>6. y \in Account /\ SameAccount(x, y)
  BY <1>2, <1>3, <1>5, ProgramUpdatesFacts, ZenonT(60)
<1> HIDE DEF y
<1>7. \A k \in Addresses : KeepsHoldings(x, y, k) /\ KeepsPermits(x, y, k)
  <2>1. \A u \in Token : Unmoved(u, u)
    BY InstructionConstants, SMTT(60) DEF Unmoved, Token, Uint
  <2>2. \A k \in Addresses : Holds(x, k) => x.programs[k] \in Token
    BY <1>3, <1>5, ZenonT(60) DEF Account, Maps, Holds
  <2> QED
    BY <1>6, <2>1, <2>2, ZenonT(60) DEF KeepsHoldings, KeepsPermits, SamePermits, SameAccount, Holds
<1>8. Becomes(call, o, 1, x, y)
  BY <1>3, <1>5, <1>6, <1>7, ZenonT(60) DEF Becomes, Heir, SameAccount
<1> QED
  BY <1>5, <1>8, SMTT(60) DEF x

\* try_create_program_account: what becomes of the account.
LEMMA CreatedFacts ==
  ASSUME NEW call, call.to \in Addresses, call.from \in Addresses,
         NEW o, o.is = "Program", NEW read, Found(call, o, read)
  PROVE  LET value == ApplyOperation(call, o, read).value
         IN value = <<value[1]>> /\ Becomes(call, o, 1, read[1], value[1])
<1>1. /\ Reads(call, o) = <<[name |-> call.to, buffered |-> TRUE]>>
      /\ ApplyOperation(call, o, read) = TryCreateProgramAccount(call, read[1])
  BY Zenon DEF Reads, ApplyOperation, Resolve
<1> DEFINE x == read[1]
           y == IF x = None THEN FreshProgram(call.to, call.from, Empty(Keys)) ELSE x
<1>2. /\ x # None => x \in Account /\ x.self = call.to
      /\ Reads(call, o)[1].name = call.to /\ Reads(call, o)[1].buffered
  BY <1>1, SMTT(60) DEF Found
<1>3. ApplyOperation(call, o, read).value = <<y>>
  BY <1>1, SMTT(60) DEF TryCreateProgramAccount, Ok
<1> HIDE DEF x
<1>4. Empty(Keys) \in Data
  BY ZenonT(60) DEF Empty, Data, Maps
<1>5. y \in Account /\ y.self = call.to /\ (x # None => y = x)
  BY <1>2, <1>4, FreshFacts, ZenonT(60)
<1> HIDE DEF y
<1>6. x # None => \A k \in Addresses : KeepsHoldings(x, y, k) /\ KeepsPermits(x, y, k)
  <2>1. \A u \in Token : Unmoved(u, u)
    BY InstructionConstants, SMTT(60) DEF Unmoved, Token, Uint
  <2>2. x # None => \A k \in Addresses : Holds(x, k) => x.programs[k] \in Token
    BY <1>2, ZenonT(60) DEF Account, Maps, Holds
  <2> QED
    BY <1>5, <2>1, <2>2, ZenonT(60) DEF KeepsHoldings, KeepsPermits, SamePermits
<1>7. Becomes(call, o, 1, x, y)
  BY <1>2, <1>5, <1>6, ZenonT(60) DEF Becomes, Heir
<1> QED
  BY <1>3, <1>7, SMTT(60) DEF x

\* Every operation that succeeds gives one or two accounts, each made of one it read.
LEMMA OperationFacts ==
  ASSUME NEW call, call.to \in Addresses, call.from \in Addresses,
         NEW o, IsOperation(o), NEW read, Found(call, o, read),
         ApplyOperation(call, o, read).is = "ok"
  PROVE  LET value == ApplyOperation(call, o, read).value
         IN /\ value = <<value[1]>> \/ value = <<value[1], value[2]>>
            /\ \A n \in DOMAIN value : /\ n \in 1..Len(Reads(call, o))
                                      /\ Becomes(call, o, n, read[n], value[n])
<1> DEFINE value == ApplyOperation(call, o, read).value
<1>1. \A z : z = <<z[1]>> => DOMAIN z = {1}
  BY SMTT(60)
<1>2. \A z : z = <<z[1], z[2]>> => DOMAIN z = {1, 2}
  OBVIOUS
<1>3. CASE IsTransfer(o)
  <2>1. value = <<value[1], value[2]>> /\ Becomes(call, o, 1, read[1], value[1])
          /\ Becomes(call, o, 2, read[2], value[2])
    BY <1>3, TransferFacts, ZenonT(60)
  <2>2. Len(Reads(call, o)) = 3
    BY <1>3, ZenonT(60) DEF Reads, IsTransfer
  <2> HIDE DEF value
  <2>3. DOMAIN value = {1, 2}
    BY <2>1, <1>2, ZenonT(60)
  <2>4. \A n \in DOMAIN value : n \in 1..Len(Reads(call, o)) /\ Becomes(call, o, n, read[n], value[n])
    BY <2>1, <2>2, <2>3, SMTT(60)
  <2> QED
    BY <2>1, <2>4, ZenonT(60) DEF value
<1>4. CASE ~IsTransfer(o)
  <2>1. value = <<value[1]>> /\ Becomes(call, o, 1, read[1], value[1])
    BY <1>4, BurnFacts, DistributedFacts, TokenUpdatedFacts, ProgramUpdatedFacts, CreatedFacts, SMTT(60)
       DEF IsOperation, IsUpdate
  <2>2. Len(Reads(call, o)) = 1 \/ Len(Reads(call, o)) = 2
    <3>1. o.is \in {"Burn", "Distribution", "Program", "Token", "ProgramUpdate"}
      BY <1>4, ZenonT(60) DEF IsOperation, IsBurn, IsDistribution, IsUpdate
    <3> QED
      BY <3>1, ZenonT(60) DEF Reads
  <2> HIDE DEF value
  <2>3. DOMAIN value = {1}
    BY <2>1, <1>1, ZenonT(60)
  <2>5. 1 \in 1..Len(Reads(call, o))
    <3> DEFINE L == Len(Reads(call, o))
    <3> HIDE DEF L
    <3>1. L = 1 \/ L = 2
      BY <2>2, ZenonT(60) DEF L
    <3>2. 1 \in 1..L
      BY <3>1, SMTT(60)
    <3> QED
      BY <3>2, ZenonT(60) DEF L
  <2>6. Becomes(call, o, 1, read[1], value[1])
    BY <2>1, ZenonT(60)
  <2>4. \A n \in DOMAIN value : n \in 1..Len(Reads(call, o)) /\ Becomes(call, o, n, read[n], value[n])
    BY <2>3, <2>5, <2>6, ZenonT(60)
  <2> QED
    BY <2>1, <2>4, ZenonT(60) DEF value
<1> QED
  BY <1>3, <1>4, ZenonT(60)

-----------------------------------------------------------------------------
(* The operations of a call. *)

\* What an instruction is split into are operations that come from it.
LEMMA OperationsOfFacts ==
  ASSUME NEW i, IsInstruction(i)
  PROVE  /\ OperationsOf(i) \in Seq(Range(OperationsOf(i)))
         /\ \A o \in Range(OperationsOf(i)) : IsOperation(o) /\ ComesFrom(o, i)
<1>1. CASE IsTransfer(i) \/ IsBurn(i)
  <2>1. OperationsOf(i) = <<i>>
    BY <1>1, ZenonT(60) DEF IsTransfer, IsBurn, OperationsOf
  <2>2. Range(<<i>>) = {i}
    BY SMTT(60) DEF Range
  <2>3. IsOperation(i) /\ ComesFrom(i, i)
    BY <1>1 DEF IsOperation, ComesFrom, IsTransfer, IsBurn
  <2> QED
    BY <2>1, <2>2, <2>3, SMTT(60)
<1>2. CASE i.is = "Create"
  <2> DEFINE ds == i.distributions
             p == [is |-> "Program"]
  <2>1. /\ OperationsOf(i) = ds \o <<p>> /\ ds \in Seq(Range(ds))
        /\ \A d \in DOMAIN ds : IsDistribution(ds[d])
    BY <1>2, ZenonT(60) DEF OperationsOf, IsInstruction, IsTransfer, IsBurn, IsList
  <2>2. p.is = "Program"
    BY ZenonT(60)
  <2> HIDE DEF ds, p
  <2>3. \A k \in DOMAIN (ds \o <<p>>) : (ds \o <<p>>)[k] = p \/ \E d \in DOMAIN ds : (ds \o <<p>>)[k] = ds[d]
    BY <2>1, SMTT(60)
  <2>4. ds \o <<p>> \in Seq(Range(ds) \union {p})
    BY <2>1, SMTT(60)
  <2>5. DOMAIN (ds \o <<p>>) = 1..Len(ds \o <<p>>) /\ Len(ds \o <<p>>) \in Nat
    BY <2>4, SMTT(60)
  <2>6. ds \o <<p>> \in Seq(Range(ds \o <<p>>))
    <3> DEFINE s == ds \o <<p>>
    <3> HIDE DEF s
    <3>1. s \in Seq(Range(ds) \union {p}) /\ DOMAIN s = 1..Len(s) /\ Len(s) \in Nat
      BY <2>4, <2>5, ZenonT(60) DEF s
    <3>2. \A k \in 1..Len(s) : s[k] \in Range(s)
      BY <3>1, ZenonT(60) DEF Range
    <3>3. s \in Seq(Range(s))
      BY <3>1, <3>2, SMTT(60)
    <3> QED
      BY <3>3, ZenonT(60) DEF s
  <2>7. \A o : o = p \/ IsDistribution(o) => IsOperation(o) /\ ComesFrom(o, i)
    BY <2>2, ZenonT(60) DEF IsOperation, ComesFrom, IsDistribution
  <2>8. \A o \in Range(ds \o <<p>>) : o = p \/ IsDistribution(o)
    BY <2>1, <2>3, ZenonT(60) DEF Range
  <2> QED
    BY <2>1, <2>6, <2>7, <2>8, ZenonT(60)
<1>3. CASE i.is = "Update"
  <2>1. OperationsOf(i) = i.updates /\ IsList(i.updates) /\ \A u \in DOMAIN i.updates : IsUpdate(i.updates[u])
    BY <1>3, ZenonT(60) DEF OperationsOf, IsInstruction, IsTransfer, IsBurn
  <2>2. \A u \in DOMAIN i.updates : IsOperation(i.updates[u]) /\ ComesFrom(i.updates[u], i)
    BY <1>3, <2>1, ZenonT(60) DEF IsOperation, ComesFrom, IsUpdate
  <2> QED
    BY <2>1, <2>2, ZenonT(60) DEF IsList, Range
<1>4. CASE i.is = "Log"
  BY <1>4, SMTT(60) DEF OperationsOf, Range
<1> QED
  BY <1>1, <1>2, <1>3, <1>4, ZenonT(60) DEF IsInstruction

IsGathering(call, m, of) ==
    of = [n \in 0..m |-> IF n = 0 THEN <<>> ELSE of[n - 1] \o OperationsOf(call.instructions[n])]

\* The operations of a call are those of its instructions, one after the other.
LEMMA OperationsUnfold ==
  ASSUME NEW call, Len(call.instructions) \in Nat
  PROVE  \E of : /\ of[0] = <<>>
                 /\ \A n \in 1..Len(call.instructions) :
                       of[n] = of[n - 1] \o OperationsOf(call.instructions[n])
                 /\ Operations(call) = of[Len(call.instructions)]
<1> DEFINE Good == {m \in Nat : \E of : IsGathering(call, m, of)}
<1>1. 0 \in Good
  <2> DEFINE g == [n \in 0..0 |-> <<>>]
  <2>1. IsGathering(call, 0, g)
    BY DEF IsGathering
  <2> QED
    BY <2>1, ZenonT(60)
<1>2. ASSUME NEW m \in Nat, m \in Good
      PROVE  m + 1 \in Good
  <2>1. PICK f : IsGathering(call, m, f)
    BY <1>2, ZenonT(60)
  <2> DEFINE g == [n \in 0..(m + 1) |->
                     IF n = m + 1 THEN f[m] \o OperationsOf(call.instructions[n]) ELSE f[n]]
  <2>2. IsGathering(call, m + 1, g)
    BY <2>1, SMTT(60) DEF IsGathering
  <2> QED
    BY <2>2
<1>3. Len(call.instructions) \in Good
  <2> HIDE DEF Good
  <2> QED
    BY <1>1, <1>2, Counting, ZenonT(60)
<1> DEFINE of == CHOOSE of : IsGathering(call, Len(call.instructions), of)
<1>4. IsGathering(call, Len(call.instructions), of)
  BY <1>3, ZenonT(60)
<1>5. Operations(call) = of[Len(call.instructions)]
  BY ZenonT(60) DEF Operations, IsGathering
<1> HIDE DEF of
<1> QED
  BY <1>4, <1>5, SMTT(60) DEF IsGathering

\* The operations of a call are those of its instructions.
LEMMA OperationsFacts ==
  ASSUME NEW call, IsCall(call)
  PROVE  /\ Operations(call) \in Seq(OperationSet(call))
         /\ \A o \in OperationSet(call) :
               /\ IsOperation(o)
               /\ \E i \in DOMAIN call.instructions : ComesFrom(o, call.instructions[i])
<1> DEFINE L == Len(call.instructions)
           S == OperationSet(call)
<1>1. /\ L \in Nat /\ DOMAIN call.instructions = 1..L
      /\ \A i \in 1..L : IsInstruction(call.instructions[i])
  BY SMTT(60) DEF IsCall, IsList
<1>2. PICK of : /\ of[0] = <<>>
                /\ \A n \in 1..L : of[n] = of[n - 1] \o OperationsOf(call.instructions[n])
                /\ Operations(call) = of[L]
  BY <1>1, OperationsUnfold, Zenon
<1>3. \A n \in 1..L : OperationsOf(call.instructions[n]) \in Seq(S)
  <2> TAKE n \in 1..L
  <2> DEFINE s == OperationsOf(call.instructions[n])
  <2>1. s \in Seq(Range(s))
    BY <1>1, OperationsOfFacts, ZenonT(60)
  <2>2. Range(s) \subseteq S
    BY <1>1, ZenonT(60) DEF OperationSet
  <2> HIDE DEF s, S
  <2>3. s \in Seq(S)
    BY <2>1, <2>2, SMTT(60)
  <2> QED
    BY <2>3, ZenonT(60) DEF s
<1> DEFINE Good == {n \in Nat : n <= L => of[n] \in Seq(S)}
<1>4. 0 \in Good
  <2>1. of[0] = <<>>
    BY <1>2, ZenonT(60)
  <2> HIDE DEF S, L
  <2>2. <<>> \in Seq(S)
    BY SMTT(60)
  <2>3. of[0] \in Seq(S)
    BY <2>1, <2>2, Zenon
  <2> QED
    BY <2>3, ZenonT(60)
<1>5. ASSUME NEW n \in Nat, n \in Good
      PROVE  n + 1 \in Good
  <2> SUFFICES ASSUME n + 1 <= L
               PROVE  of[n + 1] \in Seq(S)
    BY SMTT(60)
  <2>1. of[n] \in Seq(S) /\ n + 1 \in 1..L
    BY <1>1, <1>5, SMTT(60)
  <2>2. of[n + 1] = of[n] \o OperationsOf(call.instructions[n + 1])
    <3>1. n + 1 - 1 = n
      OBVIOUS
    <3> DEFINE m == n + 1
    <3>3. m \in 1..L
      BY <2>1
    <3> HIDE DEF L, m
    <3>2. of[m] = of[m - 1] \o OperationsOf(call.instructions[m])
      BY <1>2, <3>3, Zenon
    <3>4. m - 1 = n
      BY <3>1, SMTT(60) DEF m
    <3>5. of[m] = of[n] \o OperationsOf(call.instructions[m])
      BY <3>2, <3>4, Zenon
    <3> QED
      BY <3>5, Zenon DEF m
  <2>3. OperationsOf(call.instructions[n + 1]) \in Seq(S)
    BY <1>3, <2>1, ZenonT(60)
  <2> HIDE DEF S
  <2> QED
    BY <2>1, <2>2, <2>3, SMTT(60)
<1>6. L \in Good
  <2> HIDE DEF Good, L
  <2> QED
    BY <1>1, <1>4, <1>5, Counting, ZenonT(60)
<1>7. \A o \in S : \E i \in 1..L : o \in Range(OperationsOf(call.instructions[i]))
  BY <1>1, ZenonT(60) DEF OperationSet
<1>8. \A o \in S : IsOperation(o) /\ \E i \in 1..L : ComesFrom(o, call.instructions[i])
  BY <1>1, <1>7, OperationsOfFacts, ZenonT(60)
<1> QED
  BY <1>1, <1>2, <1>6, <1>8, SMTT(60)

-----------------------------------------------------------------------------
(* What the operations of a call do to the accounts, one after the other. *)

IsPerforming(call, accounts, m, after) ==
    after = [n \in 0..m |-> IF n = 0 THEN Ok(accounts)
                            ELSE PerformStep(call, accounts, after[n - 1], n)]

\* Performing a call goes from operation to operation.
LEMMA PerformingUnfold ==
  ASSUME NEW call, NEW accounts, Len(Operations(call)) \in Nat
  PROVE  /\ Performing(call, accounts)[0] = Ok(accounts)
         /\ \A n \in 1..Len(Operations(call)) :
               Performing(call, accounts)[n]
                 = PerformStep(call, accounts, Performing(call, accounts)[n - 1], n)
<1> DEFINE Good == {m \in Nat : \E after : IsPerforming(call, accounts, m, after)}
<1>1. 0 \in Good
  <2> DEFINE g == [n \in 0..0 |-> Ok(accounts)]
  <2>1. IsPerforming(call, accounts, 0, g)
    BY SMTT(60) DEF IsPerforming
  <2> QED
    BY <2>1, ZenonT(60)
<1>2. ASSUME NEW m \in Nat, m \in Good
      PROVE  m + 1 \in Good
  <2>1. PICK f : IsPerforming(call, accounts, m, f)
    BY <1>2, ZenonT(60)
  <2> DEFINE g == [n \in 0..(m + 1) |->
                     IF n = m + 1 THEN PerformStep(call, accounts, f[m], n) ELSE f[n]]
  <2>2. IsPerforming(call, accounts, m + 1, g)
    BY <2>1, SMTT(60) DEF IsPerforming
  <2> QED
    BY <2>2, SMTT(60)
<1>3. Len(Operations(call)) \in Good
  <2> HIDE DEF Good
  <2> QED
    BY <1>1, <1>2, Counting, ZenonT(60)
<1> DEFINE after == CHOOSE after : IsPerforming(call, accounts, Len(Operations(call)), after)
<1>4. IsPerforming(call, accounts, Len(Operations(call)), after)
  BY <1>3, ZenonT(60)
<1>5. Performing(call, accounts) = after
  BY DEF Performing, IsPerforming, PerformStep, Then
<1> HIDE DEF after
<1> QED
  BY <1>4, <1>5, SMTT(60) DEF IsPerforming

\* An operation that fails is the last one performed.
LEMMA FailureEnds ==
  ASSUME NEW call, NEW accounts, Len(Operations(call)) \in Nat,
         NEW n \in 0..Len(Operations(call)), Performing(call, accounts)[n].is # "ok"
  PROVE  Performed(call, accounts) = Performing(call, accounts)[n]
<1> DEFINE L == Len(Operations(call))
           after == Performing(call, accounts)
           Good == {m \in Nat : n + m <= L => after[n + m] = after[n]}
<1>1. \A m \in 1..L : after[m - 1].is # "ok" => after[m] = after[m - 1]
  BY PerformingUnfold, SMTT(60) DEF PerformStep
<1> HIDE DEF L, after
<1>2. L \in Nat /\ n \in 0..L /\ after[n].is # "ok"
  BY DEF L, after
<1>3. 0 \in Good
  BY <1>2, SMTT(60)
<1>4. ASSUME NEW m \in Nat, m \in Good
      PROVE  m + 1 \in Good
  <2> SUFFICES ASSUME n + (m + 1) <= L PROVE after[n + (m + 1)] = after[n]
    BY SMTT(60)
  <2> DEFINE k == n + (m + 1)
  <2>1. k \in 1..L /\ k - 1 = n + m /\ n + m <= L
    BY <1>2, SMTT(60)
  <2>2. after[n + m] = after[n]
    BY <1>4, <2>1, ZenonT(60)
  <2> HIDE DEF k
  <2>3. after[k] = after[k - 1] /\ after[k - 1] = after[n]
    BY <1>1, <1>2, <2>1, <2>2, ZenonT(60)
  <2> QED
    BY <2>3, ZenonT(60) DEF k
<1>5. L - n \in Good
  <2>1. L - n \in Nat
    BY <1>2, SMTT(60)
  <2> HIDE DEF Good
  <2> QED
    BY <1>3, <1>4, <2>1, Counting, ZenonT(60)
<1>6. n + (L - n) = L /\ L - n \in Nat
  BY <1>2, SMTT(60)
<1>7. after[L] = after[n]
  BY <1>2, <1>5, <1>6, SMTT(60)
<1> QED
  BY <1>7, ZenonT(60) DEF Performed, L, after

\* The operators of Instructions and CallRules are as CallStepsProofs takes them to be.
LEMMA CallRulesHold ==
  RulesHold
<1>1. OperationsBecome
  BY OperationFacts, SMTT(60) DEF OperationsBecome
<1>2. OperationsCome
  BY OperationsFacts, ZenonT(60) DEF OperationsCome
<1>3. OperationsPerform
  <2> SUFFICES ASSUME NEW call, NEW accounts, Len(Operations(call)) \in Nat
               PROVE  /\ Performing(call, accounts)[0] = Ok(accounts)
                      /\ \A n \in 1..Len(Operations(call)) : Performing(call, accounts)[n]
                            = PerformStep(call, accounts, Performing(call, accounts)[n - 1], n)
                      /\ \A n \in 0..Len(Operations(call)) :
                            Performing(call, accounts)[n].is # "ok"
                              => Performed(call, accounts) = Performing(call, accounts)[n]
    BY Zenon DEF OperationsPerform
  <2>1. /\ Performing(call, accounts)[0] = Ok(accounts)
        /\ \A n \in 1..Len(Operations(call)) : Performing(call, accounts)[n]
              = PerformStep(call, accounts, Performing(call, accounts)[n - 1], n)
    BY PerformingUnfold, Zenon
  <2>2. \A n \in 0..Len(Operations(call)) :
           Performing(call, accounts)[n].is # "ok"
             => Performed(call, accounts) = Performing(call, accounts)[n]
    BY FailureEnds, Zenon
  <2> QED
    BY <2>1, <2>2, Zenon
<1> QED
  BY <1>1, <1>2, <1>3, Zenon DEF RulesHold

-----------------------------------------------------------------------------
(* What holds of the calls. *)

\* In every state an account is stored under its own address, in the account cache and in
\* the batch buffers, with balances and allowances within U256: whatever instructions a
\* program returns, whatever is read late, and whichever future goes on.
THEOREM CallsTypes ==
  Spec => []TypeOK
<1>1. TypeInv /\ [Next]_vars => TypeInv'
  BY CallRulesHold, TypeInvStep, ZenonT(60)
<1> QED
  BY <1>1, TypeInvInit, TypeInvTypes, PTL DEF Spec

\* The accounts are only changed by what was allowed before the call, while the batcher's
\* reads come in time: an account it does not get in time it makes anew.
THEOREM CallsInvariant ==
  ASSUME "applying" \notin LateReads
  PROVE  Spec => []CallsInv
<1>1. CallsInv /\ [Next]_vars => CallsInv'
  BY CallRulesHold, CallsInvStep, ZenonT(60)
<1> QED
  BY <1>1, CallsInvInit, PTL DEF Spec

\* No balance and no id leaves an account that did not let the caller, the program called
\* or the program a burn names spend it, as the accounts were when the batcher came to
\* write them back: validate_instructions checked accounts it had read earlier, one by one,
\* and each instruction on its own, whereas the batcher applies them one upon the other.
THEOREM CallsDebitsAreAuthorized ==
  ASSUME "applying" \notin LateReads
  PROVE  Spec => []DebitsAreAuthorized
  BY CallsInvariant, CallsInvAuthorized, PTL

\* Who may spend the tokens of an account changes in a call of its owner only, or with a
\* distribution of the token to it: what validate_token_update checks for approvals and
\* allowances holds of the accounts the batcher writes.
THEOREM CallsSpendersAreTheOwners ==
  ASSUME "applying" \notin LateReads
  PROVE  Spec => []SpendersAreTheOwners
  BY CallsInvariant, CallsInvSpenders, PTL

\* The validator and the batcher implement ProgramLedger, whatever the calls and the accounts,
\* while no two calls under way share an account and what the batcher reads comes in time.
\* A call is performed wholly or not at all, though the validator judged it on accounts that it
\* read one by one, the batcher applies its instructions one by one to a batch buffer, and
\* the buffer is written back account by account, unless the instructions of another call
\* panic in between, which ends the handler task before the call is answered; and it is refused
\* only for a reason of its own or for a late read.
THEOREM CallsImplementLedger ==
  ASSUME "applying" \notin LateReads
  PROVE  Spec => ImplementsProgramLedger
<1>1. LedgerInv /\ [Next]_vars => LedgerInv' /\ [Promise!Next]_(Promise!vars)
  BY CallRulesHold, LedgerStep, ZenonT(60)
<1> QED
  BY <1>1, LedgerInvInit, PTL DEF Spec, ImplementsProgramLedger, Promise!Spec
=============================================================================
