---------------------------- MODULE Instructions ----------------------------
(***************************************************************************)
(* The instructions a program run returns: what the validator demands of   *)
(* each (crates/actors/src/validator.rs) and what the batcher makes of the *)
(* accounts it names (batcher.rs, crates/types/src/account.rs, token.rs).  *)
(*                                                                         *)
(* Ids of a token are a count per id, as the code's list may hold an id    *)
(* twice. Data and metadata are maps from a key to a value. U256 arithmetic*)
(* panics beyond MaxUint and below zero. An Extend of several entries is   *)
(* several Extends of one.                                                 *)
(***************************************************************************)
EXTENDS Integers, Sequences, Functions

CONSTANTS Addresses,
          Native,       \* the addresses of ETH and VERSE, tokens without a program account
          Ids,          \* ids of non-fungible units
          MaxUint,      \* the largest amount
          Keys, Values, \* of data and metadata
          This,         \* AddressOrNamespace::This, the program called
          Namespace,    \* AddressOrNamespace::Namespace
          None

-----------------------------------------------------------------------------
(* Types. *)

\* A map, None where it has no entry.
Maps(keys, values) == [keys -> values \union {None}]
Empty(keys) == [k \in keys |-> None]

Uint == 0..MaxUint
Data == Maps(Keys, Values)

Token == [balance : Uint, ids : [Ids -> Nat],
          approvals : Maps(Addresses, SUBSET Ids), allowance : Maps(Addresses, Uint),
          data : Data, metadata : Data, status : {"Free", "Locked"}]

\* self is the address of the account, owner who may change it.
Account == [program : BOOLEAN, self : Addresses, owner : Addresses, nonce : Nat,
            linked : SUBSET Addresses, data : Data, metadata : Data,
            programs : Maps(Addresses, Token)]

ASSUME InstructionConstants ==
    /\ MaxUint \in Nat
    /\ {This, Namespace, None} \intersect Addresses = {} /\ This # Namespace

ASSUME NoneIsNoValue ==
    /\ None \notin Account /\ None \notin Token /\ None \notin Uint
    /\ \A ids \in SUBSET Ids : None # ids

\* The updates of a token and of a program account.
IsDataUpdate(u) ==
    /\ u.field \in {"Data", "Metadata"} /\ u.op \in {"Insert", "Extend", "Remove"}
    /\ u.key \in Keys /\ u.value \in Values
IsPermitUpdate(u) ==
    /\ u.field \in {"Approvals", "Allowance"}
    /\ u.op \in {"Insert", "Extend", "Remove", "Revoke"}
    /\ u.key \in Addresses
    /\ u.value \in IF u.field = "Approvals" THEN SUBSET Ids ELSE Uint
IsTokenUpdate(u) ==
    \/ IsDataUpdate(u) \/ IsPermitUpdate(u)
    \/ u.field = "Status" /\ u.op \in {"Lock", "Unlock", "Reverse"}
IsProgramUpdate(u) ==
    \/ IsDataUpdate(u)
    \/ /\ u.field = "LinkedPrograms" /\ u.op \in {"Insert", "Extend", "Remove"}
       /\ u.key \in Addresses

-----------------------------------------------------------------------------
(* Results. *)

Ok(value) == [is |-> "ok", value |-> value]
Err == [is |-> "err"]
Panic == [is |-> "panic"]
Then(result, F(_)) == IF result.is = "ok" THEN F(result.value) ELSE result

Put(map, key, value) == [map EXCEPT ![key] = value]
Without(map, key) == [map EXCEPT ![key] = None]
At(map, key, default) == IF map[key] = None THEN default ELSE map[key]

-----------------------------------------------------------------------------
(* Tokens. *)

NewToken(program) ==
    [balance |-> 0, ids |-> [i \in Ids |-> 0],
     approvals |-> Empty(Addresses), allowance |-> Empty(Addresses),
     data |-> IF program = None THEN Empty(Keys) ELSE program.data,
     metadata |-> IF program = None THEN Empty(Keys) ELSE program.metadata,
     status |-> "Free"]

DebitUnchecked(token, amount) ==
    Ok(IF amount = None THEN token ELSE [token EXCEPT !.balance = @ - amount])
Debit(token, amount) ==
    CASE amount = None -> Ok(token)
      [] amount # None /\ amount > token.balance -> Err
      [] amount # None /\ amount <= token.balance -> Ok([token EXCEPT !.balance = @ - amount])

Credit(token, amount) ==
    CASE amount = None -> Ok(token)
      [] amount # None /\ token.balance + amount > MaxUint -> Panic
      [] amount # None /\ token.balance + amount <= MaxUint ->
           Ok([token EXCEPT !.balance = @ + amount])

RemoveTokenIds(token, ids) ==
    IF \E i \in ids : token.ids[i] = 0
    THEN Err
    ELSE Ok([token EXCEPT !.ids = [i \in Ids |-> IF i \in ids THEN 0 ELSE @[i]]])

AddTokenIds(token, ids) ==
    [token EXCEPT !.ids = [i \in Ids |-> IF i \in ids THEN @[i] + 1 ELSE @[i]]]

\* apply_data_update, and the same for metadata and for the maps of a program account.
ApplyDataUpdate(map, u) ==
    IF u.op = "Remove" THEN Without(map, u.key) ELSE Put(map, u.key, u.value)

ApplyApprovalsUpdate(approvals, u) ==
    LET held == At(approvals, u.key, {})
    IN CASE u.op = "Insert" -> Put(approvals, u.key, held \union u.value)
         [] u.op = "Extend" -> Put(approvals, u.key, u.value)
         [] u.op = "Remove" /\ held \ u.value # {} -> Put(approvals, u.key, held \ u.value)
         [] u.op = "Remove" /\ held \ u.value = {} -> Without(approvals, u.key)
         [] u.op = "Revoke" -> Without(approvals, u.key)

\* Taking an allowance down to zero removes the spender's approvals and keeps the
\* allowance entry of zero.
ApplyAllowanceUpdate(token, u) ==
    LET held == At(token.allowance, u.key, 0)
        Set(n) == [token EXCEPT !.allowance = Put(@, u.key, n)]
        exists == token.allowance[u.key] # None
    IN CASE u.op = "Insert" /\ held + u.value > MaxUint -> Panic
         [] u.op = "Insert" /\ held + u.value <= MaxUint -> Ok(Set(held + u.value))
         [] u.op = "Extend" -> Ok(Set(u.value))
         [] u.op = "Remove" /\ ~exists -> Ok(token)
         [] u.op = "Remove" /\ exists /\ u.value > held -> Panic
         [] u.op = "Remove" /\ exists /\ u.value < held -> Ok(Set(held - u.value))
         [] u.op = "Remove" /\ exists /\ u.value = held ->
              Ok([Set(0) EXCEPT !.approvals = Without(@, u.key)])
         [] u.op = "Revoke" -> Ok([token EXCEPT !.allowance = Without(@, u.key)])

ApplyStatusUpdate(status, u) ==
    CASE u.op = "Lock" -> "Locked"
      [] u.op = "Unlock" -> "Free"
      [] u.op = "Reverse" -> IF status = "Free" THEN "Locked" ELSE "Free"

ApplyTokenUpdateField(token, u) ==
    CASE u.field = "Data" -> Ok([token EXCEPT !.data = ApplyDataUpdate(@, u)])
      [] u.field = "Metadata" -> Ok([token EXCEPT !.metadata = ApplyDataUpdate(@, u)])
      [] u.field = "Approvals" -> Ok([token EXCEPT !.approvals = ApplyApprovalsUpdate(@, u)])
      [] u.field = "Allowance" -> ApplyAllowanceUpdate(token, u)
      [] u.field = "Status" -> Ok([token EXCEPT !.status = ApplyStatusUpdate(@, u)])

\* The updates are made in sequence, until one panics.
ApplyTokenUpdates(token, updates) ==
    LET after[n \in 0..Len(updates)] ==
          IF n = 0 THEN Ok(token)
          ELSE Then(after[n - 1], LAMBDA t : ApplyTokenUpdateField(t, updates[n]))
    IN after[Len(updates)]

-----------------------------------------------------------------------------
(* Accounts. A program account is known by its address, self. *)

FreshUser(a) ==
    [program |-> FALSE, self |-> a, owner |-> a, nonce |-> 0, linked |-> {},
     data |-> Empty(Keys), metadata |-> Empty(Keys), programs |-> Empty(Addresses)]

FreshProgram(a, owner, metadata) ==
    [FreshUser(a) EXCEPT !.program = TRUE, !.owner = owner, !.metadata = metadata]

Holds(account, token) == account.programs[token] # None

\* The account with the token a fallible operation on the token leaves.
WithToken(account, token, result) ==
    Then(result, LAMBDA t : Ok([account EXCEPT !.programs = Put(@, token, t)]))

ApplyTransferTo(account, token, amount, ids, program) ==
    LET held == IF Holds(account, token) THEN account.programs[token] ELSE NewToken(program)
    IN WithToken(account, token,
                 Then(Credit(held, amount), LAMBDA t : Ok(AddTokenIds(t, ids))))

ApplyTransferFrom(account, token, amount, ids) ==
    IF Holds(account, token)
    THEN WithToken(account, token,
                   Then(Debit(account.programs[token], amount),
                        LAMBDA t : RemoveTokenIds(t, ids)))
    ELSE Err

ApplyBurn(account, token, amount, ids) == ApplyTransferFrom(account, token, amount, ids)

ApplyTokenDistribution(account, token, amount, ids, updates, program) ==
    LET held == IF Holds(account, token) THEN account.programs[token] ELSE NewToken(program)
    IN WithToken(account, token,
                 Then(Credit(held, amount),
                      LAMBDA t : ApplyTokenUpdates(AddTokenIds(t, ids), updates)))

ApplyTokenUpdate(account, token, updates, program) ==
    LET held == IF Holds(account, token) THEN account.programs[token] ELSE NewToken(program)
    IN WithToken(account, token, ApplyTokenUpdates(held, updates))

ApplyProgramUpdateField(account, u) ==
    CASE u.field = "LinkedPrograms" ->
           [account EXCEPT !.linked = IF u.op = "Remove" THEN @ \ {u.key} ELSE @ \union {u.key}]
      [] u.field = "Metadata" -> [account EXCEPT !.metadata = ApplyDataUpdate(@, u)]
      [] u.field = "Data" -> [account EXCEPT !.data = ApplyDataUpdate(@, u)]

ApplyProgramUpdates(account, updates) ==
    LET after[n \in 0..Len(updates)] ==
          IF n = 0 THEN account ELSE ApplyProgramUpdateField(after[n - 1], updates[n])
    IN after[Len(updates)]

ApplyProgramUpdate(account, updates) ==
    IF account.program THEN Ok(ApplyProgramUpdates(account, updates)) ELSE Err
=============================================================================
