------------------------------ MODULE CallRules ------------------------------
(***************************************************************************)
(* When the validator lets the outputs of a call through, and what the     *)
(* batcher does with each instruction (crates/actors/src/validator.rs,     *)
(* batcher.rs, crates/types/src/programming_model.rs).                     *)
(*                                                                         *)
(* A call is its sender from, the program called to, a nonce, whether its  *)
(* signature verifies, and the instructions the program returned. The      *)
(* accounts of an instruction are named by an address, by This (the        *)
(* program called) or by a namespace.                                      *)
(***************************************************************************)
EXTENDS Instructions

Resolve(call, name) == IF name = This THEN call.to ELSE name

Names == Addresses \union {This, Namespace}
IsList(s) == s \in Seq(Range(s))

IsDistribution(o) ==
    /\ o.is = "Distribution" /\ o.program \in Names /\ o.to \in Names
    /\ o.amount \in Uint \union {None} /\ o.ids \in SUBSET Ids
    /\ IsList(o.fields) /\ \A f \in DOMAIN o.fields : IsTokenUpdate(o.fields[f])
IsUpdate(o) ==
    /\ o.account \in Names /\ IsList(o.fields)
    /\ \/ /\ o.is = "Token" /\ o.token \in Names
          /\ \A f \in DOMAIN o.fields : IsTokenUpdate(o.fields[f])
       \/ /\ o.is = "ProgramUpdate"
          /\ \A f \in DOMAIN o.fields : IsProgramUpdate(o.fields[f])
IsTransfer(i) ==
    /\ i.is = "Transfer" /\ i.token \in Addresses /\ i.from \in Names /\ i.to \in Names
    /\ i.amount \in Uint \union {None} /\ i.ids \in SUBSET Ids
IsBurn(i) ==
    /\ i.is = "Burn" /\ i.token \in Addresses /\ i.program \in Names /\ i.from \in Names
    /\ i.amount \in Uint \union {None} /\ i.ids \in SUBSET Ids
IsInstruction(i) ==
    \/ IsTransfer(i) \/ IsBurn(i)
    \/ /\ i.is = "Create" /\ i.namespace \in Names /\ i.program \in Names /\ i.owner \in Addresses
       /\ IsList(i.distributions)
       /\ \A d \in DOMAIN i.distributions : IsDistribution(i.distributions[d])
    \/ /\ i.is = "Update" /\ IsList(i.updates)
       /\ \A u \in DOMAIN i.updates : IsUpdate(i.updates[u])
    \/ i.is = "Log"

\* A registration carries no instructions.
IsCall(call) ==
    /\ call.from \in Addresses /\ call.to \in Addresses
    /\ IsList(call.instructions)
    /\ \A i \in DOMAIN call.instructions : IsInstruction(call.instructions[i])
    /\ \/ call.type = "Call" /\ call.nonce \in Nat
       \/ /\ call.type = "RegisterProgram" /\ call.instructions = <<>>
          /\ call.metadata \in Data

-----------------------------------------------------------------------------
(* The accounts a call names. *)

AccountsInvolved(i) ==
    CASE i.is = "Transfer" -> {i.from, i.to}
      [] i.is = "Burn" -> {i.from}
      [] i.is = "Create" -> {i.namespace, i.program, i.owner}
                              \union {i.distributions[d].to : d \in DOMAIN i.distributions}
      [] i.is = "Update" -> {i.updates[u].account : u \in DOMAIN i.updates}
      [] i.is = "Log" -> {}

GetAccountsInvolved(call) ==
    {call.from, call.to}
        \union UNION {AccountsInvolved(call.instructions[i]) : i \in DOMAIN call.instructions}

-----------------------------------------------------------------------------
(* The validator. accounts maps each name of the call to the account read for *)
(* it, None when there is none. Every instruction is checked against the      *)
(* accounts as they were before the call.                                     *)

ValidateNonce(account, nonce) == (account.nonce = 0 /\ nonce = 0) \/ nonce > account.nonce

ValidateBalance(account, token, amount) ==
    Holds(account, token) /\ account.programs[token].balance >= amount

ValidateTokenOwnership(account, token, ids) ==
    Holds(account, token) /\ \A i \in ids : account.programs[token].ids[i] > 0

\* An allowance must exceed the amount; an approval of no particular id is an approval
\* of any amount; a program account of its own token needs neither.
ValidateApprovedSpend(account, token, spender, amount) ==
    /\ Holds(account, token)
    /\ LET held == account.programs[token]
       IN IF held.allowance[spender] # None
          THEN held.allowance[spender] > amount
          ELSE IF held.approvals[spender] # None
          THEN held.approvals[spender] = {}
          ELSE account.program /\ account.self = token

\* A spender with an approvals entry is refused whatever the entry says.
ValidateApprovedTokenTransfer(account, token, spender) ==
    /\ Holds(account, token)
    /\ account.programs[token].approvals[spender] = None
    /\ account.program /\ account.self = token

\* The ids of a transfer by the caller are looked up under the program called.
ValidateTransferByCaller(call, i, caller) ==
    IF i.amount # None
    THEN ValidateBalance(caller, i.token, i.amount)
    ELSE ValidateTokenOwnership(caller, call.to, i.ids)

ValidateFungibleTransferUnapproved(call, i, caller, account) ==
    ValidateBalance(account, i.token, i.amount)
ValidateFungibleTransfer(call, i, caller, account) ==
    /\ ValidateBalance(account, i.token, i.amount)
    /\ \/ account.program /\ account.self = call.to
       \/ \E spender \in {caller.owner, call.to} :
             ValidateApprovedSpend(account, i.token, spender, i.amount)

ValidateIdsTransfer(call, i, caller, account) ==
    /\ ValidateTokenOwnership(account, i.token, i.ids)
    /\ \E spender \in {caller.owner, call.to} :
          ValidateApprovedTokenTransfer(account, i.token, spender)

ValidateTransfer(call, i, caller, accounts) ==
    IF i.from = caller.owner
    THEN ValidateTransferByCaller(call, i, caller)
    ELSE /\ accounts[i.from] # None
         /\ Holds(accounts[i.from], i.token)
         /\ IF i.amount # None
            THEN ValidateFungibleTransfer(call, i, caller, accounts[i.from])
            ELSE ValidateIdsTransfer(call, i, caller, accounts[i.from])

ValidateBurnByCaller(call, i, caller) ==
    IF i.amount # None
    THEN ValidateBalance(caller, i.token, i.amount)
    ELSE ValidateTokenOwnership(caller, Resolve(call, i.program), i.ids)

ValidateBurnOfOther(call, i, caller, account) ==
    LET spenders == {caller.owner, Resolve(call, i.program)}
    IN /\ account # None
       /\ Holds(account, i.token)
       /\ IF i.amount # None
          THEN /\ ValidateBalance(account, i.token, i.amount)
               /\ \E s \in spenders : ValidateApprovedSpend(account, i.token, s, i.amount)
          ELSE /\ ValidateTokenOwnership(account, i.token, i.ids)
               /\ \E s \in spenders : ValidateApprovedTokenTransfer(account, i.token, s)

ValidateBurn(call, i, caller, accounts) ==
    /\ i.program # Namespace
    /\ IF i.from = caller.owner
       THEN ValidateBurnByCaller(call, i, caller)
       ELSE ValidateBurnOfOther(call, i, caller, accounts[i.from])

\* Approvals and allowances belong to the owner of the account.
ValidateAnyonesAllowance(caller, account) == account # None
ValidateApprovalOrAllowance(caller, account) ==
    account # None /\ account.owner = caller.owner

ValidateOtherField(call, u, caller, account) ==
    LET token == Resolve(call, u.token)
    IN /\ token # Namespace
       /\ account # None /\ account.owner # caller.owner /\ Holds(account, token) =>
             \E s \in {call.to, call.from} : account.programs[token].approvals[s] # None

ValidateTokenUpdate(call, u, caller, accounts) ==
    \A f \in DOMAIN u.fields :
        IF u.fields[f].field \in {"Approvals", "Allowance"}
        THEN ValidateApprovalOrAllowance(caller, accounts[u.account])
        ELSE ValidateOtherField(call, u, caller, accounts[u.account])

ValidateProgramUpdate(call, u, accounts) ==
    LET account == accounts[u.account]
    IN /\ account # None
       /\ account.owner = call.from \/ u.account = call.to \/ call.to \in account.linked

ValidateUpdate(call, i, caller, accounts) ==
    \A u \in DOMAIN i.updates :
        IF i.updates[u].is = "Token"
        THEN ValidateTokenUpdate(call, i.updates[u], caller, accounts)
        ELSE ValidateProgramUpdate(call, i.updates[u], accounts)

ValidateInstruction(call, i, caller, accounts) ==
    CASE i.is = "Transfer" -> ValidateTransfer(call, i, caller, accounts)
      [] i.is = "Burn" -> ValidateBurn(call, i, caller, accounts)
      [] i.is = "Update" -> ValidateUpdate(call, i, caller, accounts)
      [] i.is = "Create" -> caller.owner = i.owner
      [] i.is = "Log" -> TRUE

ValidateCall(call, accounts) ==
    LET caller == accounts[call.from]
    IN /\ call.signed
       /\ caller # None
       /\ ValidateNonce(caller, call.nonce)
       /\ \A i \in DOMAIN call.instructions :
             ValidateInstruction(call, call.instructions[i], caller, accounts)

-----------------------------------------------------------------------------
(* The batcher. An instruction is a sequence of operations, each of which reads *)
(* some accounts and leaves some: Reads(call, o) lists what it reads and        *)
(* ApplyOperation(call, o, read) is the result, read[n] being what was found    *)
(* for Reads(call, o)[n]. An operation that fails on an early read makes the    *)
(* later reads as well; nothing depends on it.                                  *)

OperationsOf(i) ==
    CASE i.is \in {"Transfer", "Burn"} -> <<i>>
      [] i.is = "Create" -> i.distributions \o <<[is |-> "Program"]>>
      [] i.is = "Update" -> i.updates
      [] i.is = "Log" -> <<>>
Operations(call) ==
    LET of[n \in 0..Len(call.instructions)] ==
          IF n = 0 THEN <<>> ELSE of[n - 1] \o OperationsOf(call.instructions[n])
    IN of[Len(call.instructions)]

\* A read looks into the batch buffer first, except for the account of the token's
\* program, which is always read from the account cache.
Reads(call, o) ==
    LET Buffered(name) == [name |-> Resolve(call, name), buffered |-> TRUE]
        Program(name) == [name |-> Resolve(call, name), buffered |-> FALSE]
    IN CASE o.is = "Transfer" -> <<Buffered(o.from), Buffered(o.to), Program(o.token)>>
         [] o.is = "Burn" -> <<Buffered(o.from)>>
         [] o.is = "Distribution" -> <<Buffered(o.to), Program(o.program)>>
         [] o.is = "Program" -> <<Buffered(This)>>
         [] o.is = "Token" -> <<Buffered(o.account), Program(o.token)>>
         [] o.is = "ProgramUpdate" -> <<Buffered(o.account)>>

\* apply_transfer_to: the receiving account, made for an address that has none.
TransferTo(o, account, program) ==
    CASE account = None /\ o.to \in {This, Namespace} -> Err
      [] program = None /\ o.token \notin Native -> Err
      [] OTHER -> ApplyTransferTo(IF account = None THEN FreshUser(o.to) ELSE account,
                                  o.token, o.amount, o.ids, program)

ApplyTransferInstruction(o, from, to, program) ==
    IF from = None
    THEN Err
    ELSE Then(ApplyTransferFrom(from, o.token, o.amount, o.ids), LAMBDA debited :
           Then(TransferTo(o, to, program), LAMBDA credited : Ok(<<debited, credited>>)))

ApplyBurnInstruction(o, account) ==
    IF account = None
    THEN Err
    ELSE Then(ApplyBurn(account, o.token, o.amount, o.ids), LAMBDA burnt : Ok(<<burnt>>))

ApplyDistribution(call, o, account, program) ==
    LET made == IF o.to = This THEN FreshProgram(call.to, call.from, Empty(Keys)) ELSE FreshUser(o.to)
    IN IF o.to = Namespace \/ program = None
       THEN Err
       ELSE Then(ApplyTokenDistribution(IF account = None THEN made ELSE account,
                    Resolve(call, o.program), o.amount, o.ids, o.fields, program),
                 LAMBDA given : Ok(<<given>>))

ApplyTokenUpdateInstruction(call, o, account, program) ==
    IF o.account = Namespace \/ program = None \/ (account = None /\ o.account = This)
    THEN Err
    ELSE Then(ApplyTokenUpdate(IF account = None THEN FreshUser(o.account) ELSE account,
                               Resolve(call, o.token), o.fields, program),
              LAMBDA updated : Ok(<<updated>>))

\* An account made for an address is no program account, and its update fails.
ApplyProgramUpdateInstruction(o, account) ==
    IF account = None
    THEN Err
    ELSE Then(ApplyProgramUpdate(account, o.fields), LAMBDA updated : Ok(<<updated>>))

TryCreateProgramAccount(call, account) ==
    Ok(<<IF account = None THEN FreshProgram(call.to, call.from, Empty(Keys)) ELSE account>>)

ApplyOperation(call, o, read) ==
    CASE o.is = "Transfer" -> ApplyTransferInstruction(o, read[1], read[2], read[3])
      [] o.is = "Burn" -> ApplyBurnInstruction(o, read[1])
      [] o.is = "Distribution" -> ApplyDistribution(call, o, read[1], read[2])
      [] o.is = "Program" -> TryCreateProgramAccount(call, read[1])
      [] o.is = "Token" -> ApplyTokenUpdateInstruction(call, o, read[1], read[2])
      [] o.is = "ProgramUpdate" -> ApplyProgramUpdateInstruction(o, read[1])

\* add_account_to_batch_buffer, of one account after the other: an account replaces the
\* one of its address.
AddToBuffer(buffer, accounts) ==
    LET Of(a) == {n \in DOMAIN accounts : accounts[n].self = a}
        Latest(a) == CHOOSE n \in Of(a) : \A m \in Of(a) : m <= n
    IN [a \in Addresses |-> IF Of(a) = {} THEN buffer[a] ELSE accounts[Latest(a)]]
=============================================================================
