---------------------------- MODULE CallsLedger ----------------------------
(***************************************************************************)
(* The validator and the batcher, seen as the ledger of ProgramLedger:     *)
(* what a call does to all of the accounts at once, and the refinement     *)
(* mapping from Calls.                                                     *)
(***************************************************************************)
EXTENDS Calls

\* The account of an address, and of a name a call gives.
LookUp(accounts, a) == IF a \in Addresses THEN accounts[a] ELSE None
Find(call, accounts, name) == LookUp(accounts, Resolve(call, name))

\* The accounts let the call through, those of unread taken for absent.
Valid(call, accounts, unread) ==
    ValidateCall(call, [name \in GetAccountsInvolved(call) |->
                          IF name \in unread THEN None ELSE Find(call, accounts, name)])

\* The accounts once o is performed on now. A token held for the first time takes the
\* data of its program as of before the call. A transfer finds both its accounts as they
\* were: one from an account to itself leaves the account it was credited to.
Perform(call, o, before, now) ==
    LET reads == Reads(call, o)
    IN Then(ApplyOperation(call, o, [n \in DOMAIN reads |->
               LookUp(IF reads[n].buffered THEN now ELSE before, reads[n].name)]),
            LAMBDA left : Ok(AddToBuffer(now, left)))

\* What the operations of the call make of the accounts, after each of them and in the end.
Performing(call, accounts) ==
    LET after[n \in 0..Len(Operations(call))] ==
          IF n = 0 THEN Ok(accounts)
          ELSE Then(after[n - 1], LAMBDA now : Perform(call, Operations(call)[n], accounts, now))
    IN after
Performed(call, accounts) == Performing(call, accounts)[Len(Operations(call))]

\* A registration makes the program's account anew.
Registered(call, accounts) ==
    [accounts EXCEPT ![call.to] = FreshProgram(call.to, call.from, call.metadata),
                     ![call.from].nonce = @ + 1]

\* The accounts once the writes under way are done.
Accounted == [a \in Addresses |->
    IF \E c \in DOMAIN Calls : job[c].at = "writing" /\ job[c].buffer[a] # None
    THEN LET c == CHOOSE c \in DOMAIN Calls : job[c].at = "writing" /\ job[c].buffer[a] # None
         IN job[c].buffer[a]
    ELSE cache[a]]

\* The accounts of the ledger: nobody does the writes that a panic leaves undone.
Booked == IF alive THEN Accounted ELSE cache

OutcomeAt(at) ==
    CASE at \in {"applying", "lost"} -> "counted"
      [] at = "writing" -> "applied"
      [] at = "applied" -> "answered"
      [] at = "failed" -> "refused"
      [] OTHER -> "none"
Outcomes == [c \in DOMAIN Calls |-> OutcomeAt(job[c].at)]

\* While no two calls under way share an account, the validator and the batcher are a
\* ledger that performs a call at a time: instructions that were validated one by one
\* against the accounts before the call, and are applied in sequence to a buffer that is
\* written back account by account, all take effect or none. Only when another call panics
\* between two of the writes is a call performed in part, and then it was not answered. A
\* valid call is refused, and an invalid one let through, only after a late read.
Promise == INSTANCE ProgramLedger WITH
               accounts <- Booked, written <- cache, outcome <- Outcomes
ImplementsProgramLedger == Promise!Spec
=============================================================================
