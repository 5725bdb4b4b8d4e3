--------------------------- MODULE ProgramLedger ---------------------------
(***************************************************************************)
(* What the validator and the batcher promise of calls, whatever makes a   *)
(* call valid and whatever its instructions do: a ledger that takes a call *)
(* at a time, counts it on the account of the program, and then performs   *)
(* all of it or nothing. What is performed is written down account by      *)
(* account before the call is answered; a call whose instructions panic    *)
(* halts the ledger, and what was not written down by then is gone. A call *)
(* is refused only when it is invalid, when it cannot be performed, or     *)
(* when an account could not be read in time; and only with such an        *)
(* account taken for absent is a call let through that the accounts would  *)
(* not let through.                                                        *)
(***************************************************************************)
EXTENDS Naturals

CONSTANTS Calls,                   \* the calls that may be made, in a sequence
          Genesis,                 \* the accounts at the start
          None,                    \* no account
          GetAccountsInvolved(_),  \* the names a call makes use of
          Touched(_),              \* the addresses a call may read or change
          Valid(_, _, _),          \* a call is valid on the accounts, some of them unread
          Performed(_, _),         \* a result: the accounts once a call is performed on them
          Registered(_, _)         \* the accounts once a program is registered

VARIABLES accounts,
          written,    \* the accounts as far as they are written down
          outcome,    \* of each call
          alive,      \* no call has panicked
          late        \* how many accounts could not be read in time

vars == <<accounts, written, outcome, alive, late>>

Init == /\ accounts = Genesis
        /\ written = Genesis
        /\ outcome = [c \in DOMAIN Calls |-> "none"]
        /\ alive = TRUE
        /\ late = 0

Outcome(c, from, to) == outcome[c] = from /\ outcome' = [outcome EXCEPT ![c] = to]

\* The count is written down at once.
Count(c) ==
    LET call == Calls[c]
    IN /\ alive /\ call.type = "Call"
       /\ Outcome(c, "none", "counted")
       /\ \E unread \in SUBSET GetAccountsInvolved(call) :
             (unread # {} => late > 0) /\ Valid(call, accounts, unread)
       /\ accounts[call.to] # None
       /\ accounts' = [accounts EXCEPT ![call.to].nonce = @ + 1]
       /\ written' = [written EXCEPT ![call.to] = accounts'[call.to]]
       /\ UNCHANGED alive

Apply(c) ==
    /\ alive
    /\ Outcome(c, "counted", "applied")
    /\ Performed(Calls[c], accounts).is = "ok"
    /\ accounts' = Performed(Calls[c], accounts).value
    /\ UNCHANGED <<written, alive>>

Register(c) ==
    LET call == Calls[c]
    IN /\ alive /\ call.type = "RegisterProgram" /\ call.wellFormed
       /\ Outcome(c, "none", "applied")
       /\ accounts[call.from] # None
       /\ accounts' = Registered(call, accounts)
       /\ UNCHANGED <<written, alive>>

Write(a) ==
    /\ alive
    /\ written' = [written EXCEPT ![a] = accounts[a]]
    /\ UNCHANGED <<accounts, outcome, alive>>

\* An answer is given once all that the call does is written down.
Answer(c) ==
    /\ alive
    /\ Outcome(c, "applied", "answered")
    /\ \A a \in DOMAIN accounts : a \in Touched(Calls[c]) => written[a] = accounts[a]
    /\ UNCHANGED <<accounts, written, alive>>

\* Once counted, a call is refused for what it does only.
Refuse(c) ==
    LET call == Calls[c]
    IN /\ \/ /\ Outcome(c, "none", "refused")
             /\ \/ late' > 0
                \/ call.type = "RegisterProgram" /\ (accounts[call.from] = None \/ ~call.wellFormed)
                \/ call.type = "Call" /\ (~Valid(call, accounts, {}) \/ accounts[call.to] = None)
          \/ Outcome(c, "counted", "refused") /\ Performed(call, accounts).is = "err"
       /\ UNCHANGED <<accounts, written, alive>>

Halt(c) ==
    /\ alive
    /\ outcome[c] = "counted" /\ Performed(Calls[c], accounts).is = "panic"
    /\ alive' = FALSE
    /\ accounts' = written
    /\ UNCHANGED <<written, outcome>>

Delayed == late' = late + 1 /\ UNCHANGED <<accounts, written, outcome, alive>>

Next == /\ late' \in {late, late + 1}
        /\ \/ Delayed
           \/ \E c \in DOMAIN Calls :
                 Count(c) \/ Apply(c) \/ Register(c) \/ Answer(c) \/ Refuse(c) \/ Halt(c)
           \/ \E a \in DOMAIN accounts : Write(a)

Spec == Init /\ [][Next]_vars
=============================================================================
