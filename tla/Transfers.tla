------------------------------- MODULE Transfers -------------------------------
(***************************************************************************)
(* Accounts and the two kinds of transaction that move a token without     *)
(* running a program: a signed send, and the deposit the node makes out of *)
(* a bridge event (crates/types/src/account.rs, transaction.rs).           *)
(*                                                                         *)
(* One token is modelled. An account is its nonce and its balance of the   *)
(* token, None when it holds no entry for it; an address without account   *)
(* is None. Signatures are valid; data and metadata are left out.          *)
(***************************************************************************)
EXTENDS Integers

CONSTANTS Accounts,   \* addresses
          None

Account == [nonce : Nat, token : Nat \union {None}]
Transaction == [type : {"Send", "BridgeIn"}, from : Accounts, to : Accounts,
                value : Nat, nonce : Nat]

ASSUME NoneIsNoValue == None \notin Nat /\ None \notin Account

AccountsInvolved(t) == {t.from, t.to}

\* The account AccountBuilder makes for an address seen for the first time.
FreshAccount == [nonce |-> 0, token |-> None]

\* A variant with a mistake comes before the definition it is a variant of; the
\* properties of the modules that use the definition rule the mistake out.
ValidateNonceOrEqual(account, nonce) == nonce >= account.nonce
ValidateNonce(account, nonce) ==
    \/ account.nonce = 0 /\ nonce = 0
    \/ nonce > account.nonce

ValidateBalanceHeld(account, value) == account.token # None
ValidateBalance(account, value) == account.token # None /\ account.token >= value

\* Account::apply_send_transaction on the account of address me: when it returns Err,
\* when its subtraction of U256 underflows and panics, and the account it leaves.
ApplySendErrs(account, t, me) ==
    t.type = "Send" /\ account.token = None /\ (t.from = t.to \/ me # t.to)

ApplySendNeverPanics(account, t, me) == FALSE
ApplySendPanics(account, t, me) ==
    /\ t.type = "Send" /\ t.from # t.to /\ me = t.from
    /\ account.token # None /\ account.token < t.value

ApplySend(account, t, me) ==
    LET change == CASE t.type = "BridgeIn" \/ me # t.from -> t.value
                    [] t.type = "Send" /\ me = t.from /\ t.from = t.to -> 0
                    [] t.type = "Send" /\ me = t.from /\ t.from # t.to -> -t.value
    IN [account EXCEPT !.token = IF @ = None THEN t.value ELSE @ + change]
=============================================================================
