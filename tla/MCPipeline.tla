------------------------------ MODULE MCPipeline ------------------------------
(* Accounts and transactions for Pipeline: alice can pay, bob has no account *)
(* yet, carol does not hold the token.                                         *)
EXTENDS Pipeline, TLC

CONSTANTS alice, bob, carol

ThreeAccounts == {alice, bob, carol}
SmallGenesis == alice :> [nonce |-> 0, token |-> 2] @@ bob :> None
                @@ carol :> [nonce |-> 0, token |-> None]

Pays(from, to, value, nonce) ==
    [type |-> "Send", from |-> from, to |-> to, value |-> value, nonce |-> nonce]
Deposits(user, value, id) ==
    [type |-> "BridgeIn", from |-> user, to |-> user, value |-> value, nonce |-> id]

\* A send that needs a deposit first and makes bob's account; one of bob to itself, from an
\* account that does not exist yet, with a nonce two ahead; deposits to accounts with and
\* without the token.
MixedTxs == {Pays(alice, bob, 3, 2), Pays(bob, bob, 1, 2),
             Deposits(carol, 1, 1), Deposits(alice, 1, 2)}

\* Two sends alice cannot both pay, and a deposit to their receiver.
RivalTxs == {Pays(alice, bob, 2, 1), Pays(alice, bob, 1, 1), Deposits(bob, 1, 1)}

\* The sends alone.
RivalSends == {t \in RivalTxs : t.type = "Send"}
=============================================================================
