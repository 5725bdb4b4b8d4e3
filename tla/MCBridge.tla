------------------------------- MODULE MCBridge -------------------------------
(* One stream, the deposits: two of one user, and a send of theirs. *)
EXTENDS Bridge

CONSTANTS deposits, alice, send

AllOfAlice == [t \in Txs |-> alice]
=============================================================================
