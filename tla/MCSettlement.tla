----------------------------- MODULE MCSettlement -----------------------------
(* Model values for Settlement: the accounts are interchangeable. *)
EXTENDS Settlement, TLC

CONSTANTS alice, bob

TwoAccounts == {alice, bob}
AccountSymmetry == Permutations(TwoAccounts)
AllFaults == {"put", "store", "poll", "call", "timeout", "revert"}
=============================================================================
