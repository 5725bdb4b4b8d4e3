------------------------------ MODULE MCStaking ------------------------------
(* Two stakers, three blocks of rewards. *)
EXTENDS Staking, TLC

CONSTANTS alice, bob

TwoUsers == {alice, bob}
UserSymmetry == Permutations(TwoUsers)
=============================================================================
