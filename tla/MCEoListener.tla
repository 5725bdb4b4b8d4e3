----------------------------- MODULE MCEoListener -----------------------------
(* Model values for EoListener: the streams are interchangeable. *)
EXTENDS EoListener, TLC

CONSTANTS bridge, settle

BothStreams == {bridge, settle}
StreamSymmetry == Permutations(BothStreams)
=============================================================================
