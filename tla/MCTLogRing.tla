------------------------------ MODULE MCTLogRing -------------------------------
(* Instances of TLogRing for TLC: the .cfg files give the constants.       *)
EXTENDS TLogRing
=============================================================================
