--------------------------------- MODULE MCLogd --------------------------------
(* Instances of Logd for TLC. *)
EXTENDS Logd
================================================================================
