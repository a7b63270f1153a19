----------------------------- MODULE MCTLogStreams -----------------------------
(* An instance of TLogStreams for TLC: two streams besides the root, and a *)
(* line that comes late; or one, and both logs rotate.                     *)
EXTENDS TLogStreams

TwoOrRotating ==
  {[streams |-> 2, rotating |-> {}, late |-> 1], [streams |-> 1, rotating |-> {0, 1}, late |-> 0]}
================================================================================
