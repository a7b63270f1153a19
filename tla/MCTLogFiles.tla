------------------------------ MODULE MCTLogFiles ------------------------------
(* An instance of TLogFiles for TLC.                                       *)
EXTENDS TLogFiles

CONSTANTS p1, p2

(* One process that may crash; one that may crash and meets a failure,     *)
(* with TLOG_MULTI_WRITE and without; two at once that both gave it.       *)
Crash == [procs : {{p1}}, nocompress : BOOLEAN, multi : {FALSE}, old : {0}, lines : {6},
          crashes : {1}, exits : {1}, faults : {0}, seconds : {2}]
Fail  == [procs : {{p1}}, nocompress : BOOLEAN, multi : BOOLEAN, old : {0}, lines : {5},
          crashes : {1}, exits : {1}, faults : {1}, seconds : {1}]
Pair  == [procs : {{p1, p2}}, nocompress : {FALSE}, multi : {TRUE}, old : {1}, lines : {6},
          crashes : {0}, exits : {0}, faults : {0}, seconds : {1}]
CrashFailOrPair == Crash \cup Fail \cup Pair
================================================================================
