------------------------------ MODULE TLogStreams ------------------------------
(***************************************************************************)
(* The streams of the logger of useapp/tlog.c: the root log of tlog_init   *)
(* and those of tlog_open hang on one list, and one worker (_tlog_work)    *)
(* goes round it, outputs what each has, waits for their gzips and frees   *)
(* those that tlog_close has marked.                                       *)
(*                                                                         *)
(* A stream is the number of its tlog_open, 0 the root.  tlog_open inserts *)
(* at the head, so the list is the streams alive, newest first.  A ring is *)
(* how many lines it holds (TLogRing has the bytes), the files of a stream *)
(* are the state of its gzip (TLogFiles has the files).  The worker's own  *)
(* pointer and tlog.notify_log may outlive the stream they point to: when  *)
(* the worker follows one that does, what happens is undefined and the     *)
(* model stops.                                                            *)
(***************************************************************************)
EXTENDS Integers, FiniteSets, FiniteSetsExt

CONSTANTS
  MaxOpen,   \* bound: streams opened besides the root
  Cap,       \* lines a ring holds
  Setups     \* how the logger is used, see below

(* A setup says how many streams are opened (streams), which rotate their  *)
(* files (rotating), and bounds the lines that are accepted after          *)
(* tlog_exit was called (late).                                            *)
ASSUME StreamsAssumption ==
  /\ MaxOpen \in Nat /\ Cap \in Nat \ {0}
  /\ \A m \in Setups :
       m.streams \in 0 .. MaxOpen /\ m.rotating \subseteq 0 .. MaxOpen /\ m.late \in Nat

None    == -1
Streams == 0 .. MaxOpen

VARIABLES
  mode,        \* the setup
  status,      \* of each stream; "closed" is log->is_exit
  data,        \* lines in its ring
  zip,         \* its gzip (zip_pid): none, running, or ended and not waited for
  waited,      \* last_waitpid is the current second
  last_log,    \* static variable of _tlog_wait_pids
  notify_log, run,
  (* _tlog_work; tlog.is_wait is wpc = "wait" *)
  wpc, log, log_len,
  xpc,         \* tlog_exit
  late,        \* lines accepted after tlog_exit was called
  (* history: lines accepted before tlog_exit and not output; whether a    *)
  (* caller found a ring full; whether a stream was freed under a newer    *)
  owed, full, middle

list    == <<mode, status, data, owed>>
gzips   == <<zip, waited, last_log>>
worker  == <<wpc, log, log_len>>
history == <<full, middle>>
vars    == <<list, gzips, notify_log, run, worker, xpc, late, history>>

TypeOK ==
  /\ mode \in Setups
  /\ status \in [Streams -> {"new", "open", "closed", "freed"}]
  /\ data \in [Streams -> 0 .. Cap] /\ owed \in [Streams -> 0 .. Cap]
  /\ zip \in [Streams -> {"none", "running", "ended"}]
  /\ waited \in [Streams -> BOOLEAN]
  /\ {last_log, notify_log, log} \subseteq Streams \cup {None}
  /\ run \in BOOLEAN /\ full \in BOOLEAN /\ middle \in BOOLEAN
  /\ wpc \in {"top", "next", "wait", "write", "release", "done", "undefined"}
  /\ log_len \in 0 .. Cap
  /\ xpc \in {"no", "joining", "closing", "closed"}
  /\ late \in 0 .. mode.late

(* tlog_init: the root log, and the worker.                                *)
Init ==
  /\ mode \in Setups
  /\ status = [s \in Streams |-> IF s = 0 THEN "open" ELSE "new"]
  /\ data = [s \in Streams |-> 0] /\ owed = data
  /\ zip = [s \in Streams |-> "none"] /\ waited = [s \in Streams |-> FALSE]
  /\ last_log = None /\ notify_log = None /\ run = TRUE
  /\ wpc = "top" /\ log = None /\ log_len = 0
  /\ xpc = "no" /\ late = 0
  /\ full = FALSE /\ middle = FALSE

Alive   == {s \in Streams : status[s] \in {"open", "closed"}}
First(S) == IF S = {} THEN None ELSE Max(S)
AnyData == \E s \in Alive : data[s] > 0

-----------------------------------------------------------------------------
(* The program that logs.  It uses a stream from tlog_open to tlog_close,  *)
(* and none once tlog_exit has joined the worker.                          *)
Usable(s) == status[s] = "open" /\ xpc \in {"no", "joining"} /\ wpc # "undefined"

(* tlog_open looks at run long before it takes the lock and inserts the    *)
(* stream: a call that found run set may insert after tlog_exit cleared    *)
(* it.  The program has no such call left once the worker is joined.       *)
tlog_open(s) ==
  /\ xpc \in {"no", "joining"} /\ wpc # "undefined"
  /\ s <= mode.streams /\ status[s] = "new" /\ status[s - 1] # "new"
  /\ status' = [status EXCEPT ![s] = "open"]
  /\ UNCHANGED <<mode, data, owed, gzips, notify_log, run, worker, xpc, late, history>>

tlog_close(s) ==
  /\ s # 0 /\ Usable(s)
  /\ status' = [status EXCEPT ![s] = "closed"]
  /\ UNCHANGED <<mode, data, owed, gzips, notify_log, run, worker, xpc, late, history>>

(* Mutant: a line goes into a full ring.                                   *)
log_line_unbounded(s) ==
  /\ Usable(s)
  /\ run \/ late < mode.late
  /\ late' = IF run THEN late ELSE late + 1
  /\ data' = [data EXCEPT ![s] = @ + 1]
  /\ owed' = IF run THEN [owed EXCEPT ![s] = @ + 1] ELSE owed
  /\ notify_log' = IF wpc = "wait" THEN s ELSE notify_log
  /\ UNCHANGED <<mode, status, gzips, run, worker, xpc, history>>

(* A line is accepted; a waiting worker is told which stream has it.       *)
log_line(s) ==
  /\ Usable(s) /\ data[s] < Cap
  /\ run \/ late < mode.late
  /\ late' = IF run THEN late ELSE late + 1
  /\ data' = [data EXCEPT ![s] = @ + 1]
  /\ owed' = IF run THEN [owed EXCEPT ![s] = @ + 1] ELSE owed
  /\ notify_log' = IF wpc = "wait" THEN s ELSE notify_log
  /\ UNCHANGED <<mode, status, gzips, run, worker, xpc, history>>

(* There is no room: the worker is told whether it waits or not, except    *)
(* when the data ends exactly where it starts.                             *)
log_full(s) ==
  /\ Usable(s) /\ data[s] = Cap
  /\ notify_log' \in {s, notify_log}
  /\ full' = TRUE
  /\ UNCHANGED <<list, gzips, run, worker, xpc, late, middle>>

-----------------------------------------------------------------------------
(* The worker: _tlog_work.                                                 *)

KeepsProgram == <<mode, run, xpc, late>>

(* Mutant: the scan begins with the first gzip every time.                 *)
Asked_first == First({s \in Alive : zip[s] # "none"})

(* Whose gzip _tlog_wait_pids asks for: the first that was not asked for   *)
(* in this second and is not the one asked for last.                       *)
Asked == First({s \in Alive \ {last_log} : zip[s] # "none" /\ ~waited[s]})

(* The head of the loop: the end, or one waitpid that does not wait.       *)
work_top ==
  /\ wpc = "top"
  /\ IF ~run /\ ~AnyData
     THEN wpc' = "done" /\ UNCHANGED gzips
     ELSE /\ wpc' = "next"
          /\ last_log' = Asked
          /\ waited' = [s \in Streams |-> waited[s] \/ s = Asked]
          /\ zip' = [s \in Streams |-> IF s = Asked /\ zip[s] = "ended" THEN "none" ELSE zip[s]]
  /\ UNCHANGED <<KeepsProgram, list, notify_log, log, log_len, history>>

(* Mutant: the worker keeps pointing at the stream it has freed.           *)
Free_keeps(s) ==
  /\ status' = [status EXCEPT ![s] = "freed"]
  /\ log' = s
  /\ middle' = (middle \/ s # First(Alive))

(* _tlog_close frees the stream.  Only when it was the head of the list    *)
(* the worker learns of it: otherwise -1 is returned, as for a stream that *)
(* was not freed.                                                          *)
Free(s) ==
  /\ status' = [status EXCEPT ![s] = "freed"]
  /\ log' = IF s = First(Alive) THEN None ELSE s
  /\ middle' = (middle \/ s # First(Alive))

(* Mutant: a closed stream is freed whatever it holds.                     *)
Visit_closes(s) ==
  \/ /\ status[s] = "freed"
     /\ wpc' = "undefined" /\ log' = s
     /\ UNCHANGED <<status, zip, log_len, middle>>
  \/ /\ status[s] = "closed"
     /\ wpc' = "top"
     /\ IF zip[s] = "running"
        THEN log' = s /\ UNCHANGED <<status, zip, middle>>
        ELSE zip' = [zip EXCEPT ![s] = "none"] /\ Free(s)
     /\ UNCHANGED log_len
  \/ /\ status[s] = "open" /\ data[s] > 0
     /\ wpc' = "write" /\ log' = s /\ log_len' = data[s]
     /\ UNCHANGED <<status, zip, middle>>
  \/ /\ status[s] = "open" /\ data[s] = 0
     /\ wpc' = "top" /\ log' = s
     /\ UNCHANGED <<status, zip, log_len, middle>>

(* The stream the worker has come to: its lines are noted, or, without     *)
(* any, a closed one is freed if its gzip has ended.                       *)
Visit(s) ==
  \/ /\ status[s] = "freed"
     /\ wpc' = "undefined" /\ log' = s
     /\ UNCHANGED <<status, zip, log_len, middle>>
  \/ /\ s \in Alive /\ data[s] > 0
     /\ wpc' = "write" /\ log' = s /\ log_len' = data[s]
     /\ UNCHANGED <<status, zip, middle>>
  \/ /\ s \in Alive /\ data[s] = 0
     /\ wpc' = "top"
     /\ IF status[s] = "open" \/ zip[s] = "running"
        THEN log' = s /\ UNCHANGED <<status, zip, middle>>
        ELSE zip' = [zip EXCEPT ![s] = "none"] /\ Free(s)
     /\ UNCHANGED log_len

(* Mutant: every round begins at the head.                                 *)
NextLog_head == First(Alive)

(* _tlog_next_log, while the worker's pointer is good.                     *)
NextLog == IF log = None THEN First(Alive) ELSE First({s \in Alive : s < log})

(* The worker moves on.  When no stream has anything it waits.             *)
next_log ==
  /\ wpc = "next"
  /\ \/ /\ log # None /\ status[log] = "freed"
        /\ wpc' = "undefined"
        /\ UNCHANGED <<status, zip, log, log_len, middle>>
     \/ /\ log = None \/ log \in Alive
        /\ \/ /\ NextLog = None
              /\ wpc' = "top" /\ log' = None
              /\ UNCHANGED <<status, zip, log_len, middle>>
           \/ /\ NextLog # None /\ ~AnyData /\ run
              /\ wpc' = "wait" /\ log' = NextLog
              /\ UNCHANGED <<status, zip, log_len, middle>>
           \/ NextLog # None /\ (AnyData \/ ~run) /\ Visit(NextLog)
  /\ UNCHANGED <<KeepsProgram, data, owed, waited, last_log, notify_log, full>>

(* _tlog_wait_log_locked ends, by a signal or after two seconds: only a    *)
(* stream somebody has named is looked at.                                 *)
wait_log ==
  /\ wpc = "wait"
  /\ notify_log' = None
  /\ \/ /\ notify_log = None
        /\ wpc' = "top" /\ log' = None
        /\ UNCHANGED <<status, zip, log_len, middle>>
     \/ notify_log # None /\ Visit(notify_log)
  /\ UNCHANGED <<KeepsProgram, data, owed, waited, last_log, full>>

(* The output function may rotate the file and start a gzip.               *)
work_write ==
  /\ wpc = "write" /\ wpc' = "release"
  /\ \/ UNCHANGED zip
     \/ /\ log \in mode.rotating /\ zip[log] = "none"
        /\ zip' = [zip EXCEPT ![log] = "running"]
  /\ UNCHANGED <<KeepsProgram, list, waited, last_log, notify_log, log, log_len, history>>

(* What was output is released; threads may have added lines since.        *)
work_release ==
  /\ wpc = "release" /\ wpc' = "top"
  /\ data' = [data EXCEPT ![log] = @ - log_len]
  /\ owed' = [owed EXCEPT ![log] = IF @ > log_len THEN @ - log_len ELSE 0]
  /\ log_len' = 0
  /\ UNCHANGED <<KeepsProgram, status, gzips, notify_log, log, history>>

WorkerStep == work_top \/ next_log \/ wait_log \/ work_write \/ work_release

-----------------------------------------------------------------------------
(* tlog_exit.                                                              *)
exit_stop ==
  /\ xpc = "no" /\ xpc' = "joining" /\ wpc # "undefined"
  /\ run' = FALSE
  /\ UNCHANGED <<list, gzips, notify_log, worker, late, history>>

exit_join ==
  /\ xpc = "joining" /\ wpc = "done"
  /\ xpc' = "closing"
  /\ UNCHANGED <<list, gzips, notify_log, run, worker, late, history>>

(* Mutant: only the root log is closed.                                    *)
exit_close_root ==
  /\ xpc = "closing"
  /\ zip[0] # "running"
  /\ status' = [status EXCEPT ![0] = "freed"]
  /\ zip' = [zip EXCEPT ![0] = "none"]
  /\ xpc' = "closed"
  /\ UNCHANGED <<mode, data, owed, waited, last_log, notify_log, run, worker, late, history>>

(* The head of the list is closed until the list is empty; the call waits  *)
(* for the gzip of each.                                                   *)
exit_close ==
  /\ xpc = "closing"
  /\ LET s == First(Alive)
     IN  IF s = None
         THEN xpc' = "closed" /\ UNCHANGED <<status, zip>>
         ELSE /\ zip[s] # "running"
              /\ status' = [status EXCEPT ![s] = "freed"]
              /\ zip' = [zip EXCEPT ![s] = "none"]
              /\ UNCHANGED xpc
  /\ UNCHANGED <<mode, data, owed, waited, last_log, notify_log, run, worker, late, history>>

ExitStep == exit_join \/ exit_close

-----------------------------------------------------------------------------
(* External: gzip ends, the second changes.                                *)
gzip_end(s) ==
  /\ zip[s] = "running" /\ wpc # "undefined"
  /\ zip' = [zip EXCEPT ![s] = "ended"]
  /\ UNCHANGED <<list, waited, last_log, notify_log, run, worker, xpc, late, history>>

tick ==
  /\ \E s \in Streams : waited[s]
  /\ wpc # "undefined" /\ xpc # "closed"
  /\ waited' = [s \in Streams |-> FALSE]
  /\ UNCHANGED <<list, zip, last_log, notify_log, run, worker, xpc, late, history>>

Next ==
  \/ \E s \in Streams \ {0} : tlog_open(s) \/ tlog_close(s)
  \/ \E s \in Streams : log_line(s) \/ log_full(s) \/ gzip_end(s)
  \/ WorkerStep \/ exit_stop \/ ExitStep \/ tick

Spec == Init /\ [][Next]_vars

(* The worker and tlog_exit run, gzip ends, time passes.  Nobody has to    *)
(* open, log, close or exit.                                               *)
FairSpec ==
  /\ Spec
  /\ WF_vars(WorkerStep) /\ WF_vars(ExitStep)
  /\ \A s \in Streams : WF_vars(gzip_end(s))
  /\ WF_vars(tick)

-----------------------------------------------------------------------------
(* Properties.                                                             *)

(* The worker follows a pointer to a freed stream only if a stream was     *)
(* freed while a newer one was on the list (tlog.c:1205 returns -1 for     *)
(* it), whether that one was open or closed and not yet freed, or if a     *)
(* ring was full (tlog.c:486 leaves notify_log set).  Closing the newest   *)
(* stream first does not prevent the former: the worker may have passed    *)
(* the newer one before it was closed.                                     *)
SafeUse == wpc = "undefined" => middle \/ full

(* A stream is freed only when all its lines, up to those logged after     *)
(* tlog_exit was called, are output and its gzip has been waited for.      *)
FreedWhenDone == \A s \in Streams : status[s] = "freed" => owed[s] = 0 /\ zip[s] = "none"

(* No stream starves, however busy the others are: what it holds is output *)
(* in a later round of the list.                                           *)
StreamsServed ==
  \A s \in Streams :
    data[s] > 0 /\ run ~> (wpc \in {"write", "release"} /\ log = s) \/ wpc = "undefined"

(* Once tlog_exit is called every stream is freed and the call returns.    *)
ExitFreesAll ==
  ~run ~> (xpc = "closed" /\ Alive = {}) \/ wpc = "undefined"

(* A gzip that has ended is waited for although _tlog_wait_pids asks for   *)
(* one stream a round and begins at the head, as long as not two others    *)
(* have one too.                                                           *)
GzipsReaped ==
  \A s \in Streams :
    zip[s] = "ended" ~> \/ zip[s] # "ended" \/ wpc = "undefined"
                        \/ Cardinality({t \in Streams \ {s} : zip[t] # "none"}) > 1
=============================================================================
