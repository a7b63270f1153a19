------------------------------- MODULE TLogRing --------------------------------
(***************************************************************************)
(* The logger of useapp/tlog.c: threads that log (_tlog_vprintf) put lines *)
(* into a byte ring, one worker thread (_tlog_work) hands them to the      *)
(* output function and releases them.  The ring never splits a line: when  *)
(* less than a line is left behind `end', the writer remembers where the   *)
(* data stops in ext_end and starts again at 0.                            *)
(*                                                                         *)
(* A step here is what a thread does between taking and giving back a      *)
(* mutex.  The worker reads the ring, and only the worker, without holding *)
(* the mutex.  Modelled is the one log the daemon opens (tlog_init), not   *)
(* segmented; bytes are numbered in the order they are accepted.           *)
(***************************************************************************)
EXTENDS Integers, Sequences, FiniteSets

CONSTANTS
  Writers,   \* threads that log
  MaxLine,   \* TLOG_MAX_LINE_LEN
  BuffSize,  \* log->buffsize
  Calls      \* bound: calls of _tlog_vprintf

(* tlog_init refuses a buffer of less than two lines.                      *)
ASSUME RingAssumption ==
  /\ IsFiniteSet(Writers)
  /\ MaxLine \in Nat /\ MaxLine > 1
  /\ BuffSize \in Nat /\ BuffSize >= 2 * MaxLine
  /\ Calls \in Nat

VARIABLES
  block,                     \* opened without TLOG_NONBLOCK
  buff, start, end, ext_end, dropped, waiters,
  run, is_wait,              \* tlog.run, tlog.is_wait
  notify_log,                \* tlog.notify_log is set (there is one log)
  (* _tlog_work *)
  wpc,
  log,                       \* whether the worker's cursor is on the log
  log_len, log_extlen, log_end, log_extend, log_dropped,
  (* _tlog_vprintf, per thread *)
  pc,
  (* tlog_exit *)
  xpc,
  (* history: calls made, lines and bytes accepted, bytes released, bytes  *)
  (* accepted before tlog_exit, bytes output, dropped lines reported       *)
  calls, lines, wr, rd, wr_exit, out, reported

conf     == <<block, xpc>>
ring     == <<buff, start, end, ext_end>>
snapshot == <<log_len, log_extlen, log_end, log_extend, log_dropped>>
worker   == <<wpc, log, snapshot>>
input    == <<calls, lines, wr>>
output   == <<out, reported>>
vars     == <<block, ring, dropped, waiters, run, is_wait, notify_log, worker,
              pc, xpc, input, rd, wr_exit, output>>

Pos == 0 .. BuffSize - 1

(* A formatted line; a longer one is replaced by a short notice.           *)
LineLen == 1 .. MaxLine - 1

TypeOK ==
  /\ block \in BOOLEAN /\ run \in BOOLEAN /\ is_wait \in BOOLEAN
  /\ notify_log \in BOOLEAN /\ log \in BOOLEAN
  /\ buff \in [Pos -> Nat]
  /\ start \in 0 .. BuffSize - MaxLine
  /\ end \in 0 .. BuffSize - MaxLine
  /\ ext_end \in {0} \cup (BuffSize - MaxLine + 1 .. BuffSize - 1)
  /\ dropped \in Nat
  /\ waiters = Cardinality({w \in Writers : pc[w] \in {"waiting", "woken"}})
  /\ wpc \in {"top", "lock", "wait", "output", "output_ext", "output_dropped",
              "release", "wakeup", "done"}
  /\ log_len \in 0 .. BuffSize - 1 /\ log_extlen \in Pos
  /\ log_end \in Pos /\ log_extend \in 0 .. BuffSize - 1
  /\ log_dropped \in Nat
  /\ pc \in [Writers -> {"idle", "print", "unlocked", "waiting", "woken"}]
  /\ xpc \in {"no", "joining", "closed"}
  /\ calls \in 0 .. Calls /\ lines \in 0 .. Calls
  /\ wr \in Nat /\ rd \in 0 .. wr /\ wr_exit \in 0 .. wr
  /\ out \in Seq(Nat) /\ reported \in Nat

Init ==
  /\ block \in BOOLEAN
  /\ buff = [p \in Pos |-> 0] /\ start = 0 /\ end = 0 /\ ext_end = 0
  /\ dropped = 0 /\ waiters = 0
  /\ run = TRUE /\ is_wait = FALSE /\ notify_log = FALSE
  /\ wpc = "top" /\ log = FALSE
  /\ log_len = 0 /\ log_extlen = 0 /\ log_end = 0 /\ log_extend = 0 /\ log_dropped = 0
  /\ pc = [w \in Writers |-> "idle"]
  /\ xpc = "no"
  /\ calls = 0 /\ lines = 0 /\ wr = 0 /\ rd = 0 /\ wr_exit = 0
  /\ out = <<>> /\ reported = 0

-----------------------------------------------------------------------------
(* Logging: _tlog_vprintf.                                                 *)

(* Mutant: full is taken for empty.                                        *)
Room_confused ==
  IF end >= start THEN BuffSize - end ELSE start - end

(* The contiguous room at end.  With end = start the ring is full when     *)
(* ext_end says there is data, and empty otherwise.                        *)
Room ==
  IF end = start THEN (IF ext_end = 0 THEN BuffSize - end ELSE 0)
  ELSE IF end > start THEN BuffSize - end
  ELSE start - end

Fits == Room >= MaxLine

(* A call starts; one that may not block is refused at once, and counted,  *)
(* when there is no room now.  tlog_exit clears tlog.root: a later call    *)
(* does not come here.  A call whose formatting fails returns without a    *)
(* trace and is left out.                                                  *)
vprintf(w) ==
  /\ xpc # "closed"
  /\ pc[w] = "idle" /\ calls < Calls
  /\ calls' = calls + 1
  /\ IF block \/ Fits
     THEN pc' = [pc EXCEPT ![w] = "print"] /\ UNCHANGED dropped
     ELSE dropped' = dropped + 1 /\ UNCHANGED pc
  /\ UNCHANGED <<block, ring, waiters, run, is_wait, notify_log, worker, xpc, lines, wr, rd,
                 wr_exit, output>>

(* The formatted line is copied behind end, and end goes back to 0 when a  *)
(* further line might not fit.  A waiting worker is signalled.             *)
Write(len, wraps) ==
  /\ buff' = [p \in Pos |-> IF p \in end .. end + len - 1 THEN wr + 1 + p - end ELSE buff[p]]
  /\ wr' = wr + len
  /\ IF wraps
     THEN ext_end' = end + len /\ end' = 0
     ELSE end' = end + len /\ UNCHANGED ext_end

(* Mutant: the test for a further line is off by one.                      *)
write_line_wraps_late(w) ==
  /\ xpc # "closed"
  /\ pc[w] = "print" /\ Fits
  /\ \E len \in LineLen : Write(len, end + len > BuffSize - MaxLine + 1)
  /\ pc' = [pc EXCEPT ![w] = "idle"]
  /\ lines' = lines + 1
  /\ notify_log' = (notify_log \/ is_wait)
  /\ UNCHANGED <<conf, start, dropped, waiters, run, is_wait, worker, calls, rd, wr_exit, output>>

(* The line is stored, the call returns.                                   *)
write_line(w) ==
  /\ xpc # "closed"
  /\ pc[w] = "print" /\ Fits
  /\ \E len \in LineLen : Write(len, end + len > BuffSize - MaxLine)
  /\ pc' = [pc EXCEPT ![w] = "idle"]
  /\ lines' = lines + 1
  /\ notify_log' = (notify_log \/ is_wait)
  /\ UNCHANGED <<conf, start, dropped, waiters, run, is_wait, worker, calls, rd, wr_exit, output>>

(* No room: the line is dropped and counted, or the thread gives the mutex *)
(* back and goes to sleep.                                                 *)
no_room(w) ==
  /\ xpc # "closed"
  /\ pc[w] = "print" /\ ~Fits
  /\ notify_log' = (notify_log \/ end # start)
  /\ IF block
     THEN pc' = [pc EXCEPT ![w] = "unlocked"] /\ UNCHANGED dropped
     ELSE pc' = [pc EXCEPT ![w] = "idle"] /\ dropped' = dropped + 1
  /\ UNCHANGED <<conf, ring, waiters, run, is_wait, worker, input, rd, wr_exit, output>>

(* pthread_cond_wait: taking log->lock, counting and waiting are one step. *)
cond_wait(w) ==
  /\ xpc # "closed"
  /\ pc[w] = "unlocked"
  /\ pc' = [pc EXCEPT ![w] = "waiting"]
  /\ waiters' = waiters + 1
  /\ UNCHANGED <<conf, ring, dropped, run, is_wait, notify_log, worker, input, rd, wr_exit,
                 output>>

(* A woken thread leaves the count and looks for room again.  POSIX lets   *)
(* pthread_cond_wait return without a broadcast too.                       *)
leave_wait(w) ==
  /\ xpc # "closed"
  /\ pc[w] = "woken"
  /\ pc' = [pc EXCEPT ![w] = "print"]
  /\ waiters' = waiters - 1
  /\ UNCHANGED <<conf, ring, dropped, run, is_wait, notify_log, worker, input, rd, wr_exit,
                 output>>

spurious_wakeup(w) ==
  /\ xpc # "closed"
  /\ pc[w] = "waiting"
  /\ pc' = [pc EXCEPT ![w] = "woken"]
  /\ UNCHANGED <<conf, ring, dropped, waiters, run, is_wait, notify_log, worker, input, rd,
                 wr_exit, output>>

-----------------------------------------------------------------------------
(* The worker: _tlog_work.                                                 *)

has_data == end # start \/ ext_end > 0

KeepsLogging == <<conf, run, pc, input, wr_exit>>

(* Mutants: the worker ends without looking at the ring; it waits for the  *)
(* threads that wait for it.                                               *)
work_top_ends_at_once ==
  /\ wpc = "top"
  /\ wpc' = IF ~run THEN "done" ELSE "lock"
  /\ UNCHANGED <<KeepsLogging, ring, dropped, waiters, is_wait, notify_log, log, snapshot, rd,
                 output>>

work_top_awaits_callers ==
  /\ wpc = "top"
  /\ wpc' = IF ~run /\ ~has_data /\ waiters = 0 THEN "done" ELSE "lock"
  /\ UNCHANGED <<KeepsLogging, ring, dropped, waiters, is_wait, notify_log, log, snapshot, rd,
                 output>>

(* The head of the loop: after tlog_exit the worker ends once the ring is  *)
(* empty.  tlog.run and the ring are read in this order, and read again    *)
(* under the mutex below.                                                  *)
work_top ==
  /\ wpc = "top"
  /\ wpc' = IF ~run /\ ~has_data THEN "done" ELSE "lock"
  /\ UNCHANGED <<KeepsLogging, ring, dropped, waiters, is_wait, notify_log, log, snapshot, rd,
                 output>>

(* Mutant: the drop counter is read but not cleared.                       *)
TakeSnapshot_keeps_count ==
  /\ log_len' = IF end > start THEN end - start
                ELSE IF ext_end > 0 THEN ext_end - start ELSE 0
  /\ log_extend' = ext_end
  /\ log_extlen' = IF end < start THEN end ELSE 0
  /\ log_end' = end
  /\ log_dropped' = dropped
  /\ UNCHANGED dropped

(* What is in the ring is noted, oldest part first, and the drop counter   *)
(* taken along.                                                            *)
TakeSnapshot ==
  /\ log_len' = IF end > start THEN end - start
                ELSE IF ext_end > 0 THEN ext_end - start ELSE 0
  /\ log_extend' = ext_end
  /\ log_extlen' = IF end < start THEN end ELSE 0
  /\ log_end' = end
  /\ log_dropped' = dropped
  /\ dropped' = 0

Take ==
  IF has_data
  THEN TakeSnapshot /\ wpc' = "output"
  ELSE wpc' = "top" /\ UNCHANGED <<snapshot, dropped>>

(* The cursor moves on: from the only log to none, from none to the log.   *)
(* With nothing to do the worker waits, two seconds at most.               *)
next_log ==
  /\ wpc = "lock"
  /\ log' = ~log
  /\ IF log THEN wpc' = "top" /\ UNCHANGED <<snapshot, dropped, is_wait>>
     ELSE IF ~has_data /\ run
     THEN wpc' = "wait" /\ is_wait' = TRUE /\ UNCHANGED <<snapshot, dropped>>
     ELSE Take /\ UNCHANGED is_wait
  /\ UNCHANGED <<KeepsLogging, ring, waiters, notify_log, rd, output>>

(* The wait ends, by a signal or by its time: the log a writer has named   *)
(* is looked at, and no log at all without one.                            *)
wait_log ==
  /\ wpc = "wait"
  /\ is_wait' = FALSE /\ notify_log' = FALSE
  /\ log' = notify_log
  /\ IF notify_log THEN Take ELSE wpc' = "top" /\ UNCHANGED <<snapshot, dropped>>
  /\ UNCHANGED <<KeepsLogging, ring, waiters, rd, output>>

(* The output function is given the bytes where they are in the ring.      *)
Bytes(from, n) == [i \in 1 .. n |-> buff[from + i - 1]]

Outputs(label, next, bytes) ==
  /\ wpc = label /\ wpc' = next
  /\ out' = out \o bytes
  /\ UNCHANGED <<KeepsLogging, ring, dropped, waiters, is_wait, notify_log, log, snapshot, rd,
                 reported>>

output_part     == Outputs("output", "output_ext", Bytes(start, log_len))
output_ext_part == Outputs("output_ext", "output_dropped", Bytes(0, log_extlen))

(* How many lines were dropped follows them.                               *)
output_dropped ==
  /\ wpc = "output_dropped" /\ wpc' = "release"
  /\ reported' = reported + log_dropped
  /\ UNCHANGED <<KeepsLogging, ring, dropped, waiters, is_wait, notify_log, log, snapshot, rd,
                 out>>

(* Mutant: ext_end is cleared whether or not it was in the snapshot.       *)
release_forgets_ext ==
  /\ wpc = "release" /\ wpc' = "wakeup"
  /\ start' = log_end
  /\ ext_end' = 0
  /\ rd' = rd + log_len + log_extlen
  /\ UNCHANGED <<KeepsLogging, buff, end, dropped, waiters, is_wait, notify_log, log, snapshot,
                 output>>

(* What was output is released; ext_end is cleared only if it was part of  *)
(* the snapshot, a writer may have set it since.                           *)
release ==
  /\ wpc = "release" /\ wpc' = "wakeup"
  /\ start' = log_end
  /\ ext_end' = IF log_extend > 0 THEN 0 ELSE ext_end
  /\ rd' = rd + log_len + log_extlen
  /\ UNCHANGED <<KeepsLogging, buff, end, dropped, waiters, is_wait, notify_log, log, snapshot,
                 output>>

(* _tlog_wakeup_waiters: every thread that waits now is woken.             *)
wakeup_waiters ==
  /\ wpc = "wakeup" /\ wpc' = "top"
  /\ pc' = IF waiters > 0
           THEN [w \in Writers |-> IF pc[w] = "waiting" THEN "woken" ELSE pc[w]]
           ELSE pc
  /\ UNCHANGED <<conf, run, ring, dropped, waiters, is_wait, notify_log, log, snapshot, input,
                 rd, wr_exit, output>>

WorkerStep ==
  \/ work_top \/ next_log \/ wait_log
  \/ output_part \/ output_ext_part \/ output_dropped
  \/ release \/ wakeup_waiters

-----------------------------------------------------------------------------
(* tlog_exit: the worker is told to end and joined; then the log is freed. *)
exit_stop ==
  /\ xpc = "no" /\ xpc' = "joining"
  /\ run' = FALSE
  /\ wr_exit' = wr
  /\ UNCHANGED <<block, ring, dropped, waiters, is_wait, notify_log, worker, pc, input, rd,
                 output>>

exit_close ==
  /\ xpc = "joining" /\ wpc = "done"
  /\ xpc' = "closed"
  /\ UNCHANGED <<block, ring, dropped, waiters, run, is_wait, notify_log, worker, pc, input, rd,
                 wr_exit, output>>

(* What a call does once it has begun.                                     *)
CallStep(w) == write_line(w) \/ no_room(w) \/ cond_wait(w) \/ leave_wait(w)

Next ==
  \/ WorkerStep
  \/ \E w \in Writers : vprintf(w) \/ CallStep(w) \/ spurious_wakeup(w)
  \/ exit_stop \/ exit_close

Spec == Init /\ [][Next]_vars

(* Every thread runs; nobody has to log, or to call tlog_exit.             *)
FairSpec ==
  /\ Spec
  /\ WF_vars(WorkerStep)
  /\ \A w \in Writers : WF_vars(CallStep(w))
  /\ WF_vars(exit_close)

-----------------------------------------------------------------------------
(* Properties.                                                             *)

(* A writer never touches a byte the worker has not released, although the *)
(* worker reads the ring without the mutex (tlog.c:1406) and indexes it    *)
(* with what it noted before.                                              *)
NoOverwrite == [][\A p \in Pos : buff'[p] # buff[p] => buff[p] <= rd]_vars

(* The output function sees every accepted byte once and in order: no      *)
(* line is lost, repeated or torn where the ring wraps (tlog.c:526) or     *)
(* while writers fill it between the snapshot and its release.             *)
OutputInOrder == out = [i \in 1 .. Len(out) |-> i]

(* Every call is in progress, accepted, or counted exactly once as         *)
(* dropped: the counter that writers raise and the worker takes            *)
(* (tlog.c:1402) loses nothing in between.                                 *)
DropsCounted ==
  calls = lines + Cardinality({w \in Writers : pc[w] # "idle"}) + dropped + reported
          + (IF wpc \in {"output", "output_ext", "output_dropped"} THEN log_dropped ELSE 0)

(* "flush pending log message, and exit tlog" (tlog.h:113): when the       *)
(* worker has ended, all that was accepted before tlog_exit is output.     *)
ExitFlushes == wpc = "done" => Len(out) >= wr_exit

(* Once tlog_exit is called the worker ends.                               *)
ExitTerminates == ~run ~> wpc = "done"

(* What is accepted while the logger runs is output in the end.            *)
EventuallyOutput ==
  \A n \in 1 .. Calls * (MaxLine - 1) : (run /\ wr >= n) ~> Len(out) >= n

(* "block wait for free buffer" (tlog.c:500): a thread that waits does not *)
(* go on waiting when there is room.                                       *)
WaitersProceed ==
  \A w \in Writers : (pc[w] = "waiting" /\ Fits) ~> (pc[w] # "waiting" \/ ~Fits \/ ~run)
=============================================================================
