--------------------------- MODULE TLogStreamsProofs ---------------------------
(***************************************************************************)
(* The safety of the list of streams of useapp/tlog.c for any number of    *)
(* streams, any size of the rings and any use of the logger.               *)
(*                                                                         *)
(* The argument has two parts.  Pointers: the worker's own pointer goes    *)
(* bad only when a stream is freed under a newer one, and notify_log only  *)
(* when a caller found a ring full, because otherwise it is set while the  *)
(* worker waits, when nobody frees, and the wait clears it.  Debts: a      *)
(* stream never owes more lines than its ring holds, so an empty ring owes *)
(* nothing; and when the worker ends every ring is empty, what is logged   *)
(* after that being logged after tlog_exit was called.                     *)
(***************************************************************************)
EXTENDS TLogStreams, WellFoundedInduction, TLAPS

(* The labels at which the worker is inside its loop.                      *)
Looping == wpc \in {"top", "next", "wait", "write", "release"}

(* The pointers the worker may follow.                                     *)
Pointers ==
  /\ Looping /\ ~middle => log = None \/ log \in Alive
  /\ Looping /\ ~full => notify_log = None \/ (wpc = "wait" /\ notify_log \in Alive)
  /\ wpc \in {"write", "release"} => log \in Alive /\ log_len <= data[log]

(* What a stream owes is in its ring; one that is not on the list owes     *)
(* nothing and has no gzip.                                                *)
Debts ==
  /\ \A s \in Streams : owed[s] <= data[s]
  /\ \A s \in Streams \ Alive : owed[s] = 0 /\ zip[s] = "none"

(* tlog_exit and the end of the worker.                                    *)
Ending ==
  /\ run <=> xpc = "no"
  /\ wpc = "done" => ~run /\ \A s \in Streams : owed[s] = 0
  /\ xpc \in {"closing", "closed"} => wpc = "done"

IndInv == TypeOK /\ SafeUse /\ Pointers /\ Debts /\ Ending

-----------------------------------------------------------------------------
(* The list.                                                               *)

(* A set of streams that is not empty has a newest one.                    *)
LEMMA NewestExists ==
  ASSUME NEW S \in SUBSET Streams, S # {}
  PROVE  \E x \in S : \A y \in S : x >= y
<1> DEFINE T == {n \in Nat : MaxOpen - n \in S}
<1>1. T \subseteq Nat
  OBVIOUS
<1>2. T # {}
  <2>1. PICK x \in S : TRUE
    OBVIOUS
  <2>2. MaxOpen - x \in Nat /\ MaxOpen - (MaxOpen - x) = x
    BY StreamsAssumption DEF Streams
  <2>3. QED
    BY <2>1, <2>2
<1>3. PICK n \in T : \A m \in T : ~(<<m, n>> \in OpToRel(<, Nat))
  BY <1>1, <1>2, NatLessThanWellFounded, WFMin
<1>4. \A m \in T : ~(m < n)
  <2>1. ASSUME NEW m \in T, m < n
        PROVE  <<m, n>> \in OpToRel(<, Nat)
    BY <1>1, <2>1 DEF OpToRel
  <2>2. QED
    BY <1>3, <2>1
<1>5. ASSUME NEW y \in S
      PROVE  MaxOpen - n >= y
  <2>1. y \in 0 .. MaxOpen
    BY DEF Streams
  <2>2. MaxOpen - y \in Nat /\ MaxOpen - (MaxOpen - y) = y
    BY <2>1, StreamsAssumption
  <2>3. MaxOpen - y \in T
    BY <2>2
  <2>4. QED
    BY <1>1, <1>4, <2>1, <2>3, StreamsAssumption
<1>6. QED
  BY <1>3, <1>5

(* What First is: a member of the set, unless the set is empty.            *)
LEMMA FirstIsIn ==
  ASSUME NEW S \in SUBSET Streams
  PROVE  /\ First(S) = None <=> S = {}
         /\ First(S) # None => First(S) \in S
         /\ First(S) \in Streams \cup {None}
<1>1. CASE S = {}
  BY <1>1 DEF First, None
<1>2. CASE S # {}
  <2>1. Max(S) \in S
    BY <1>2, NewestExists DEF Max
  <2>2. Max(S) # None
    BY <2>1 DEF None, Streams
  <2>3. QED
    BY <1>2, <2>1, <2>2 DEF First
<1>3. QED
  BY <1>1, <1>2

(* The streams alive, and what changing the status of one does to them.    *)
LEMMA AliveChanges ==
  ASSUME TypeOK
  PROVE  /\ Alive \subseteq Streams
         /\ status' = status => Alive' = Alive
         /\ \A s \in Streams :
              /\ status' = [status EXCEPT ![s] = "open"] => Alive' = Alive \cup {s}
              /\ status' = [status EXCEPT ![s] = "closed"] => Alive' = Alive \cup {s}
              /\ status' = [status EXCEPT ![s] = "freed"] => Alive' = Alive \ {s}
<1>1. Alive \subseteq Streams /\ (status' = status => Alive' = Alive)
  BY DEF Alive
<1>2. ASSUME NEW s \in Streams, status' = [status EXCEPT ![s] = "open"]
      PROVE  Alive' = Alive \cup {s}
  BY <1>2 DEF TypeOK, Alive
<1>3. ASSUME NEW s \in Streams, status' = [status EXCEPT ![s] = "closed"]
      PROVE  Alive' = Alive \cup {s}
  BY <1>3 DEF TypeOK, Alive
<1>4. ASSUME NEW s \in Streams, status' = [status EXCEPT ![s] = "freed"]
      PROVE  Alive' = Alive \ {s}
  BY <1>4 DEF TypeOK, Alive
<1>5. QED
  BY <1>1, <1>2, <1>3, <1>4

-----------------------------------------------------------------------------
(* The program that logs, gzip and the clock.                              *)

(* A stream is opened, or marked by tlog_close.                            *)
LEMMA OpenClose ==
  ASSUME IndInv, NEW s \in Streams \ {0}, tlog_open(s) \/ tlog_close(s)
  PROVE  IndInv'
<1> USE DEF IndInv
<1>1. /\ UNCHANGED <<mode, data, owed, gzips, notify_log, run, worker, xpc, late, history>>
      /\ \/ status' = [status EXCEPT ![s] = "open"]
         \/ status' = [status EXCEPT ![s] = "closed"]
  BY DEF tlog_open, tlog_close
<1>2. Alive' = Alive \cup {s}
  BY <1>1, AliveChanges
<1>3. TypeOK'
  BY <1>1 DEF TypeOK, gzips, worker, history
<1>4. SafeUse'
  BY <1>1 DEF SafeUse, worker, history
<1>5. Pointers'
  BY <1>1, <1>2 DEF Pointers, Looping, worker, history
<1>6. Debts'
  BY <1>1, <1>2 DEF Debts, gzips
<1>7. Ending'
  BY <1>1 DEF Ending, worker
<1>8. QED
  BY <1>3, <1>4, <1>5, <1>6, <1>7

(* A line is accepted: it is owed unless tlog_exit was called, and whoever *)
(* it names to a waiting worker is on the list.                            *)
LEMMA LogLine ==
  ASSUME IndInv, NEW s \in Streams, log_line(s)
  PROVE  IndInv'
<1> USE DEF IndInv
<1>1. /\ s \in Alive /\ data[s] < Cap /\ (run \/ late < mode.late)
      /\ late' = (IF run THEN late ELSE late + 1)
      /\ data' = [data EXCEPT ![s] = @ + 1]
      /\ owed' = (IF run THEN [owed EXCEPT ![s] = @ + 1] ELSE owed)
      /\ notify_log' = (IF wpc = "wait" THEN s ELSE notify_log)
      /\ UNCHANGED <<mode, status, gzips, run, worker, xpc, history>>
  BY DEF log_line, Usable, Alive
<1>2. Alive' = Alive
  BY <1>1, AliveChanges
<1>3. TypeOK'
  <2>1. data' \in [Streams -> 0 .. Cap]
    BY <1>1, StreamsAssumption DEF TypeOK
  <2>2. owed[s] + 1 \in 0 .. Cap
    BY <1>1, StreamsAssumption DEF TypeOK, Debts
  <2>3. owed' \in [Streams -> 0 .. Cap]
    BY <1>1, <2>2 DEF TypeOK
  <2>4. late' \in 0 .. mode.late
    BY <1>1, StreamsAssumption DEF TypeOK
  <2>5. notify_log' \in Streams \cup {None}
    BY <1>1 DEF TypeOK
  <2>6. QED
    BY <1>1, <2>1, <2>3, <2>4, <2>5 DEF TypeOK, gzips, worker, history
<1>4. SafeUse'
  BY <1>1 DEF SafeUse, worker, history
<1>5. Pointers'
  <2>1. (Looping /\ ~middle => log = None \/ log \in Alive)'
    BY <1>1, <1>2 DEF Pointers, Looping, worker, history
  <2>2. (Looping /\ ~full => notify_log = None \/ (wpc = "wait" /\ notify_log \in Alive))'
    BY <1>1, <1>2 DEF Pointers, Looping, worker, history
  <2>3. (wpc \in {"write", "release"} => log \in Alive /\ log_len <= data[log])'
    BY <1>1, <1>2, StreamsAssumption DEF TypeOK, Pointers, worker, Alive
  <2>4. QED
    BY <2>1, <2>2, <2>3 DEF Pointers
<1>6. Debts'
  BY <1>1, <1>2, StreamsAssumption DEF TypeOK, Debts, gzips
<1>7. Ending'
  BY <1>1 DEF Ending, worker
<1>8. QED
  BY <1>3, <1>4, <1>5, <1>6, <1>7

(* A caller finds a ring full.                                             *)
LEMMA LogFull ==
  ASSUME IndInv, NEW s \in Streams, log_full(s)
  PROVE  IndInv'
<1> USE DEF IndInv
<1>1. /\ notify_log' \in {s, notify_log} /\ full' = TRUE
      /\ UNCHANGED <<list, gzips, run, worker, xpc, late, middle>>
  BY DEF log_full
<1>2. Alive' = Alive
  BY <1>1, AliveChanges DEF list
<1>3. TypeOK'
  BY <1>1 DEF TypeOK, list, gzips, worker
<1>4. SafeUse' /\ Pointers'
  BY <1>1, <1>2 DEF SafeUse, Pointers, Looping, list, worker
<1>5. Debts' /\ Ending'
  BY <1>1, <1>2 DEF Debts, Ending, list, gzips, worker
<1>6. QED
  BY <1>3, <1>4, <1>5

(* A gzip ends, the second changes, tlog_exit stops or joins the worker.   *)
LEMMA Outside ==
  ASSUME IndInv, (\E s \in Streams : gzip_end(s)) \/ tick \/ exit_stop \/ exit_join
  PROVE  IndInv'
<1> USE DEF IndInv
<1>1. UNCHANGED <<list, last_log, notify_log, worker, late, history>>
  BY DEF gzip_end, tick, exit_stop, exit_join, gzips
<1>2. Alive' = Alive
  BY <1>1, AliveChanges DEF list
<1>3. zip' = zip \/ \E s \in Streams : zip[s] = "running" /\ zip' = [zip EXCEPT ![s] = "ended"]
  BY DEF gzip_end, tick, exit_stop, exit_join, gzips
<1>4. waited' \in [Streams -> BOOLEAN]
  BY DEF gzip_end, tick, exit_stop, exit_join, gzips, TypeOK
<1>5. \/ UNCHANGED <<run, xpc>>
      \/ xpc = "no" /\ xpc' = "joining" /\ run' = FALSE
      \/ xpc = "joining" /\ xpc' = "closing" /\ wpc = "done" /\ UNCHANGED run
  BY DEF gzip_end, tick, exit_stop, exit_join
<1>6. TypeOK'
  BY <1>1, <1>3, <1>4, <1>5 DEF TypeOK, list, worker, history
<1>7. SafeUse' /\ Pointers'
  BY <1>1, <1>2 DEF SafeUse, Pointers, Looping, list, worker, history
<1>8. Debts'
  BY <1>1, <1>2, <1>3 DEF TypeOK, Debts, list
<1>9. Ending'
  BY <1>1, <1>5 DEF TypeOK, Ending, list, worker
<1>10. QED
  BY <1>6, <1>7, <1>8, <1>9

-----------------------------------------------------------------------------
(* The worker.                                                             *)

(* The head of the loop.  When the worker ends no ring holds a line, so    *)
(* nothing is owed.                                                        *)
LEMMA WorkTop ==
  ASSUME IndInv, work_top
  PROVE  IndInv'
<1> USE DEF IndInv
<1>1. /\ wpc = "top" /\ UNCHANGED <<KeepsProgram, list, notify_log, log, log_len, history>>
      /\ \/ wpc' = "done" /\ ~run /\ ~AnyData /\ UNCHANGED gzips
         \/ /\ wpc' = "next" /\ last_log' = Asked
            /\ waited' = [s \in Streams |-> waited[s] \/ s = Asked]
            /\ zip' = [s \in Streams |-> IF s = Asked /\ zip[s] = "ended" THEN "none" ELSE zip[s]]
  BY DEF work_top
<1>2. Alive' = Alive
  BY <1>1, AliveChanges DEF list
<1>3. Asked \in Streams \cup {None}
  <2>1. {s \in Alive \ {last_log} : zip[s] # "none" /\ ~waited[s]} \in SUBSET Streams
    BY DEF Alive
  <2>2. QED
    BY <2>1, FirstIsIn DEF Asked
<1>4. /\ zip' \in [Streams -> {"none", "running", "ended"}] /\ waited' \in [Streams -> BOOLEAN]
      /\ last_log' \in Streams \cup {None}
      /\ \A s \in Streams : zip[s] = "none" => zip'[s] = "none"
  BY <1>1, <1>3 DEF TypeOK, gzips
<1>5. TypeOK'
  BY <1>1, <1>4 DEF TypeOK, KeepsProgram, list, history
<1>6. SafeUse' /\ Pointers'
  BY <1>1, <1>2 DEF SafeUse, Pointers, Looping, list, history
<1>7. Debts'
  BY <1>1, <1>2, <1>4 DEF TypeOK, Debts, list, Alive
<1>8. Ending'
  <2>1. CASE wpc' = "done"
    <3>1. ~run /\ \A s \in Alive : ~(data[s] > 0)
      BY <1>1, <2>1 DEF AnyData
    <3>2. \A s \in Streams : owed[s] = 0
      BY <3>1 DEF TypeOK, Debts
    <3>3. QED
      BY <1>1, <2>1, <3>1, <3>2 DEF Ending, KeepsProgram, list
  <2>2. CASE wpc' = "next"
    BY <1>1, <2>2 DEF Ending, KeepsProgram, list
  <2>3. QED
    BY <1>1, <2>1, <2>2
<1>9. QED
  BY <1>5, <1>6, <1>7, <1>8

(* What coming to a stream does, and to which streams it does it.          *)
LEMMA VisitEffect ==
  ASSUME TypeOK, NEW s \in Streams, Visit(s)
  PROVE  \/ /\ s \notin Alive /\ wpc' = "undefined" /\ log' = s
            /\ UNCHANGED <<status, zip, log_len, middle>>
         \/ /\ s \in Alive /\ wpc' = "write" /\ log' = s /\ log_len' = data[s]
            /\ UNCHANGED <<status, zip, middle>>
         \/ /\ s \in Alive /\ wpc' = "top" /\ log' = s
            /\ UNCHANGED <<status, zip, log_len, middle>>
         \/ /\ s \in Alive /\ wpc' = "top" /\ data[s] = 0
            /\ status' = [status EXCEPT ![s] = "freed"] /\ zip' = [zip EXCEPT ![s] = "none"]
            /\ \/ log' = None /\ middle' = middle
               \/ log' = s /\ middle' = TRUE
            /\ UNCHANGED log_len
<1>1. status[s] = "freed" => s \notin Alive
  BY DEF Alive
<1>2. ASSUME Free(s)
      PROVE  /\ status' = [status EXCEPT ![s] = "freed"]
             /\ \/ log' = None /\ middle' = middle
                \/ log' = s /\ middle' = TRUE
  BY <1>2, Zenon DEF Free, TypeOK
<1>3. QED
  BY <1>1, <1>2 DEF Visit

(* The worker comes to a stream: one on the list, or one that notify_log   *)
(* names although it is gone.                                              *)
LEMMA VisitKeeps ==
  ASSUME IndInv, NEW s \in Streams, Visit(s), wpc \in {"next", "wait"},
         s \in Alive \/ middle \/ full,
         notify_log' \in {notify_log, None}, ~full => notify_log' = None,
         UNCHANGED <<KeepsProgram, data, owed, waited, last_log, full>>
  PROVE  IndInv'
<1> USE DEF IndInv
<1>1. xpc \notin {"closing", "closed"} /\ None \notin Streams
  BY DEF Ending, None, Streams
<1>2. CASE s \notin Alive /\ wpc' = "undefined" /\ log' = s
           /\ UNCHANGED <<status, zip, log_len, middle>>
  <2>1. Alive' = Alive
    BY <1>2, AliveChanges
  <2>2. TypeOK'
    BY <1>2 DEF TypeOK, KeepsProgram
  <2>3. SafeUse' /\ Pointers'
    BY <1>2 DEF SafeUse, Pointers, Looping
  <2>4. Debts' /\ Ending'
    BY <1>1, <1>2, <2>1 DEF Debts, Ending, KeepsProgram
  <2>5. QED
    BY <2>2, <2>3, <2>4
<1>3. CASE s \in Alive /\ wpc' = "write" /\ log' = s /\ log_len' = data[s]
           /\ UNCHANGED <<status, zip, middle>>
  <2>1. Alive' = Alive
    BY <1>3, AliveChanges
  <2>2. TypeOK'
    BY <1>3 DEF TypeOK, KeepsProgram
  <2>3. SafeUse' /\ Pointers'
    BY <1>3, <2>1, StreamsAssumption DEF SafeUse, Pointers, Looping, TypeOK
  <2>4. Debts' /\ Ending'
    BY <1>1, <1>3, <2>1 DEF Debts, Ending, KeepsProgram
  <2>5. QED
    BY <2>2, <2>3, <2>4
<1>4. CASE s \in Alive /\ wpc' = "top" /\ log' = s
           /\ UNCHANGED <<status, zip, log_len, middle>>
  <2>1. Alive' = Alive
    BY <1>4, AliveChanges
  <2>2. TypeOK'
    BY <1>4 DEF TypeOK, KeepsProgram
  <2>3. SafeUse' /\ Pointers'
    BY <1>4, <2>1 DEF SafeUse, Pointers, Looping
  <2>4. Debts' /\ Ending'
    BY <1>1, <1>4, <2>1 DEF Debts, Ending, KeepsProgram
  <2>5. QED
    BY <2>2, <2>3, <2>4
<1>5. CASE /\ s \in Alive /\ wpc' = "top" /\ data[s] = 0
           /\ status' = [status EXCEPT ![s] = "freed"] /\ zip' = [zip EXCEPT ![s] = "none"]
           /\ (log' = None /\ middle' = middle) \/ (log' = s /\ middle' = TRUE)
           /\ UNCHANGED log_len
  <2>1. Alive' = Alive \ {s}
    BY <1>5, AliveChanges
  <2>2. TypeOK'
    <3>1. status' \in [Streams -> {"new", "open", "closed", "freed"}]
          /\ zip' \in [Streams -> {"none", "running", "ended"}]
      BY <1>5 DEF TypeOK
    <3>2. log' \in Streams \cup {None} /\ middle' \in BOOLEAN
      BY <1>5 DEF TypeOK
    <3>3. QED
      BY <1>5, <3>1, <3>2 DEF TypeOK, KeepsProgram
  <2>3. SafeUse' /\ Pointers'
    BY <1>5, <2>1 DEF SafeUse, Pointers, Looping
  <2>4. Debts'
    BY <1>5, <2>1 DEF TypeOK, Debts
  <2>5. Ending'
    BY <1>1, <1>5 DEF Ending, KeepsProgram
  <2>6. QED
    BY <2>2, <2>3, <2>4, <2>5
<1>6. QED
  BY <1>2, <1>3, <1>4, <1>5, VisitEffect

(* The worker moves on round the list.                                     *)
LEMMA NextLogStep ==
  ASSUME IndInv, next_log
  PROVE  IndInv'
<1> USE DEF IndInv
<1>1. /\ wpc = "next"
      /\ UNCHANGED <<KeepsProgram, data, owed, waited, last_log, notify_log, full>>
  BY DEF next_log
<1>2. xpc \notin {"closing", "closed"} /\ None \notin Streams
      /\ (~full => notify_log = None)
  BY <1>1 DEF Ending, None, Streams, Pointers, Looping
<1>3. NextLog \in Streams \cup {None} /\ (NextLog # None => NextLog \in Alive)
  <2>1. Alive \in SUBSET Streams /\ {s \in Alive : s < log} \in SUBSET Streams
    BY DEF Alive
  <2>2. QED
    BY <2>1, FirstIsIn DEF NextLog
<1>4. CASE NextLog # None /\ Visit(NextLog)
  BY <1>1, <1>2, <1>3, <1>4, VisitKeeps
<1>5. CASE /\ UNCHANGED <<status, zip, log_len, middle>>
           /\ \/ log # None /\ status[log] = "freed" /\ wpc' = "undefined" /\ log' = log
              \/ wpc' = "top" /\ log' = None
              \/ wpc' = "wait" /\ log' = NextLog /\ NextLog # None
  <2>1. Alive' = Alive
    BY <1>5, AliveChanges
  <2>2. TypeOK'
    BY <1>1, <1>3, <1>5 DEF TypeOK, KeepsProgram
  <2>3. wpc' = "undefined" => middle
    BY <1>1, <1>5 DEF Pointers, Looping, Alive
  <2>4. SafeUse' /\ Pointers'
    BY <1>1, <1>2, <1>3, <1>5, <2>1, <2>3 DEF SafeUse, Pointers, Looping
  <2>5. Debts' /\ Ending'
    BY <1>1, <1>2, <1>5, <2>1 DEF Debts, Ending, KeepsProgram
  <2>6. QED
    BY <2>2, <2>4, <2>5
<1>6. QED
  BY <1>4, <1>5 DEF next_log

(* The wait ends.                                                          *)
LEMMA WaitLogStep ==
  ASSUME IndInv, wait_log
  PROVE  IndInv'
<1> USE DEF IndInv
<1>1. /\ wpc = "wait" /\ notify_log' = None
      /\ UNCHANGED <<KeepsProgram, data, owed, waited, last_log, full>>
  BY DEF wait_log
<1>2. xpc \notin {"closing", "closed"}
  BY <1>1 DEF Ending
<1>3. CASE notify_log # None /\ Visit(notify_log)
  <2>1. notify_log \in Streams /\ (notify_log \in Alive \/ middle \/ full)
    BY <1>1, <1>3 DEF TypeOK, Pointers, Looping
  <2>2. QED
    BY <1>1, <1>3, <2>1, VisitKeeps
<1>4. CASE wpc' = "top" /\ log' = None /\ UNCHANGED <<status, zip, log_len, middle>>
  <2>1. Alive' = Alive
    BY <1>4, AliveChanges
  <2>2. TypeOK'
    BY <1>1, <1>4 DEF TypeOK, KeepsProgram
  <2>3. SafeUse' /\ Pointers'
    BY <1>1, <1>4 DEF SafeUse, Pointers, Looping
  <2>4. Debts' /\ Ending'
    BY <1>1, <1>2, <1>4, <2>1 DEF Debts, Ending, KeepsProgram
  <2>5. QED
    BY <2>2, <2>3, <2>4
<1>5. QED
  BY <1>3, <1>4 DEF wait_log

(* The worker outputs what it has noted, and may start a gzip.             *)
LEMMA WorkWrite ==
  ASSUME IndInv, work_write
  PROVE  IndInv'
<1> USE DEF IndInv
<1>1. /\ wpc = "write" /\ wpc' = "release"
      /\ UNCHANGED <<KeepsProgram, list, waited, last_log, notify_log, log, log_len, history>>
      /\ zip' = zip \/ zip' = [zip EXCEPT ![log] = "running"]
  BY DEF work_write
<1>2. log \in Alive /\ xpc \notin {"closing", "closed"}
  BY <1>1 DEF Pointers, Ending
<1>3. Alive' = Alive /\ Alive \subseteq Streams
  BY <1>1, AliveChanges DEF list
<1>4. TypeOK'
  BY <1>1, <1>2 DEF TypeOK, KeepsProgram, list, history
<1>5. SafeUse' /\ Pointers'
  BY <1>1, <1>3 DEF SafeUse, Pointers, Looping, list, history
<1>6. Debts'
  BY <1>1, <1>2, <1>3 DEF TypeOK, Debts, list
<1>7. Ending'
  BY <1>1, <1>2 DEF Ending, KeepsProgram, list
<1>8. QED
  BY <1>4, <1>5, <1>6, <1>7

(* What was output is released.                                            *)
LEMMA WorkRelease ==
  ASSUME IndInv, work_release
  PROVE  IndInv'
<1> USE DEF IndInv
<1>1. /\ wpc = "release" /\ wpc' = "top" /\ log_len' = 0
      /\ data' = [data EXCEPT ![log] = data[log] - log_len]
      /\ owed' = [owed EXCEPT ![log] = IF owed[log] > log_len THEN owed[log] - log_len ELSE 0]
      /\ UNCHANGED <<KeepsProgram, status, gzips, notify_log, log, history>>
  BY DEF work_release
<1>2. log \in Alive /\ log \in Streams /\ log_len <= data[log] /\ xpc \notin {"closing", "closed"}
  BY <1>1 DEF Pointers, Ending, Alive
<1>3. Alive' = Alive
  BY <1>1, AliveChanges
<1>4. data[log] - log_len \in 0 .. Cap
      /\ (IF owed[log] > log_len THEN owed[log] - log_len ELSE 0) \in 0 .. Cap
  BY <1>2, StreamsAssumption DEF TypeOK
<1>5. TypeOK'
  BY <1>1, <1>2, <1>4, StreamsAssumption DEF TypeOK, KeepsProgram, gzips, history
<1>6. SafeUse' /\ Pointers'
  BY <1>1, <1>3 DEF SafeUse, Pointers, Looping, history
<1>7. Debts'
  BY <1>1, <1>2, <1>3, StreamsAssumption DEF TypeOK, Debts, gzips
<1>8. Ending'
  BY <1>1, <1>2 DEF Ending, KeepsProgram
<1>9. QED
  BY <1>5, <1>6, <1>7, <1>8

(* tlog_exit, the worker joined, frees what is left.                       *)
LEMMA ExitClose ==
  ASSUME IndInv, exit_close
  PROVE  IndInv'
<1> USE DEF IndInv
<1>1. /\ xpc = "closing"
      /\ UNCHANGED <<mode, data, owed, waited, last_log, notify_log, run, worker, late, history>>
      /\ \/ xpc' = "closed" /\ UNCHANGED <<status, zip>>
         \/ /\ First(Alive) # None /\ UNCHANGED xpc
            /\ status' = [status EXCEPT ![First(Alive)] = "freed"]
            /\ zip' = [zip EXCEPT ![First(Alive)] = "none"]
  BY DEF exit_close
<1>2. Alive \in SUBSET Streams /\ (First(Alive) # None => First(Alive) \in Alive)
  BY FirstIsIn DEF Alive
<1>3. wpc = "done" /\ \A s \in Streams : owed[s] = 0
  BY <1>1 DEF Ending
<1>4. SafeUse' /\ Pointers' /\ Ending'
  BY <1>1, <1>3 DEF SafeUse, Pointers, Looping, Ending, worker, history
<1>5. CASE xpc' = "closed" /\ UNCHANGED <<status, zip>>
  <2>1. Alive' = Alive
    BY <1>5, AliveChanges
  <2>2. TypeOK' /\ Debts'
    BY <1>1, <1>5, <2>1 DEF TypeOK, Debts, worker, history
  <2>3. QED
    BY <1>4, <2>2
<1>6. CASE /\ First(Alive) # None /\ UNCHANGED xpc
           /\ status' = [status EXCEPT ![First(Alive)] = "freed"]
           /\ zip' = [zip EXCEPT ![First(Alive)] = "none"]
  <2>1. Alive' = Alive \ {First(Alive)}
    BY <1>2, <1>6, AliveChanges
  <2>2. TypeOK'
    BY <1>1, <1>2, <1>6 DEF TypeOK, worker, history
  <2>3. Debts'
    BY <1>1, <1>2, <1>3, <1>6, <2>1 DEF TypeOK, Debts
  <2>4. QED
    BY <1>4, <2>2, <2>3
<1>7. QED
  BY <1>1, <1>5, <1>6

-----------------------------------------------------------------------------
(* The theorems.                                                           *)

(* The logger as tlog_init leaves it.                                      *)
LEMMA InitInd ==
  Init => IndInv
<1> SUFFICES ASSUME Init PROVE IndInv
  OBVIOUS
<1>1. 0 \in Streams /\ 0 \in 0 .. Cap
  BY StreamsAssumption DEF Streams
<1>2. TypeOK
  <2>1. late \in 0 .. mode.late
    BY StreamsAssumption DEF Init
  <2>2. data \in [Streams -> 0 .. Cap] /\ owed \in [Streams -> 0 .. Cap] /\ log_len \in 0 .. Cap
    BY <1>1 DEF Init
  <2>3. /\ mode \in Setups /\ status \in [Streams -> {"new", "open", "closed", "freed"}]
        /\ zip \in [Streams -> {"none", "running", "ended"}]
        /\ waited \in [Streams -> BOOLEAN]
        /\ {last_log, notify_log, log} \subseteq Streams \cup {None}
    BY DEF Init
  <2>4. QED
    BY <2>1, <2>2, <2>3 DEF Init, TypeOK
<1>3. SafeUse /\ Pointers /\ Ending
  BY DEF Init, SafeUse, Pointers, Looping, Ending
<1>4. Debts
  BY DEF Init, Debts
<1>5. QED
  BY <1>2, <1>3, <1>4 DEF IndInv

(* Every step of the program, the worker, tlog_exit and gzip.              *)
LEMMA StepInd ==
  IndInv /\ [Next]_vars => IndInv'
<1> SUFFICES ASSUME IndInv, [Next]_vars PROVE IndInv'
  OBVIOUS
<1>1. CASE UNCHANGED vars
  <2>1. Alive' = Alive
    BY <1>1 DEF vars, list, Alive
  <2>2. TypeOK' /\ SafeUse'
    BY <1>1 DEF IndInv, vars, list, gzips, worker, history, TypeOK, SafeUse
  <2>3. Pointers' /\ Debts' /\ Ending'
    BY <1>1, <2>1 DEF IndInv, vars, list, gzips, worker, history, Pointers, Looping, Debts, Ending
  <2>4. QED
    BY <2>2, <2>3 DEF IndInv
<1>2. CASE WorkerStep
  BY <1>2, WorkTop, NextLogStep, WaitLogStep, WorkWrite, WorkRelease DEF WorkerStep
<1>3. QED
  BY <1>1, <1>2, OpenClose, LogLine, LogFull, Outside, ExitClose DEF Next, ExitStep

(* The inductive invariant holds in every state of the streams.            *)
LEMMA AlwaysInd ==
  Spec => []IndInv
  BY InitInd, StepInd, PTL DEF Spec

(* Type correctness of the streams, the worker's pointers and tlog_exit.   *)
THEOREM TypeCorrect ==
  Spec => []TypeOK
<1>1. IndInv => TypeOK
  BY DEF IndInv
<1>2. QED
  BY <1>1, AlwaysInd, PTL

(* The worker follows a pointer to a freed stream only after a stream was  *)
(* freed under a newer one or a caller found a ring full.                  *)
THEOREM UseIsSafe ==
  Spec => []SafeUse
<1>1. IndInv => SafeUse
  BY DEF IndInv
<1>2. QED
  BY <1>1, AlwaysInd, PTL

(* A stream is freed, by the worker or by tlog_exit, only when its lines   *)
(* are output and its gzip has been waited for.                            *)
THEOREM NothingFreedEarly ==
  Spec => []FreedWhenDone
<1>1. IndInv => FreedWhenDone
  BY DEF IndInv, Debts, FreedWhenDone, Alive
<1>2. QED
  BY <1>1, AlwaysInd, PTL
=============================================================================
