---------------------------- MODULE TLogAloneProofs ----------------------------
(***************************************************************************)
(* What a process that logs alone can rely on: the properties of the log   *)
(* files that useapp/tlog.c keeps only as long as no two processes have    *)
(* had the log open at once, for any number of lines and failures.         *)
(*                                                                         *)
(* While all other processes are off there is one gzip at most besides the *)
(* orphans of crashes, and it is waited for before the next archive is     *)
(* begun.  So the archives, .pending.gz, .pending and the log are in the   *)
(* order of their last writes, and each archive too many is one that the   *)
(* next step removes, or one for a crash or a failure.                     *)
(***************************************************************************)
EXTENDS TLogFilesProofs

(* One process at a time, and the log it has open is under the name.       *)
Alone ==
  alone =>
    /\ ~shared
    /\ \A p, q \in Procs : p # q => At(p, "off") \/ At(q, "off")
    /\ \A p \in Procs : proc[p].fd # 0 => proc[p].fd = dir["log"]

(* Without a crash nobody disturbs a gzip or writes to a file that moved.  *)
Calm == alone /\ crashes = 0 => ~overlap /\ late = {}

(* Only gzip makes a .pending.gz.                                          *)
Plain == mode.nocompress => dir["pending.gz"] = 0

(* A log is under no other name.                                           *)
LogApart ==
  dir["log"] # 0 => dir["log"] # dir["pending.gz"] /\ \A n \in DOMAIN archive : archive[n] # dir["log"]

(* What was written before what: the archives A, .pending.gz z, .pending  *)
(* p, the log l, in the files fs; and nothing before what was removed, c.  *)
HasLines(fs, f)  == f # 0 /\ fs[f].lines # {}
Before(fs, f, g) == HasLines(fs, f) /\ HasLines(fs, g) => fs[f].mtime <= fs[g].mtime
Since(fs, c, f)  == HasLines(fs, f) => c <= fs[f].mtime
Ordered(fs, A, z, p, l, c) ==
  /\ \A f \in A : Before(fs, f, z) /\ Before(fs, f, p) /\ Before(fs, f, l) /\ Since(fs, c, f)
  /\ Before(fs, z, p) /\ Before(fs, z, l) /\ Before(fs, p, l)
  /\ Since(fs, c, z) /\ Since(fs, c, p) /\ Since(fs, c, l)
Chain ==
  alone /\ crashes = 0 =>
    Ordered(files, Range(archive), dir["pending.gz"], dir["pending"], dir["log"], cut)
InTime ==
  /\ \A f \in 1 .. Len(files) : files[f].mtime <= now
  /\ cut <= now

(* What is yet to become an archive nobody counts: the orphans that have   *)
(* not begun, and a .pending.gz of a process that is gone, or that could   *)
(* not archive it when it had waited for its gzip.                         *)
Reaping(p) == proc[p].pc \in {"stat", "free", "rename"} /\ proc[p].line = 0
Starting == {i \in 1 .. MaxCrashes : gz[i].st = "start"}
Removing == {p \in Procs : At(p, "remove")}
Leftover ==
  IF dir["pending.gz"] # 0 /\ \A p \in Procs : gz[p].st \in {"none", "start"} /\ ~Reaping(p) THEN 1 ELSE 0
Bound ==
  alone =>
    /\ Cardinality(Starting) + Leftover <= crashes + faults
    /\ Cardinality(DOMAIN archive) + Cardinality(Starting) + Leftover
         <= LogCount + crashes + faults + Cardinality(Removing)

(* Without crashes and failures .pending, .pending.gz and the lock file    *)
(* are somebody's.                                                         *)
Holder(p) == At(p, "zip") \/ (mode.nocompress /\ proc[p].pc \in {"stat", "free", "rename"})
Clean ==
  alone /\ crashes = 0 /\ faults = 0 =>
    /\ dir["pending"] # 0 => \E p \in Procs : Holder(p) \/ gz[p].st \in {"start", "copy", "unlink"}
    /\ dir["pending.gz"] # 0 => \E p \in Procs : Reaping(p) \/ gz[p].st \in {"copy", "unlink", "done"}
    /\ \A p \in Procs : Holder(p) => dir["pending"] # 0
    /\ \A p \in Procs : gz[p].st = "start" => dir["pending"] # 0 /\ dir["pending.gz"] = 0
    /\ dir["pending"] # 0 /\ dir["pending.gz"] # 0 => \E p \in Procs : Busy(p)
Locked ==
  alone /\ crashes = 0 =>
    /\ dir["lock"] # 0 => \E p \in Procs : dir["lock"] = IF At(p, "lockf") THEN proc[p].lockfd ELSE proc[p].fd_lock
    /\ \A p \in Procs : At(p, "lockf") => proc[p].lockfd # 0
    /\ \A p \in Procs : At(p, "off") => proc[p].fd_lock = 0

(* A line is in one file, but while gzip copies it.                        *)
Fresh ==
  /\ \A f \in 1 .. Len(files) : LinesIn(f) \subseteq 1 .. lines
  /\ \A p \in Procs : proc[p].line # 0 => proc[p].line <= lines
Unwritten ==
  alone =>
    \A p \in Procs : proc[p].line # 0 =>
      ~At(p, "off") /\ \A f \in 1 .. Len(files) : proc[p].line \notin LinesIn(f)
LinesOf(fs, f) == fs[f].lines \ Procs
Apart(fs, a, z, p, l) ==
  /\ \A m, n \in DOMAIN a : m # n => LinesOf(fs, a[m]) \cap LinesOf(fs, a[n]) = {}
  /\ \A m \in DOMAIN a, f \in {z, p, l} :
       f # 0 => f # a[m] /\ LinesOf(fs, a[m]) \cap LinesOf(fs, f) = {}
  /\ \A f \in {z, p} : f # 0 /\ l # 0 => LinesOf(fs, l) \cap LinesOf(fs, f) = {}
OnePlace ==
  alone /\ crashes = 0 /\ faults = 0 =>
    Apart(files, archive, dir["pending.gz"], dir["pending"], dir["log"])

-----------------------------------------------------------------------------
(* One process at a time.                                                  *)

(* A step of an archive, once it is locked.                                *)
Inside(p) ==
  \/ archive_leftover(p) \/ archive_pending(p) \/ archive_log(p) \/ archive_gzip(p) \/ getmtime(p)
  \/ archive_name(p) \/ rename_logfile(p) \/ remove_oldlog(p)

(* What a successful rename does.                                          *)
Renamed(p) ==
  LET f == dir[Target]
      name == proc[p].name
  IN  /\ At(p, "rename") /\ f # 0
      /\ archive' = [n \in DOMAIN archive \cup {name} |-> IF n = name THEN f ELSE archive[n]]
      /\ dir' = [dir EXCEPT ![Target] = 0]

(* What these steps do to the disk.                                        *)
LEMMA InsideIs ==
  ASSUME IndInv, NEW p \in Procs, Inside(p)
  PROVE  /\ worker(p)
         /\ UNCHANGED <<files, now, crashes, lines, late, alone, shared>>
         /\ faults' = faults \/ (Fault /\ Leave(p))
         /\ gz' = gz \/ (archive_gzip(p) /\ gz' = [gz EXCEPT ![p] = NewGzip] /\ dir' = dir)
         /\ \/ dir' = dir /\ archive' = archive /\ proc[p].pc \in {"gz", "pend", "zip", "stat", "free"}
            \/ Leave(p) /\ archive' = archive /\ proc[p].pc \in {"topend", "zip", "stat", "rename"}
            \/ /\ At(p, "topend") /\ dir["log"] # 0 /\ archive' = archive
               /\ dir' = [dir EXCEPT !["pending"] = dir["log"], !["log"] = 0]
            \/ Renamed(p)
            \/ remove_oldlog(p) /\ Leave(p)
         /\ cut' = cut \/ remove_oldlog(p)
<1>1. CASE archive_leftover(p) \/ archive_pending(p) \/ archive_name(p)
  BY <1>1 DEF worker, archive_step, archive_leftover, archive_pending, archive_name, At, disk, budget, history, together
<1>2. CASE archive_log(p)
  BY <1>2 DEF worker, archive_step, archive_log, At
<1>3. CASE archive_gzip(p)
  BY <1>3 DEF worker, archive_step, archive_gzip, At
<1>4. CASE getmtime(p)
  BY <1>4 DEF worker, archive_step, getmtime, At, history, together
<1>5. CASE rename_logfile(p)
  BY <1>5 DEF worker, archive_step, rename_logfile, At, Renamed
<1>6. CASE remove_oldlog(p)
  <2>1. UNCHANGED <<files, now, crashes, lines, late, alone, shared, gz>> /\ Leave(p)
    BY <1>6 DEF remove_oldlog, together
  <2>2. faults' = faults \/ Fault
    BY <1>6 DEF remove_oldlog
  <2>3. QED
    BY <1>6, <2>1, <2>2 DEF worker, archive_step
<1>7. QED
  BY <1>1, <1>2, <1>3, <1>4, <1>5, <1>6 DEF Inside

(* Leaving changes the directory at most at the lock.                      *)
LEMMA LeaveDir ==
  ASSUME IndInv, NEW p \in Procs, Leave(p) \/ dir' = Unlocked(p, dir)
  PROVE  dir'["log"] = dir["log"] /\ dir'["pending"] = dir["pending"] /\ dir'["pending.gz"] = dir["pending.gz"]
<1>1. dir \in [Fixed -> Ino] /\ "log" \in Fixed /\ "pending" \in Fixed /\ "pending.gz" \in Fixed
  BY DEF IndInv, DiskType, Fixed
<1>2. dir' = Unlocked(p, dir)
  BY DEF Leave
<1>3. QED
  BY <1>1, <1>2 DEF Unlocked

(* What has happened has happened.                                         *)
LEMMA HistoryStays ==
  ASSUME IndInv, [Next]_vars
  PROVE  /\ alone' => alone
         /\ crashes' = 0 => crashes = 0
         /\ faults' = 0 => faults = 0
<1>1. crashes \in Nat /\ faults \in Nat
  BY Setup DEF IndInv, CountType
<1>2. Fault => faults' # 0
  BY <1>1 DEF Fault
<1>3. ASSUME NEW p \in Procs, worker(p)
      PROVE  alone' = alone /\ crashes' = crashes /\ (faults' = faults \/ Fault)
  <2>1. CASE Inside(p)
    BY <2>1, InsideIs
  <2>2. QED
    BY <1>3, <2>1 DEF worker, archive_step, Inside, log_lock, log_lockf, write_open, write_line, wait_pids, tlog_close,
                      budget, history
<1>4. ASSUME NEW p \in Procs, write_begin(p) \/ tlog_init(p) \/ tlog_exit(p) \/ crash(p)
      PROVE  /\ alone' => alone
             /\ crashes' = crashes \/ crashes' = crashes + 1
             /\ faults' = faults
  <2>1. alone' = alone \/ alone' = (alone /\ \A q \in Procs : At(q, "off"))
    BY <1>4 DEF write_begin, tlog_init, tlog_exit, crash, history
  <2>2. alone' => alone
    BY <2>1, Zenon
  <2>3. QED
    BY <1>4, <2>2 DEF write_begin, tlog_init, tlog_exit, crash, budget
<1>5. ASSUME NEW g \in Gzips, gzip(g) \/ gzip_fail(g)
      PROVE  alone' = alone /\ crashes' = crashes /\ (faults' = faults \/ Fault)
  BY <1>5 DEF gzip, gzip_open, gzip_copy, gzip_unlink, gzip_fail, budget, history
<1>6. ASSUME tick \/ UNCHANGED vars
      PROVE  alone' = alone /\ crashes' = crashes /\ faults' = faults
  BY <1>6 DEF tick, vars, budget, history
<1>7. alone' => alone
  BY <1>3, <1>4, <1>5, <1>6 DEF Next
<1>8. crashes' \in {crashes, crashes + 1} /\ (faults' = faults \/ faults' # 0)
  BY <1>2, <1>3, <1>4, <1>5, <1>6 DEF Next
<1>9. QED
  BY <1>1, <1>7, <1>8

(* While one process is on, the others hold nothing.                       *)
LEMMA Others ==
  ASSUME IndInv, Alone, alone, NEW p \in Procs, ~At(p, "off")
  PROVE  \A q \in Procs : q # p => At(q, "off") /\ gz[q] = NoGzip /\ proc[q].fd = 0
BY DEF IndInv, Alone, Flow, FlowOf, At

(* Who takes a step is on.                                                 *)
LEMMA MoverIsOn ==
  ASSUME NEW p \in Procs, worker(p) \/ write_begin(p) \/ tlog_exit(p) \/ crash(p)
  PROVE  ~At(p, "off")
BY DEF worker, archive_step, log_lock, log_lockf, archive_leftover, archive_pending, archive_log, archive_gzip,
       getmtime, archive_name, rename_logfile, remove_oldlog, write_begin, write_open, write_line, wait_pids, tlog_exit, tlog_close, crash, At

(* A gzip that runs is the child of the process that is on, or an orphan.  *)
LEMMA OnlyChild ==
  ASSUME IndInv, Alone, alone, NEW p \in Procs, ~At(p, "off"), gz[p] = NoGzip, crashes = 0
  PROVE  \A g \in Gzips : gz[g] = NoGzip
<1>1. \A i \in 1 .. MaxCrashes : i > crashes
  BY Setup DEF IndInv
<1>2. \A i \in 1 .. MaxCrashes : gz[i] = NoGzip
  BY <1>1 DEF IndInv, GzipFlow
<1>3. QED
  BY <1>2, Others DEF Gzips

(* Without a crash a gzip that runs is a child.                            *)
LEMMA NoOrphan ==
  ASSUME IndInv, crashes = 0, NEW g \in Gzips, gz[g] # NoGzip
  PROVE  g \in Procs
<1>1. \A i \in 1 .. MaxCrashes : i > crashes
  BY Setup DEF IndInv
<1>2. \A i \in 1 .. MaxCrashes : gz[i] = NoGzip
  BY <1>1 DEF IndInv, GzipFlow
<1>3. QED
  BY <1>2 DEF Gzips

(* The name of the log is given and taken in two places.                   *)
LEMMA LogName ==
  ASSUME IndInv, [Next]_vars
  PROVE  \/ dir'["log"] = dir["log"]
         \/ \E p \in Procs : write_open(p) /\ dir["log"] = 0 /\ dir'["log"] = Len(files) + 1
         \/ \E p \in Procs : Inside(p) /\ At(p, "topend") /\ dir'["log"] = 0
<1>1. dir \in [Fixed -> Ino] /\ "log" \in Fixed /\ "pending" \in Fixed /\ "pending.gz" \in Fixed /\ "lock" \in Fixed
  BY DEF IndInv, DiskType, Fixed
<1>2. ASSUME NEW n \in Fixed, n # "log", NEW v, dir' = [dir EXCEPT ![n] = v]
      PROVE  dir'["log"] = dir["log"]
  BY <1>1, <1>2
<1>3. ASSUME NEW p \in Procs, Inside(p)
      PROVE  dir'["log"] = dir["log"] \/ (At(p, "topend") /\ dir'["log"] = 0)
  <2>1. CASE dir' = dir
    BY <2>1
  <2>2. CASE Leave(p)
    BY <2>2, LeaveDir
  <2>3. CASE At(p, "topend") /\ dir' = [dir EXCEPT !["pending"] = dir["log"], !["log"] = 0]
    BY <1>1, <2>3
  <2>4. CASE Renamed(p)
    BY <1>1, <1>2, <2>4 DEF Renamed, Target
  <2>5. QED
    BY <1>3, <2>1, <2>2, <2>3, <2>4, InsideIs
<1>4. ASSUME NEW p \in Procs, log_lock(p)
      PROVE  dir'["log"] = dir["log"]
  BY <1>1, <1>2, <1>4 DEF log_lock
<1>5. ASSUME NEW p \in Procs, wait_pids(p) \/ tlog_close(p)
      PROVE  dir'["log"] = dir["log"]
  BY <1>5, LeaveDir DEF wait_pids, tlog_close, disk
<1>6. ASSUME NEW p \in Procs, write_open(p)
      PROVE  dir'["log"] = dir["log"] \/ (dir["log"] = 0 /\ dir'["log"] = Len(files) + 1)
  <2>1. \/ dir' = dir
        \/ dir' = [dir EXCEPT !["log"] = IF dir["log"] = 0 THEN Len(files) + 1 ELSE dir["log"]]
    BY <1>6, OpenIs DEF disk
  <2>2. QED
    BY <1>1, <2>1
<1>7. ASSUME NEW p \in Procs, log_lockf(p) \/ write_begin(p) \/ write_line(p) \/ tlog_init(p) \/ tlog_exit(p) \/ crash(p)
      PROVE  dir'["log"] = dir["log"]
  BY <1>7 DEF disk, log_lockf, write_begin, write_line, tlog_init, tlog_exit, crash
<1>8. ASSUME NEW g \in Gzips, gzip(g) \/ gzip_fail(g)
      PROVE  dir'["log"] = dir["log"]
  BY <1>1, <1>2, <1>8 DEF gzip, gzip_open, gzip_copy, gzip_unlink, gzip_fail
<1>9. ASSUME tick \/ UNCHANGED vars
      PROVE  dir'["log"] = dir["log"]
  BY <1>9 DEF tick, vars, disk
<1>10. QED
  BY <1>3, <1>4, <1>5, <1>6, <1>7, <1>8, <1>9 DEF Next, worker, archive_step, Inside

(* A process is switched on when no other is.                              *)
LEMMA AloneStep ==
  ASSUME IndInv, Alone, [Next]_vars
  PROVE  Alone'
<1>1. SUFFICES ASSUME alone' PROVE Alone'
  BY DEF Alone
<1>2. /\ alone /\ ~shared
      /\ \A p, q \in Procs : p # q => At(p, "off") \/ At(q, "off")
      /\ \A p \in Procs : proc[p].fd # 0 => proc[p].fd = dir["log"]
  BY <1>1, HistoryStays DEF Alone
<1>3. ASSUME NEW p \in Procs, worker(p) \/ write_begin(p) \/ tlog_init(p) \/ tlog_exit(p) \/ crash(p)
      PROVE  \A q \in Procs : q # p => At(q, "off") /\ proc'[q] = proc[q] /\ proc[q].fd = 0
  <2>1. \A q \in Procs : q # p => At(q, "off")
    <3>1. CASE tlog_init(p)
      BY <1>1, <3>1 DEF tlog_init
    <3>2. CASE ~tlog_init(p)
      BY <1>2, <1>3, <3>2, Others, MoverIsOn
    <3>3. QED
      BY <3>1, <3>2
  <2>2. \A q \in Procs : q # p => proc'[q] = proc[q]
    BY <1>3, OwnStep
  <2>3. QED
    BY <2>1, <2>2 DEF IndInv, Flow, FlowOf, At
<1>4. ASSUME tick \/ UNCHANGED vars \/ \E g \in Gzips : gzip(g) \/ gzip_fail(g)
      PROVE  \A p \in Procs : proc'[p].pc = proc[p].pc /\ proc'[p].fd = proc[p].fd
  <2>1. CASE tick
    BY <2>1 DEF tick, IndInv, ProcType, Log
  <2>2. QED
    BY <1>4, <2>1 DEF vars, gzip, gzip_open, gzip_copy, gzip_unlink, gzip_fail
<1>5. (\A p, q \in Procs : p # q => At(p, "off") \/ At(q, "off"))'
  <2>1. CASE tick \/ UNCHANGED vars \/ \E g \in Gzips : gzip(g) \/ gzip_fail(g)
    BY <1>2, <1>4, <2>1 DEF At
  <2>2. ASSUME NEW p \in Procs, worker(p) \/ write_begin(p) \/ tlog_init(p) \/ tlog_exit(p) \/ crash(p)
        PROVE  \A q \in Procs : q # p => At(q, "off")'
    BY <1>3, <2>2 DEF At
  <2>3. QED
    BY <2>1, <2>2 DEF Next
<1>6. (\A p \in Procs : proc[p].fd # 0 => proc[p].fd = dir["log"])'
  <2>1. CASE \E p \in Procs : write_open(p) \/ (Inside(p) /\ At(p, "topend"))
    <3>1. PICK p \in Procs : write_open(p) \/ (Inside(p) /\ At(p, "topend"))
      BY <2>1
    <3>2. \A q \in Procs : q # p => proc'[q].fd = 0
      BY <1>3, <3>1, InsideIs DEF worker
    <3>3. proc[p].fd = 0
      BY <3>1 DEF write_open, At, IndInv, Flow, FlowOf, Logging
    <3>4. CASE write_open(p)
      <4>1. dir \in [Fixed -> Ino] /\ "log" \in Fixed
        BY DEF IndInv, DiskType, Fixed
      <4>2. proc'[p].fd = 0 \/ proc'[p].fd = dir'["log"]
        BY <3>3, <3>4, <4>1, OpenIs
      <4>3. QED
        BY <3>2, <4>2
    <3>5. CASE Inside(p)
      <4>1. proc'[p].fd = 0
        BY <3>3, <3>5, StepIs DEF Inside
      <4>2. QED
        BY <3>2, <4>1
    <3>6. QED
      BY <3>1, <3>4, <3>5
  <2>2. CASE \A p \in Procs : ~write_open(p) /\ ~(Inside(p) /\ At(p, "topend"))
    <3>1. dir'["log"] = dir["log"]
      BY <2>2, LogName
    <3>2. \A p \in Procs : proc'[p].fd \in {0, proc[p].fd}
      BY <2>2, HandlesStep
    <3>3. QED
      BY <1>2, <3>1, <3>2
  <2>3. QED
    BY <2>1, <2>2
<1>7. ~shared'
  <2>1. ASSUME NEW p \in Procs, worker(p) \/ write_begin(p) \/ tlog_init(p) \/ tlog_exit(p) \/ crash(p),
               shared' = shared \/ Enter(p)
        PROVE  ~shared'
    <3>1. ~\E q \in Procs \ {p} : proc[q].pc \in Archive
      BY <1>3, <2>1 DEF At, Archive
    <3>2. QED
      BY <1>2, <2>1, <3>1 DEF Enter
  <2>2. ASSUME NEW p \in Procs, worker(p) \/ write_begin(p) \/ tlog_init(p) \/ tlog_exit(p) \/ crash(p)
        PROVE  shared' = shared \/ Enter(p)
    <3>1. CASE Inside(p)
      BY <3>1, InsideIs
    <3>2. CASE log_lock(p) \/ log_lockf(p) \/ wait_pids(p) \/ tlog_close(p)
      BY <3>2 DEF log_lock, log_lockf, wait_pids, tlog_close, Reap
    <3>3. QED
      BY <2>2, <3>1, <3>2 DEF worker, archive_step, Inside, write_open, write_line, write_begin, tlog_init, tlog_exit,
                              crash, history, together
  <2>3. CASE tick \/ UNCHANGED vars \/ \E g \in Gzips : gzip(g) \/ gzip_fail(g)
    BY <1>2, <2>3 DEF tick, vars, gzip, gzip_open, gzip_copy, gzip_unlink, gzip_fail, history, together
  <2>4. QED
    BY <2>1, <2>2, <2>3 DEF Next
<1>8. QED
  BY <1>5, <1>6, <1>7 DEF Alone

(* So nobody gets in the way of the gzip of a process that is alone.       *)
LEMMA CalmStep ==
  ASSUME IndInv, Alone, Calm, [Next]_vars
  PROVE  Calm'
<1>1. SUFFICES ASSUME alone', crashes' = 0 PROVE ~overlap' /\ late' = {}
  BY DEF Calm
<1>2. alone /\ crashes = 0 /\ ~overlap /\ late = {}
  BY <1>1, HistoryStays DEF Calm
<1>3. ASSUME NEW p \in Procs, proc[p].pc \in Archiving
      PROVE  \A g \in Gzips : gz[g] = NoGzip
  <2>1. gz[p] = NoGzip /\ ~At(p, "off")
    BY <1>3 DEF IndInv, Flow, FlowOf, At, Archiving, Archive
  <2>2. QED
    BY <1>2, <2>1, OnlyChild
<1>4. ASSUME NEW p \in Procs, Inside(p)
      PROVE  ~overlap' /\ late' = {}
  <2>1. \A g \in Gzips : gz[g] = NoGzip
    <3>1. proc[p].pc \in Archiving
      BY <1>4, StepIs DEF Inside, Archiving
    <3>2. QED
      BY <1>3, <3>1
  <2>2. ~(\E g \in Gzips : gz[g] # NoGzip) /\ ~(\E g \in Gzips : gz[g].st \in {"copy", "unlink"})
    BY <2>1 DEF NoGzip
  <2>3. late' = {}
    BY <1>2, <1>4, InsideIs
  <2>4. \/ overlap' = overlap
        \/ overlap' = (overlap \/ \E g \in Gzips : gz[g] # NoGzip)
        \/ overlap' = (overlap \/ \E g \in Gzips : gz[g].st \in {"copy", "unlink"})
    BY <1>4 DEF Inside, archive_leftover, archive_pending, archive_log, archive_gzip, getmtime, archive_name,
                rename_logfile, remove_oldlog, Disturbed, history, together
  <2>5. ~overlap'
    BY <1>2, <2>2, <2>4
  <2>6. QED
    BY <2>3, <2>5
<1>5. ASSUME NEW p \in Procs, write_line(p)
      PROVE  ~overlap' /\ late' = {}
  <2>1. dir["log"] = proc[p].fd
    <3>1. proc[p].fd \in 1 .. Len(files) /\ Len(files) \in Nat
      BY <1>5, WriteIs, InoGrows
    <3>2. QED
      BY <1>2, <3>1 DEF Alone
  <2>2. late' = late
    BY <1>5, <2>1, WriteIs
  <2>3. overlap' = overlap
    BY <1>5 DEF write_line, together
  <2>4. QED
    BY <1>2, <2>2, <2>3
<1>6. ASSUME NEW p \in Procs, \/ log_lock(p) \/ log_lockf(p) \/ write_open(p) \/ wait_pids(p) \/ tlog_close(p)
                               \/ write_begin(p) \/ tlog_init(p) \/ tlog_exit(p) \/ crash(p)
      PROVE  overlap' = overlap /\ late' = late
  BY <1>6 DEF log_lock, log_lockf, write_open, wait_pids, tlog_close, write_begin, tlog_init, tlog_exit, crash,
              history, together
<1>7. ASSUME tick \/ UNCHANGED vars \/ \E g \in Gzips : gzip(g) \/ gzip_fail(g)
      PROVE  overlap' = overlap /\ late' = late
  BY <1>7 DEF tick, vars, gzip, gzip_open, gzip_copy, gzip_unlink, gzip_fail, history, together
<1>8. QED
  BY <1>2, <1>4, <1>5, <1>6, <1>7 DEF Next, worker, archive_step, Inside

-----------------------------------------------------------------------------
(* The log, and the files it was.                                          *)

(* How the archives come to change: one is added or replaced, some are     *)
(* removed.                                                                *)
LEMMA ArchiveIs ==
  ASSUME IndInv, [Next]_vars
  PROVE  \/ archive' = archive
         \/ \E p \in Procs : Renamed(p) /\ files' = files
         \/ \E p \in Procs, R \in SUBSET DOMAIN archive :
              remove_oldlog(p) /\ archive' = [n \in DOMAIN archive \ R |-> archive[n]] /\ files' = files
<1>1. ASSUME NEW p \in Procs, remove_oldlog(p)
      PROVE  \E R \in SUBSET DOMAIN archive : archive' = [n \in DOMAIN archive \ R |-> archive[n]] /\ files' = files
  <2>1. PICK k \in 0 .. Excess : \E R \in Oldest(k) : archive' = Restrict(archive, DOMAIN archive \ R)
    BY <1>1 DEF remove_oldlog
  <2>2. PICK R \in Oldest(k) : archive' = Restrict(archive, DOMAIN archive \ R)
    BY <2>1
  <2>3. R \subseteq DOMAIN archive
    BY DEF Oldest
  <2>4. files' = files
    BY <1>1 DEF remove_oldlog
  <2>5. QED
    BY <2>2, <2>3, <2>4 DEF Restrict
<1>2. ASSUME NEW p \in Procs,
             \/ log_lock(p) \/ log_lockf(p) \/ write_begin(p) \/ write_open(p) \/ write_line(p) \/ wait_pids(p)
             \/ tlog_close(p) \/ tlog_init(p) \/ tlog_exit(p) \/ crash(p)
      PROVE  archive' = archive
  BY <1>2 DEF disk, log_lock, log_lockf, write_begin, write_open, write_line, wait_pids, tlog_close, tlog_init,
              tlog_exit, crash
<1>3. ASSUME NEW p \in Procs, Inside(p)
      PROVE  archive' = archive \/ (Renamed(p) /\ files' = files) \/ remove_oldlog(p)
  BY <1>3, InsideIs
<1>4. CASE tick \/ UNCHANGED vars \/ \E g \in Gzips : gzip(g) \/ gzip_fail(g)
  BY <1>4 DEF tick, vars, disk, gzip, gzip_open, gzip_copy, gzip_unlink, gzip_fail
<1>5. QED
  BY <1>1, <1>2, <1>3, <1>4 DEF Next, worker, archive_step, Inside

(* The file under .pending.gz is the one it was, none, or a new one.       *)
LEMMA GzName ==
  ASSUME IndInv, [Next]_vars
  PROVE  \/ dir'["pending.gz"] \in {0, dir["pending.gz"]}
         \/ \E g \in Gzips : gzip_open(g) /\ dir["pending.gz"] = 0 /\ dir'["pending.gz"] = Len(files) + 1
<1>1. dir \in [Fixed -> Ino] /\ "log" \in Fixed /\ "pending" \in Fixed /\ "pending.gz" \in Fixed /\ "lock" \in Fixed
  BY DEF IndInv, DiskType, Fixed
<1>2. ASSUME NEW p \in Procs, Inside(p)
      PROVE  dir'["pending.gz"] \in {0, dir["pending.gz"]}
  <2>1. CASE dir' = dir
    BY <2>1
  <2>2. CASE Leave(p)
    BY <2>2, LeaveDir
  <2>3. CASE dir' = [dir EXCEPT !["pending"] = dir["log"], !["log"] = 0]
    BY <1>1, <2>3
  <2>4. CASE Renamed(p)
    BY <1>1, <2>4 DEF Renamed, Target
  <2>5. QED
    BY <1>2, <2>1, <2>2, <2>3, <2>4, InsideIs
<1>3. ASSUME NEW p \in Procs, log_lock(p)
      PROVE  dir'["pending.gz"] = dir["pending.gz"]
  BY <1>1, <1>3 DEF log_lock
<1>4. ASSUME NEW p \in Procs, wait_pids(p) \/ tlog_close(p)
      PROVE  dir'["pending.gz"] = dir["pending.gz"]
  BY <1>4, LeaveDir DEF wait_pids, tlog_close, disk
<1>5. ASSUME NEW p \in Procs, write_open(p)
      PROVE  dir'["pending.gz"] = dir["pending.gz"]
  BY <1>1, <1>5, OpenIs DEF disk
<1>6. ASSUME NEW p \in Procs, log_lockf(p) \/ write_begin(p) \/ write_line(p) \/ tlog_init(p) \/ tlog_exit(p) \/ crash(p)
      PROVE  dir' = dir
  BY <1>6 DEF disk, log_lockf, write_begin, write_line, tlog_init, tlog_exit, crash
<1>7. ASSUME NEW g \in Gzips, gzip(g) \/ gzip_fail(g)
      PROVE  \/ dir'["pending.gz"] \in {0, dir["pending.gz"]}
             \/ gzip_open(g) /\ dir["pending.gz"] = 0 /\ dir'["pending.gz"] = Len(files) + 1
  BY <1>1, <1>7 DEF gzip, gzip_open, gzip_copy, gzip_unlink, gzip_fail
<1>8. CASE tick \/ UNCHANGED vars
  BY <1>8 DEF tick, vars, disk
<1>9. QED
  BY <1>2, <1>3, <1>4, <1>5, <1>6, <1>7, <1>8 DEF Next, worker, archive_step, Inside

(* Without compression there is never a .pending.gz.                       *)
LEMMA PlainStep ==
  ASSUME IndInv, Plain, [Next]_vars
  PROVE  Plain'
<1>1. SUFFICES ASSUME mode'.nocompress PROVE dir'["pending.gz"] = 0
  BY DEF Plain
<1>2. dir["pending.gz"] = 0 /\ \A g \in Gzips : gz[g] = NoGzip
  BY <1>1, SetupFixed DEF Plain, IndInv, GzipFlow
<1>3. \A g \in Gzips : ~gzip_open(g)
  BY <1>2 DEF gzip_open, NoGzip
<1>4. QED
  BY <1>2, <1>3, GzName

(* No archive and no .pending.gz is the log.                               *)
LEMMA LogApartStep ==
  ASSUME IndInv, LogApart, [Next]_vars
  PROVE  LogApart'
<1>1. SUFFICES ASSUME dir'["log"] # 0
               PROVE  dir'["log"] # dir'["pending.gz"] /\ \A n \in DOMAIN archive' : archive'[n] # dir'["log"]
  BY DEF LogApart
<1>2. /\ dir \in [Fixed -> Ino] /\ Len(files) \in Nat /\ Ino = 0 .. Len(files)
      /\ archive \in [DOMAIN archive -> Ino \ {0}]
      /\ "log" \in Fixed /\ "pending" \in Fixed /\ "pending.gz" \in Fixed
  BY InoGrows DEF IndInv, DiskType, Fixed
<1>3. dir["pending.gz"] # Len(files) + 1 /\ dir["log"] # Len(files) + 1 /\ dir["pending"] # Len(files) + 1
      /\ Len(files) + 1 # 0 /\ \A n \in DOMAIN archive : archive[n] # Len(files) + 1
  BY <1>2
<1>4. \/ dir'["log"] = dir["log"]
      \/ \E p \in Procs : write_open(p) /\ dir["log"] = 0 /\ dir'["log"] = Len(files) + 1
  BY <1>1, LogName
<1>5. dir'["log"] # dir'["pending.gz"]
  <2>1. CASE dir'["log"] = dir["log"]
    BY <1>1, <1>3, <2>1, GzName DEF LogApart
  <2>2. ASSUME NEW p \in Procs, write_open(p), dir'["log"] = Len(files) + 1
        PROVE  dir'["log"] # dir'["pending.gz"]
    <3>1. dir'["pending.gz"] = dir["pending.gz"]
      BY <1>2, <2>2, OpenIs DEF disk
    <3>2. QED
      BY <1>3, <2>2, <3>1
  <2>3. QED
    BY <1>4, <2>1, <2>2
<1>6. \A n \in DOMAIN archive' : archive'[n] # dir'["log"]
  <2>1. CASE archive' = archive
    BY <1>1, <1>3, <1>4, <2>1 DEF LogApart
  <2>2. ASSUME NEW p \in Procs, Renamed(p)
        PROVE  \A m \in DOMAIN archive' : archive'[m] # dir'["log"]
    <3>1. Target \in {"pending", "pending.gz"} /\ Target \in Fixed /\ Target # "log"
      BY <1>2 DEF Target
    <3>2. dir'["log"] = dir["log"]
      BY <1>2, <2>2, <3>1 DEF Renamed
    <3>3. \A m \in DOMAIN archive' : archive'[m] = dir[Target] \/ (m \in DOMAIN archive /\ archive'[m] = archive[m])
      BY <2>2 DEF Renamed
    <3>4. dir["log"] # dir["pending"] /\ dir["log"] # dir["pending.gz"]
      BY <1>1, <3>2 DEF LogApart, IndInv, Uses
    <3>5. QED
      BY <1>1, <3>1, <3>2, <3>3, <3>4 DEF LogApart
  <2>3. ASSUME NEW R \in SUBSET DOMAIN archive, archive' = [m \in DOMAIN archive \ R |-> archive[m]]
        PROVE  \A m \in DOMAIN archive' : m \in DOMAIN archive /\ archive'[m] = archive[m]
    BY <2>3
  <2>4. QED
    BY <1>1, <1>3, <1>4, <2>1, <2>2, <2>3, ArchiveIs DEF LogApart
<1>7. QED
  BY <1>5, <1>6

-----------------------------------------------------------------------------
(* The order of last writes.                                               *)

(* It is about the files, not about how many there are.                    *)
LEMMA OrderedFrame ==
  ASSUME NEW n \in Nat, NEW fs, NEW gs, NEW A, NEW z, NEW p, NEW l, NEW c,
         Ordered(fs, A, z, p, l, c), A \subseteq 1 .. n, z \in 0 .. n, p \in 0 .. n, l \in 0 .. n,
         \A f \in 1 .. n : gs[f] = fs[f]
  PROVE  Ordered(gs, A, z, p, l, c)
<1>1. \A f \in 0 .. n : HasLines(gs, f) <=> HasLines(fs, f)
  BY DEF HasLines
<1>2. \A f \in 0 .. n : HasLines(fs, f) => gs[f] = fs[f]
  BY DEF HasLines
<1>3. ASSUME NEW f \in A
      PROVE  f \in 0 .. n
  <2>1. f \in 1 .. n
    OBVIOUS
  <2>2. QED
    BY <2>1
<1>4. QED
  BY <1>1, <1>2, <1>3 DEF Ordered, Before, Since

(* A file without lines is no part of it.                                  *)
LEMMA OrderedDrop ==
  ASSUME NEW fs, NEW A, NEW z, NEW y, NEW p, NEW q, NEW l, NEW k, NEW c,
         Ordered(fs, A, z, p, l, c),
         y = z \/ ~HasLines(fs, y),
         q = p \/ ~HasLines(fs, q),
         k = l \/ ~HasLines(fs, k)
  PROVE  Ordered(fs, A, y, q, k, c)
BY DEF Ordered, Before, Since

(* .pending.gz becomes an archive; .pending does, if there is no           *)
(* .pending.gz; the log becomes .pending.                                  *)
LEMMA OrderedMoves ==
  ASSUME NEW fs, NEW A, NEW z, NEW p, NEW l, NEW c, Ordered(fs, A, z, p, l, c)
  PROVE  /\ Ordered(fs, A \cup {z}, 0, p, l, c)
         /\ z = 0 => Ordered(fs, A \cup {p}, 0, 0, l, c)
         /\ p = 0 => Ordered(fs, A, z, l, 0, c)
BY DEF Ordered, Before, Since, HasLines

(* The log is written to, in the present.                                  *)
LEMMA OrderedWrite ==
  ASSUME NEW n \in Nat, NEW fs, NEW gs, NEW A, NEW z, NEW p, NEW l, NEW c \in Nat, NEW t \in Nat,
         Ordered(fs, A, z, p, l, c), A \subseteq 1 .. n, z \in 0 .. n, p \in 0 .. n,
         l \notin A, l # z, l # p,
         \A f \in 1 .. n : f # l => gs[f] = fs[f],
         \A f \in 1 .. n : gs[f].mtime <= t,
         gs[l].mtime = t, c <= t
  PROVE  Ordered(gs, A, z, p, l, c)
<1>1. \A f \in 0 .. n : f # l => (HasLines(gs, f) <=> HasLines(fs, f))
  BY DEF HasLines
<1>2. \A f \in 0 .. n : HasLines(gs, f) => f \in 1 .. n
  BY DEF HasLines
<1>3. \A f \in A \cup {z, p} : f \in 0 .. n /\ f # l
  OBVIOUS
<1>4. QED
  BY <1>1, <1>2, <1>3 DEF Ordered, Before, Since

(* gzip copies .pending to .pending.gz.                                    *)
LEMMA OrderedCopy ==
  ASSUME NEW n \in Nat, NEW fs, NEW gs, NEW A, NEW z, NEW p, NEW l, NEW c,
         Ordered(fs, A, z, p, l, c), A \subseteq 1 .. n, z \in 1 .. n, p \in 1 .. n, l \in 0 .. n, l # z,
         \A f \in 1 .. n : fs[f].mtime \in Nat,
         \A f \in 1 .. n : f # z => gs[f] = fs[f],
         gs[z] = fs[p]
  PROVE  Ordered(gs, A, z, p, l, c)
<1>1. HasLines(gs, z) <=> HasLines(fs, p)
  BY DEF HasLines
<1>2. \A f \in 0 .. n : f # z => (HasLines(gs, f) <=> HasLines(fs, f))
  BY DEF HasLines
<1>3. \A f \in 0 .. n : HasLines(fs, f) => f \in 1 .. n
  BY DEF HasLines
<1>4. gs[p] = fs[p]
  OBVIOUS
<1>5. HasLines(gs, p) <=> HasLines(fs, p)
  BY <1>4 DEF HasLines
<1>6. ASSUME NEW f \in A
      PROVE  Before(gs, f, z) /\ Before(gs, f, p) /\ Before(gs, f, l) /\ Since(gs, c, f)
  <2>1. CASE f = z
    BY <1>1, <1>2, <1>3, <1>4, <1>5, <2>1 DEF Ordered, Before, Since
  <2>2. CASE f # z
    BY <1>1, <1>2, <1>3, <1>4, <1>5, <2>2 DEF Ordered, Before, Since
  <2>3. QED
    BY <2>1, <2>2
<1>7. Before(gs, z, p) /\ Before(gs, z, l) /\ Before(gs, p, l)
  BY <1>1, <1>2, <1>3, <1>4, <1>5 DEF Ordered, Before
<1>8. Since(gs, c, z) /\ Since(gs, c, p) /\ Since(gs, c, l)
  BY <1>1, <1>2, <1>3, <1>4, <1>5 DEF Ordered, Since
<1>9. QED
  BY <1>6, <1>7, <1>8 DEF Ordered

(* Archives are removed, the oldest first.                                 *)
LEMMA OrderedCut ==
  ASSUME NEW fs, NEW A, NEW B, NEW z, NEW p, NEW l, NEW c, NEW d,
         Ordered(fs, A, z, p, l, c), B \subseteq A,
         \A f \in B : Since(fs, d, f),
         d = c \/ \E f \in A : HasLines(fs, f) /\ d = fs[f].mtime
  PROVE  Ordered(fs, B, z, p, l, d)
BY DEF Ordered, Before, Since

(* How the files come to change.                                           *)
LEMMA FilesAre ==
  ASSUME IndInv, [Next]_vars
  PROVE  \/ files' = files
         \/ files' = Append(files, NewFile)
         \/ \E p \in Procs, x \in Lines \cup Procs :
              /\ write_begin(p) \/ write_line(p)
              /\ x \in {p, proc[p].line} /\ proc[p].fd \in 1 .. Len(files)
              /\ files' = [files EXCEPT ![proc[p].fd] = [lines |-> files[proc[p].fd].lines \cup {x}, mtime |-> now]]
         \/ \E g \in Gzips :
              /\ gzip_copy(g) /\ gz[g].in \in 1 .. Len(files) /\ gz[g].out \in 1 .. Len(files)
              /\ files' = [files EXCEPT ![gz[g].out] = files[gz[g].in]]
<1>1. ASSUME NEW p \in Procs, log_lock(p) \/ write_open(p)
      PROVE  files' = files \/ files' = Append(files, NewFile)
  BY <1>1 DEF log_lock, write_open, disk
<1>2. files \in Seq(File)
  BY DEF IndInv, DiskType
<1>3. ASSUME NEW p \in Procs, write_begin(p), files' # files
      PROVE  /\ proc[p].fd \in 1 .. Len(files)
             /\ files' = [files EXCEPT ![proc[p].fd] = [lines |-> files[proc[p].fd].lines \cup {p}, mtime |-> now]]
  BY <1>2, <1>3, BeginIs
<1>4. ASSUME NEW p \in Procs, write_line(p), files' # files
      PROVE  /\ proc[p].fd \in 1 .. Len(files) /\ proc[p].line \in Lines
             /\ files' = [files EXCEPT ![proc[p].fd] =
                           [lines |-> files[proc[p].fd].lines \cup {proc[p].line}, mtime |-> now]]
  BY <1>2, <1>4, WriteIs
<1>5. ASSUME NEW p \in Procs,
             \/ log_lockf(p) \/ Inside(p) \/ wait_pids(p) \/ tlog_close(p) \/ tlog_init(p) \/ tlog_exit(p) \/ crash(p)
      PROVE  files' = files
  BY <1>5, InsideIs DEF disk, log_lockf, wait_pids, tlog_close, tlog_init, tlog_exit, crash
<1>6. ASSUME NEW g \in Gzips, gzip_copy(g)
      PROVE  /\ gz[g].in \in 1 .. Len(files) /\ gz[g].out \in 1 .. Len(files)
             /\ files' = [files EXCEPT ![gz[g].out] = files[gz[g].in]]
  <2>1. gz[g].out \in 0 .. Len(files) /\ gz[g].in \in 0 .. Len(files) /\ Len(files) \in Nat
    BY DEF IndInv, ProcType, DiskType, Gzip, Ino
  <2>2. gz[g].out # 0 /\ gz[g].in # 0
    BY <1>6 DEF IndInv, GzipFlow, Busy, gzip_copy
  <2>3. QED
    BY <1>6, <2>1, <2>2 DEF gzip_copy
<1>7. ASSUME NEW g \in Gzips, gzip_open(g) \/ gzip_unlink(g) \/ gzip_fail(g)
      PROVE  files' = files \/ files' = Append(files, NewFile)
  BY <1>7 DEF gzip_open, gzip_unlink, gzip_fail
<1>8. CASE tick \/ UNCHANGED vars
  BY <1>8 DEF tick, vars, disk
<1>9. ASSUME NEW p \in Procs, write_begin(p) \/ write_line(p)
      PROVE  \/ files' = files
             \/ \E x \in Lines \cup Procs :
                /\ x \in {p, proc[p].line} /\ proc[p].fd \in 1 .. Len(files)
                /\ files' = [files EXCEPT ![proc[p].fd] = [lines |-> files[proc[p].fd].lines \cup {x}, mtime |-> now]]
  BY <1>3, <1>4, <1>9
<1>10. ASSUME NEW p \in Procs, worker(p) \/ write_begin(p) \/ tlog_init(p) \/ tlog_exit(p) \/ crash(p)
       PROVE  files' = files \/ files' = Append(files, NewFile) \/ write_begin(p) \/ write_line(p)
  BY <1>1, <1>5, <1>10 DEF worker, archive_step, Inside
<1>11. ASSUME NEW g \in Gzips, gzip(g) \/ gzip_fail(g)
       PROVE  files' = files \/ files' = Append(files, NewFile) \/ gzip_copy(g)
  BY <1>7, <1>11 DEF gzip
<1>12. CASE \E p \in Procs : worker(p) \/ write_begin(p) \/ tlog_init(p) \/ tlog_exit(p) \/ crash(p)
  BY <1>9, <1>10, <1>12
<1>13. CASE \E g \in Gzips : gzip(g) \/ gzip_fail(g)
  BY <1>6, <1>11, <1>13
<1>14. QED
  BY <1>8, <1>12, <1>13 DEF Next

(* The files that _tlog_remove_oldlog removes.                             *)
LEMMA RemoveIs ==
  ASSUME IndInv, NEW p \in Procs, remove_oldlog(p)
  PROVE  \E k \in 0 .. Excess : \E R \in Oldest(k) :
           /\ R \subseteq DOMAIN archive
           /\ archive' = [n \in DOMAIN archive \ R |-> archive[n]]
           /\ k = Excess \/ Fault
           /\ cut <= cut' /\ cut' \in 0 .. mode.seconds
           /\ \/ cut' = cut
              \/ \E r \in R : HasLines(files, archive[r]) /\ cut' = files[archive[r]].mtime
<1>0. PICK k \in 0 .. Excess : \E R \in Oldest(k) :
        /\ archive' = Restrict(archive, DOMAIN archive \ R)
        /\ k = Excess \/ Fault
        /\ cut' = Max({f.mtime : f \in {h \in {files[archive[n]] : n \in R} : h.lines # {}}} \cup {cut})
  BY DEF remove_oldlog
<1>1. PICK R \in Oldest(k) :
        /\ archive' = Restrict(archive, DOMAIN archive \ R)
        /\ k = Excess \/ Fault
        /\ cut' = Max({f.mtime : f \in {h \in {files[archive[n]] : n \in R} : h.lines # {}}} \cup {cut})
  BY <1>0
<1> DEFINE gone == {files[archive[n]] : n \in R}
           S    == {f.mtime : f \in {h \in gone : h.lines # {}}} \cup {cut}
<1>2. R \subseteq DOMAIN archive
  BY DEF Oldest
<1>3. \A n \in DOMAIN archive : archive[n] \in 1 .. Len(files) /\ archive[n] # 0
  BY DEF IndInv, DiskType, Ino
<1>4. gone \subseteq File
  BY <1>2, <1>3 DEF IndInv, DiskType
<1>5. cut' \in S /\ (\A y \in S : y <= cut') /\ cut' \in 0 .. mode.seconds
  BY <1>1, <1>4, CutIs DEF IndInv
<1>6. cut <= cut'
  BY <1>5
<1>7. cut' = cut \/ \E r \in R : HasLines(files, archive[r]) /\ cut' = files[archive[r]].mtime
  <2>1. SUFFICES ASSUME cut' # cut
                 PROVE  \E r \in R : HasLines(files, archive[r]) /\ cut' = files[archive[r]].mtime
    OBVIOUS
  <2>2. PICK h \in gone : h.lines # {} /\ cut' = h.mtime
    BY <1>5, <2>1
  <2>3. PICK r \in R : h = files[archive[r]]
    OBVIOUS
  <2>4. QED
    BY <1>2, <1>3, <2>2, <2>3 DEF HasLines
<1>8. archive' = [n \in DOMAIN archive \ R |-> archive[n]]
  BY <1>1 DEF Restrict
<1>9. QED
  BY <1>1, <1>2, <1>5, <1>6, <1>7, <1>8

(* Numbers that are times.                                                 *)
LEMMA Times ==
  ASSUME IndInv, [Next]_vars
  PROVE  /\ now \in Nat /\ cut \in Nat /\ now' \in Nat /\ files \in Seq(File) /\ Len(files) \in Nat
         /\ \A f \in 1 .. Len(files) : files[f].mtime \in Nat
<1>1. mode.seconds \in Nat /\ mode' = mode /\ CountType' /\ CountType
  BY Setup, SetupFixed, CountStep DEF IndInv
<1>2. now \in Nat /\ cut \in Nat /\ now' \in Nat
  BY <1>1 DEF CountType
<1>3. files \in Seq(File) /\ Len(files) \in Nat
  BY DEF IndInv, DiskType
<1>4. \A f \in 1 .. Len(files) : files[f] \in File
  BY <1>3
<1>5. QED
  BY <1>1, <1>2, <1>3, <1>4 DEF File

(* Time goes on, and only _tlog_remove_oldlog removes.                     *)
LEMMA TimeGoesOn ==
  ASSUME IndInv, [Next]_vars
  PROVE  now <= now' /\ (cut' = cut \/ \E p \in Procs : remove_oldlog(p))
<1>1. ASSUME tick
      PROVE  now <= now' /\ cut' = cut
  <2>1. now' = (IF now < mode.seconds THEN now + 1 ELSE now) /\ cut' = cut
    BY <1>1 DEF tick, history
  <2>2. QED
    BY Times, <2>1
<1>2. ASSUME NEW p \in Procs, worker(p), ~remove_oldlog(p)
      PROVE  now' = now /\ cut' = cut
  <2>1. CASE Inside(p)
    BY <1>2, <2>1, InsideIs
  <2>2. QED
    BY <1>2, <2>1 DEF worker, archive_step, Inside, log_lock, log_lockf, write_open, write_line, wait_pids, tlog_close,
                      history
<1>3. ASSUME NEW p \in Procs, remove_oldlog(p)
      PROVE  now' = now
  BY <1>3 DEF remove_oldlog
<1>4. ASSUME NEW p \in Procs, write_begin(p) \/ tlog_init(p) \/ tlog_exit(p) \/ crash(p)
      PROVE  now' = now /\ cut' = cut
  BY <1>4 DEF write_begin, tlog_init, tlog_exit, crash, history
<1>5. ASSUME NEW g \in Gzips, gzip(g) \/ gzip_fail(g)
      PROVE  now' = now /\ cut' = cut
  BY <1>5 DEF gzip, gzip_open, gzip_copy, gzip_unlink, gzip_fail, history
<1>6. ASSUME UNCHANGED vars
      PROVE  now' = now /\ cut' = cut
  BY <1>6 DEF vars, history
<1>7. (now' = now \/ tick) /\ (cut' = cut \/ \E p \in Procs : remove_oldlog(p))
  BY <1>1, <1>2, <1>3, <1>4, <1>5, <1>6 DEF Next
<1>8. QED
  BY Times, <1>1, <1>7

(* No last write lies in the future.                                       *)
LEMMA InTimeStep ==
  ASSUME IndInv, InTime, [Next]_vars
  PROVE  InTime'
<1>1. /\ now \in Nat /\ cut \in Nat /\ now' \in Nat /\ files \in Seq(File) /\ Len(files) \in Nat
      /\ \A f \in 1 .. Len(files) : files[f].mtime \in Nat
  BY Times
<1>2. now <= now' /\ (cut' = cut \/ \E p \in Procs : remove_oldlog(p))
  BY TimeGoesOn
<1>3. \A f \in 1 .. Len(files') : files'[f].mtime <= now'
  <2>1. \A f \in 1 .. Len(files) : files[f].mtime <= now'
    BY <1>1, <1>2 DEF InTime
  <2>2. CASE files' = files
    BY <2>1, <2>2
  <2>3. CASE files' = Append(files, NewFile)
    <3>1. NewFile.mtime <= now'
      BY <1>1, <1>2 DEF NewFile
    <3>2. \A f \in 1 .. Len(files') : files'[f] = IF f = Len(files) + 1 THEN NewFile ELSE files[f]
      BY <1>1, <2>3
    <3>3. \A f \in 1 .. Len(files') : f # Len(files) + 1 => f \in 1 .. Len(files)
      BY <1>1, <2>3
    <3>4. QED
      BY <2>1, <3>1, <3>2, <3>3
  <2>4. ASSUME NEW f \in 1 .. Len(files), NEW r, r.mtime <= now', files' = [files EXCEPT ![f] = r]
        PROVE  \A h \in 1 .. Len(files') : files'[h].mtime <= now'
    <3>1. Len(files') = Len(files) /\ \A h \in 1 .. Len(files) : files'[h] = IF h = f THEN r ELSE files[h]
      BY <1>1, <2>4
    <3>2. QED
      BY <2>1, <2>4, <3>1
  <2>5. ASSUME NEW p \in Procs, NEW x
        PROVE  [lines |-> files[proc[p].fd].lines \cup {x}, mtime |-> now].mtime <= now'
    BY <1>1, <1>2
  <2>6. ASSUME NEW g \in Gzips, gz[g].in \in 1 .. Len(files)
        PROVE  files[gz[g].in].mtime <= now'
    BY <2>1, <2>6
  <2>7. QED
    BY <2>2, <2>3, <2>4, <2>5, <2>6, FilesAre
<1>4. cut' <= now'
  <2>1. CASE cut' = cut
    BY <1>1, <1>2, <2>1 DEF InTime
  <2>2. ASSUME NEW p \in Procs, remove_oldlog(p)
        PROVE  cut' <= now'
    <3>1. cut' = cut \/ \E r \in DOMAIN archive : cut' = files[archive[r]].mtime
      BY <2>2, RemoveIs
    <3>2. \A r \in DOMAIN archive : archive[r] \in 1 .. Len(files)
      BY DEF IndInv, DiskType, Ino
    <3>3. cut' = cut \/ \E f \in 1 .. Len(files) : cut' = files[f].mtime
      BY <3>1, <3>2
    <3>4. QED
      BY <1>1, <1>2, <2>1, <3>3 DEF InTime
  <2>3. QED
    BY <1>2, <2>1, <2>2
<1>5. QED
  BY <1>3, <1>4 DEF InTime

(* The files under the names, and how many there are.                      *)
LEMMA NamesLead ==
  ASSUME IndInv
  PROVE  /\ Len(files) \in Nat /\ dir \in [Fixed -> 0 .. Len(files)]
         /\ "log" \in Fixed /\ "pending" \in Fixed /\ "pending.gz" \in Fixed /\ "lock" \in Fixed
         /\ dir["log"] \in 0 .. Len(files) /\ dir["pending"] \in 0 .. Len(files)
         /\ dir["pending.gz"] \in 0 .. Len(files) /\ dir["lock"] \in 0 .. Len(files)
         /\ Range(archive) \subseteq 1 .. Len(files)
         /\ \A n \in DOMAIN archive : archive[n] \in 1 .. Len(files)
<1>1. Len(files) \in Nat /\ dir \in [Fixed -> 0 .. Len(files)] /\ archive \in [DOMAIN archive -> (0 .. Len(files)) \ {0}]
  BY DEF IndInv, DiskType, Ino
<1>2. \A n \in DOMAIN archive : archive[n] \in 1 .. Len(files)
  BY <1>1
<1>3. QED
  BY <1>1, <1>2 DEF Fixed, Range

(* Files move along the names in the order they were written, and the      *)
(* oldest go first.                                                        *)
LEMMA ChainStep ==
  ASSUME IndInv, Alone, Calm, Plain, LogApart, InTime, Chain, [Next]_vars
  PROVE  Chain'
<1> DEFINE A == Range(archive)
           z == dir["pending.gz"]
           p0 == dir["pending"]
           l == dir["log"]
           n == Len(files)
<1>1. SUFFICES ASSUME alone', crashes' = 0
               PROVE  Ordered(files', Range(archive'), dir'["pending.gz"], dir'["pending"], dir'["log"], cut')
  BY DEF Chain
<1>2. /\ alone /\ crashes = 0 /\ ~overlap /\ ~shared
      /\ Ordered(files, A, z, p0, l, cut)
  BY <1>1, HistoryStays DEF Alone, Calm, Chain
<1>3. /\ n \in Nat /\ dir \in [Fixed -> 0 .. n]
      /\ "log" \in Fixed /\ "pending" \in Fixed /\ "pending.gz" \in Fixed /\ "lock" \in Fixed
      /\ l \in 0 .. n /\ p0 \in 0 .. n /\ z \in 0 .. n /\ dir["lock"] \in 0 .. n
      /\ A \subseteq 1 .. n /\ files \in Seq(File) /\ gz \in [Gzips -> Gzip]
  BY NamesLead DEF IndInv, DiskType, ProcType
<1>4. /\ now \in Nat /\ cut \in Nat /\ \A f \in 1 .. n : files[f].mtime \in Nat
  BY Times
<1> DEFINE Goal == Ordered(files', Range(archive'), dir'["pending.gz"], dir'["pending"], dir'["log"], cut')
<1>5. ASSUME files' = files \/ files' = Append(files, NewFile), archive' = archive, cut' = cut,
             dir'["pending.gz"] \in {0, z} \/ (z = 0 /\ dir'["pending.gz"] = n + 1 /\ files' = Append(files, NewFile)),
             dir'["pending"] \in {0, p0},
             dir'["log"] \in {0, l} \/ (l = 0 /\ dir'["log"] = n + 1 /\ files' = Append(files, NewFile))
      PROVE  Goal
  <2>1. \A f \in 1 .. n : files'[f] = files[f]
    BY <1>3, <1>5
  <2>2. files' = Append(files, NewFile) => ~HasLines(files', n + 1)
    BY <1>3 DEF HasLines, NewFile
  <2>3. ~HasLines(files', 0)
    BY DEF HasLines
  <2> DEFINE y == dir'["pending.gz"]
             q == dir'["pending"]
             k == dir'["log"]
  <2>4. Ordered(files', A, z, p0, l, cut)
    <3> HIDE DEF A, z, p0, l, n
    <3>1. QED
      BY <1>2, <1>3, <2>1, OrderedFrame
  <2>5. /\ y = z \/ ~HasLines(files', y)
        /\ q = p0 \/ ~HasLines(files', q)
        /\ k = l \/ ~HasLines(files', k)
    BY <1>5, <2>2, <2>3
  <2>6. Ordered(files', A, y, q, k, cut)
    <3> HIDE DEF A, z, p0, l, n, y, q, k
    <3>1. QED
      BY <2>4, <2>5, OrderedDrop
  <2>7. QED
    BY <1>5, <2>6
<1>6. ASSUME UNCHANGED <<disk, cut>>
      PROVE  Goal
  BY <1>2, <1>6 DEF disk
<1>7. ASSUME NEW p \in Procs, Leave(p) \/ dir' = Unlocked(p, dir)
      PROVE  dir'["pending.gz"] = z /\ dir'["pending"] = p0 /\ dir'["log"] = l
  BY <1>7, LeaveDir
<1>8. ASSUME NEW p \in Procs, Renamed(p)
      PROVE  /\ Range(archive') = A \cup {dir[Target]}
             /\ dir' = [dir EXCEPT ![Target] = 0]
  <2>1. proc[p].name \notin DOMAIN archive
    BY <1>2, <1>8 DEF Renamed, IndInv, Together
  <2>2. /\ archive' = [k \in DOMAIN archive \cup {proc[p].name} |-> IF k = proc[p].name THEN dir[Target] ELSE archive[k]]
        /\ dir' = [dir EXCEPT ![Target] = 0]
    BY <1>8 DEF Renamed
  <2>3. QED
    BY <2>1, <2>2 DEF Range
<1>9. ASSUME NEW p \in Procs, log_lock(p)
      PROVE  Goal
  <2>1. archive' = archive /\ cut' = cut /\ (files' = files \/ files' = Append(files, NewFile))
    BY <1>9 DEF log_lock, history
  <2>2. dir'["pending.gz"] = z /\ dir'["pending"] = p0 /\ dir'["log"] = l
    BY <1>3, <1>9 DEF log_lock
  <2>3. QED
    BY <1>5, <2>1, <2>2
<1>10. ASSUME NEW p \in Procs, write_open(p)
       PROVE  Goal
  <2>1. cut' = cut
    BY <1>10 DEF write_open, history
  <2>2. CASE UNCHANGED disk
    BY <1>6, <2>1, <2>2
  <2>3. CASE LET f == IF dir["log"] = 0 THEN Len(files) + 1 ELSE dir["log"]
             IN  /\ files' = IF f > Len(files) THEN Append(files, NewFile) ELSE files
                 /\ dir' = [dir EXCEPT !["log"] = f] /\ archive' = archive
    <3>1. dir'["pending.gz"] = z /\ dir'["pending"] = p0
      BY <1>3, <2>3
    <3>2. (l # 0 /\ dir'["log"] = l /\ files' = files)
          \/ (l = 0 /\ dir'["log"] = n + 1 /\ files' = Append(files, NewFile))
      BY <1>3, <2>3
    <3>3. QED
      BY <1>5, <2>1, <2>3, <3>1, <3>2
  <2>4. QED
    BY <1>10, <2>2, <2>3, OpenIs
<1>11. ASSUME NEW p \in Procs, write_begin(p) \/ write_line(p)
       PROVE  Goal
  <2>1. UNCHANGED <<dir, archive, cut>> /\ now' = now
    BY <1>11 DEF write_begin, write_line, history
  <2>2. CASE files' = files
    BY <1>6, <2>1, <2>2 DEF disk
  <2>3. ASSUME NEW x, proc[p].fd \in 1 .. n,
               files' = [files EXCEPT ![proc[p].fd] = [lines |-> files[proc[p].fd].lines \cup {x}, mtime |-> now]]
        PROVE  Goal
    <3>1. proc[p].fd = l
      BY <1>2, <1>3, <2>3 DEF Alone
    <3>2. l \notin A /\ l # z /\ l # p0
      BY <1>3, <2>3, <3>1 DEF LogApart, IndInv, Uses, Range
    <3>3. \A f \in 1 .. n : f # l => files'[f] = files[f]
      BY <1>3, <2>3, <3>1
    <3>4. files'[l].mtime = now
      BY <1>3, <2>3, <3>1
    <3>5. \A f \in 1 .. n : files'[f].mtime <= now
      BY <1>4, <3>3, <3>4 DEF InTime
    <3>6. cut <= now
      BY DEF InTime
    <3>7. Ordered(files', A, z, p0, l, cut)
      <4> HIDE DEF A, z, p0, l, n
      <4>1. QED
        BY <1>2, <1>3, <1>4, <3>2, <3>3, <3>4, <3>5, <3>6, OrderedWrite
    <3>8. QED
      BY <2>1, <3>7
  <2>4. files' = files \/ \E x : /\ proc[p].fd \in 1 .. n
          /\ files' = [files EXCEPT ![proc[p].fd] = [lines |-> files[proc[p].fd].lines \cup {x}, mtime |-> now]]
    <3>1. CASE write_begin(p)
      BY <1>3, <3>1, BeginIs
    <3>2. CASE write_line(p)
      BY <1>3, <3>2, WriteIs
    <3>3. QED
      BY <1>11, <3>1, <3>2
  <2>5. QED
    BY <2>2, <2>3, <2>4
<1>12. ASSUME NEW p \in Procs, Inside(p), ~remove_oldlog(p)
       PROVE  Goal
  <2>1. UNCHANGED <<files, cut>>
    BY <1>12, InsideIs
  <2>2. CASE dir' = dir /\ archive' = archive
    BY <1>6, <2>1, <2>2 DEF disk
  <2>3. CASE Leave(p) /\ archive' = archive
    BY <1>5, <1>7, <2>1, <2>3
  <2>4. CASE At(p, "topend") /\ archive' = archive /\ dir' = [dir EXCEPT !["pending"] = dir["log"], !["log"] = 0]
    <3>1. p0 = 0
      BY <1>2, <2>4 DEF IndInv, Together
    <3>2. dir'["pending.gz"] = z /\ dir'["pending"] = l /\ dir'["log"] = 0
      BY <1>3, <2>4
    <3>3. Ordered(files, A, z, l, 0, cut)
      BY <1>2, <3>1, OrderedMoves
    <3>4. QED
      BY <2>1, <2>4, <3>2, <3>3
  <2>5. CASE Renamed(p) /\ mode.nocompress
    <3>1. z = 0 /\ Target = "pending"
      BY <2>5 DEF Plain, Target
    <3>2. Range(archive') = A \cup {p0} /\ dir'["pending.gz"] = 0 /\ dir'["pending"] = 0 /\ dir'["log"] = l
      BY <1>3, <1>8, <2>5, <3>1
    <3>3. Ordered(files, A \cup {p0}, 0, 0, l, cut)
      BY <1>2, <3>1, OrderedMoves
    <3>4. QED
      BY <2>1, <3>2, <3>3
  <2>6. CASE Renamed(p) /\ ~mode.nocompress
    <3>1. Target = "pending.gz"
      BY <2>6 DEF Target
    <3>2. Range(archive') = A \cup {z} /\ dir'["pending.gz"] = 0 /\ dir'["pending"] = p0 /\ dir'["log"] = l
      BY <1>3, <1>8, <2>6, <3>1
    <3>3. Ordered(files, A \cup {z}, 0, p0, l, cut)
      BY <1>2, OrderedMoves
    <3>4. QED
      BY <2>1, <3>2, <3>3
  <2>7. QED
    BY <1>12, <2>2, <2>3, <2>4, <2>5, <2>6, InsideIs
<1>13. ASSUME NEW p \in Procs, wait_pids(p) \/ tlog_close(p)
       PROVE  Goal
  <2>1. UNCHANGED <<files, archive, cut>> /\ (dir' = dir \/ dir' = Unlocked(p, dir))
    BY <1>13 DEF wait_pids, tlog_close, disk, history
  <2>2. QED
    BY <1>5, <1>7, <2>1
<1>14. ASSUME NEW p \in Procs, remove_oldlog(p)
       PROVE  Goal
  <2>1. dir'["pending.gz"] = z /\ dir'["pending"] = p0 /\ dir'["log"] = l /\ files' = files
    BY <1>7, <1>14 DEF remove_oldlog
  <2>2. PICK k \in 0 .. Excess : \E R \in Oldest(k) :
          /\ R \subseteq DOMAIN archive
          /\ archive' = [m \in DOMAIN archive \ R |-> archive[m]]
          /\ \/ cut' = cut
             \/ \E r \in R : HasLines(files, archive[r]) /\ cut' = files[archive[r]].mtime
    BY <1>14, RemoveIs
  <2>3. PICK R \in Oldest(k) :
          /\ R \subseteq DOMAIN archive
          /\ archive' = [m \in DOMAIN archive \ R |-> archive[m]]
          /\ \/ cut' = cut
             \/ \E r \in R : HasLines(files, archive[r]) /\ cut' = files[archive[r]].mtime
    BY <2>2
  <2>4. Range(archive') \subseteq A
    BY <2>3 DEF Range
  <2>5. \A r \in R, m \in DOMAIN archive \ R : files[archive[r]].mtime <= files[archive[m]].mtime
    BY DEF Oldest
  <2>6. \A f \in Range(archive') : Since(files, cut', f)
    <3>1. ASSUME NEW m \in DOMAIN archive \ R
          PROVE  Since(files, cut', archive[m])
      <4>1. archive[m] \in A
        BY DEF Range
      <4>2. Since(files, cut, archive[m])
        BY <1>2, <4>1 DEF Ordered
      <4>3. QED
        BY <2>3, <2>5, <4>2 DEF Since
    <3>2. QED
      BY <2>3, <3>1 DEF Range
  <2>7. cut' = cut \/ \E f \in A : HasLines(files, f) /\ cut' = files[f].mtime
    BY <2>3 DEF Range
  <2>8. Ordered(files, Range(archive'), z, p0, l, cut')
    <3> HIDE DEF A, z, p0, l
    <3>1. QED
      BY <1>2, <2>4, <2>6, <2>7, OrderedCut
  <2>9. QED
    BY <2>1, <2>8
<1>15. ASSUME NEW p \in Procs, log_lockf(p) \/ tlog_init(p) \/ tlog_exit(p) \/ crash(p)
       PROVE  UNCHANGED <<disk, cut>>
  BY <1>15 DEF log_lockf, tlog_init, tlog_exit, crash, disk, history
<1>16. ASSUME NEW g \in Gzips, gzip_open(g) \/ gzip_unlink(g) \/ gzip_fail(g)
       PROVE  Goal
  <2>1. archive' = archive /\ cut' = cut /\ (files' = files \/ files' = Append(files, NewFile))
    BY <1>16 DEF gzip_open, gzip_unlink, gzip_fail, history
  <2>2. dir'["pending"] \in {0, p0} /\ dir'["log"] = l
    BY <1>3, <1>16 DEF gzip_open, gzip_unlink, gzip_fail
  <2>3. dir'["pending.gz"] \in {0, z} \/ (z = 0 /\ dir'["pending.gz"] = n + 1 /\ files' = Append(files, NewFile))
    BY <1>3, <1>16 DEF gzip_open, gzip_unlink, gzip_fail
  <2>4. QED
    BY <1>5, <2>1, <2>2, <2>3
<1>17. ASSUME NEW g \in Gzips, gzip_copy(g)
       PROVE  Goal
  <2>1. UNCHANGED <<dir, archive, cut>> /\ Busy(g) /\ files' = [files EXCEPT ![gz[g].out] = files[gz[g].in]]
    BY <1>17 DEF gzip_copy, history, Busy
  <2>2. p0 = gz[g].in /\ z = gz[g].out /\ p0 # 0 /\ z # 0
    BY <1>2, <2>1 DEF IndInv, OneGzip, GzipFlow
  <2>3. p0 \in 1 .. n /\ z \in 1 .. n /\ l # z
    BY <1>3, <2>2 DEF LogApart
  <2>4. (\A f \in 1 .. n : f # z => files'[f] = files[f]) /\ files'[z] = files[p0]
    BY <1>3, <2>1, <2>2, <2>3
  <2>5. Ordered(files', A, z, p0, l, cut)
    <3> HIDE DEF A, z, p0, l, n
    <3>1. QED
      BY <1>2, <1>3, <1>4, <2>3, <2>4, OrderedCopy
  <2>6. QED
    BY <2>1, <2>5
<1>18. ASSUME tick \/ UNCHANGED vars
       PROVE  UNCHANGED <<disk, cut>>
  BY <1>18 DEF tick, vars, disk, history
<1>19. Goal
  <2> HIDE DEF Goal
  <2>1. QED
    BY <1>6, <1>9, <1>10, <1>11, <1>12, <1>13, <1>14, <1>15, <1>16, <1>17, <1>18
    DEF Next, worker, archive_step, Inside, gzip
<1>20. QED
  BY <1>19

-----------------------------------------------------------------------------
(* How many archives there are.                                            *)

(* One process at most removes archives.                                   *)
LEMMA OneRemoves ==
  ASSUME NEW f, NEW p \in Procs, \A q \in Procs : q # p => f[q].pc # "remove"
  PROVE  Cardinality({q \in Procs : f[q].pc = "remove"}) = IF f[p].pc = "remove" THEN 1 ELSE 0
<1>1. CASE f[p].pc = "remove"
  <2>1. {q \in Procs : f[q].pc = "remove"} = {p}
    BY <1>1
  <2>2. QED
    BY <1>1, <2>1, FS_Singleton
<1>2. CASE f[p].pc # "remove"
  <2>1. {q \in Procs : f[q].pc = "remove"} = {}
    BY <1>2
  <2>2. QED
    BY <1>2, <2>1, FS_EmptySet
<1>3. QED
  BY <1>1, <1>2

(* The numbers are numbers.                                                *)
LEMMA Numbers ==
  ASSUME IndInv
  PROVE  /\ Cardinality(DOMAIN archive) \in Nat /\ Cardinality(Starting) \in Nat /\ IsFiniteSet(Starting)
         /\ Cardinality(Removing) \in Nat /\ Leftover \in {0, 1} /\ crashes \in Nat /\ LogCount \in Nat
         /\ IsFiniteSet(DOMAIN archive) /\ faults \in Nat
<1>1. IsFiniteSet(DOMAIN archive) /\ IsFiniteSet(Procs) /\ crashes \in Nat /\ faults \in Nat /\ LogCount \in Nat /\ MaxCrashes \in Nat
  BY Setup DEF IndInv, DiskType, CountType
<1>2. IsFiniteSet(1 .. MaxCrashes)
  BY <1>1, FS_Interval
<1>3. IsFiniteSet(Starting) /\ IsFiniteSet(Removing)
  BY <1>1, <1>2, FS_Subset DEF Starting, Removing
<1>4. QED
  BY <1>1, <1>3, FS_CardinalityType DEF Leftover

(* After a removal there are no more archives, and not too many if nothing *)
(* failed.                                                                 *)
LEMMA RemovedEnough ==
  ASSUME IndInv, NEW p \in Procs, remove_oldlog(p)
  PROVE  /\ Cardinality(DOMAIN archive') \in Nat /\ Cardinality(DOMAIN archive') <= Cardinality(DOMAIN archive)
         /\ Cardinality(DOMAIN archive') <= LogCount \/ Fault
<1> DEFINE D == DOMAIN archive
<1>1. IsFiniteSet(D) /\ Cardinality(D) \in Nat /\ LogCount \in Nat
  BY Numbers
<1>2. PICK k \in 0 .. Excess : \E R \in Oldest(k) :
        archive' = [n \in D \ R |-> archive[n]] /\ (k = Excess \/ Fault)
  BY RemoveIs
<1>3. PICK R \in Oldest(k) : archive' = [n \in D \ R |-> archive[n]] /\ (k = Excess \/ Fault)
  BY <1>2
<1>4. R \subseteq D /\ Cardinality(R) = k
  BY DEF Oldest
<1>5. DOMAIN archive' = D \ R
  BY <1>3
<1>6. Excess = IF Cardinality(D) - LogCount > 0 THEN Cardinality(D) - LogCount ELSE 0
  BY DEF Excess
<1> HIDE DEF D
<1>7. Excess \in Nat /\ k \in Nat /\ Cardinality(D) - Excess <= LogCount
  BY <1>1, <1>6
<1>8. Cardinality(D \ R) = Cardinality(D) - k
  <2>1. R \subseteq D /\ D \cap R = R
    BY <1>4
  <2>2. Cardinality(D \ R) = Cardinality(D) - Cardinality(D \cap R)
    BY <1>1, FS_Difference
  <2>3. QED
    BY <1>4, <2>1, <2>2
<1>9. Cardinality(D \ R) \in Nat
  BY <1>1, FS_Difference, FS_CardinalityType
<1>10. k = Excess => Cardinality(D \ R) <= LogCount
  BY <1>7, <1>8
<1>11. Cardinality(D \ R) <= Cardinality(D)
  BY <1>1, <1>7, <1>8
<1>12. QED
  BY <1>3, <1>5, <1>9, <1>10, <1>11 DEF D

(* A rename of a process that is alone in the archive makes one more.      *)
LEMMA RenameCounts ==
  ASSUME IndInv, ~shared, NEW p \in Procs, Renamed(p)
  PROVE  Cardinality(DOMAIN archive') = Cardinality(DOMAIN archive) + 1
<1>1. proc[p].name \notin DOMAIN archive
  BY DEF Renamed, IndInv, Together
<1>2. DOMAIN archive' = DOMAIN archive \cup {proc[p].name}
  BY DEF Renamed
<1>3. QED
  BY <1>1, <1>2, Numbers, FS_AddElement

(* The steps of a process but its start and its crash.                     *)
LEMMA BoundOwn ==
  ASSUME IndInv, Alone, Plain, Bound, [Next]_vars, alone', NEW p \in Procs,
         worker(p) \/ write_begin(p) \/ tlog_exit(p)
  PROVE  Bound'
<1> DEFINE a == Cardinality(DOMAIN archive)
           s == Cardinality(Starting)
           z == dir["pending.gz"]
           own(st, t, g) == st # 0 /\ g.st \in {"none", "start"}
                            /\ ~(t.pc \in {"stat", "free", "rename"} /\ t.line = 0)
<1>1. /\ alone /\ ~shared /\ ~At(p, "off") /\ (\A q \in Procs : q # p => At(q, "off") /\ gz[q] = NoGzip)
      /\ s + Leftover <= crashes + faults
      /\ a + s + Leftover <= LogCount + crashes + faults + Cardinality(Removing)
  BY HistoryStays, MoverIsOn, Others DEF Alone, Bound
<1>2. \A q \in Procs : q # p => proc'[q] = proc[q] /\ gz'[q] = gz[q]
  BY OwnStep
<1>3. /\ Cardinality(Removing) = IF proc[p].pc = "remove" THEN 1 ELSE 0
      /\ Cardinality(Removing') = IF proc'[p].pc = "remove" THEN 1 ELSE 0
  BY <1>1, <1>2, OneRemoves DEF Removing, At
<1>4. /\ Leftover  = IF own(z, proc[p], gz[p]) THEN 1 ELSE 0
      /\ Leftover' = IF own(dir'["pending.gz"], proc'[p], gz'[p]) THEN 1 ELSE 0
  BY <1>1, <1>2 DEF Leftover, NoGzip, Reaping, At
<1>5. /\ dir \in [Fixed -> Ino] /\ gz \in [Gzips -> Gzip] /\ p \in Gzips /\ proc \in [Procs -> Log]
      /\ "log" \in Fixed /\ "pending" \in Fixed /\ "pending.gz" \in Fixed /\ "lock" \in Fixed
      /\ NoGzip.st = "none" /\ NewGzip.st = "start"
  BY DEF IndInv, DiskType, ProcType, Gzips, Fixed, NoGzip, NewGzip
<1>6. crashes' = crashes /\ Starting' = Starting /\ (faults' = faults \/ faults' = faults + 1)
  <2>1. CASE Inside(p)
    <3>1. crashes' = crashes /\ (faults' = faults \/ faults' = faults + 1)
      BY <2>1, InsideIs DEF Fault
    <3>2. gz' = gz \/ gz' = [gz EXCEPT ![p] = NewGzip]
      BY <2>1, InsideIs
    <3>3. \A i \in 1 .. MaxCrashes : i # p /\ i \in Gzips
      BY Setup DEF IndInv, Gzips
    <3>4. \A i \in 1 .. MaxCrashes : gz'[i] = gz[i]
      BY <1>5, <3>2, <3>3
    <3>5. QED
      BY <3>1, <3>4 DEF Starting
  <2>2. CASE ~Inside(p)
    <3>1. crashes' = crashes /\ (faults' = faults \/ faults' = faults + 1)
      BY <2>2 DEF worker, archive_step, Inside, log_lock, log_lockf, write_begin, write_open, write_line, wait_pids,
                  tlog_exit, tlog_close, budget, Fault
    <3>2. gz' = gz \/ gz' = [gz EXCEPT ![p] = NoGzip]
      BY <2>2 DEF worker, archive_step, Inside, log_lock, log_lockf, write_begin, write_open, write_line, wait_pids,
                  tlog_exit, tlog_close, Reap
    <3>3. \A i \in 1 .. MaxCrashes : i # p /\ i \in Gzips
      BY Setup DEF IndInv, Gzips
    <3>4. \A i \in 1 .. MaxCrashes : gz'[i] = gz[i]
      BY <1>5, <3>2, <3>3
    <3>5. QED
      BY <3>1, <3>4 DEF Starting
  <2>3. QED
    BY <2>1, <2>2
<1>7. a \in Nat /\ s \in Nat /\ crashes \in Nat /\ faults \in Nat /\ LogCount \in Nat
  BY Numbers
<1> HIDE DEF a, s, z, own
<1>8. ASSUME Cardinality(DOMAIN archive') = a,
             Leftover' <= Leftover \/ (faults' = faults + 1 /\ Leftover' <= Leftover + 1),
             proc[p].pc = "remove" => proc'[p].pc = "remove"
      PROVE  Bound'
  BY <1>1, <1>3, <1>4, <1>6, <1>7, <1>8 DEF Bound, s
<1>9. ASSUME Cardinality(DOMAIN archive') = a + 1, Leftover' <= Leftover,
             proc[p].pc # "remove", proc'[p].pc = "remove"
      PROVE  Bound'
  BY <1>1, <1>3, <1>4, <1>6, <1>7, <1>9 DEF Bound, s
<1>10. ASSUME gz'[p].st = gz[p].st, dir'["pending.gz"] = z,
              proc[p].pc \notin {"stat", "free", "rename"} \/ proc[p].line # 0 \/ z = 0
              \/ (proc'[p].pc \in {"stat", "free", "rename"} /\ proc'[p].line = proc[p].line)
       PROVE  Leftover' <= Leftover
  BY <1>4, <1>10 DEF own
<1>11. ASSUME Leave(p), archive' = archive, gz' = gz, proc[p].pc # "remove",
              faults' = faults + 1 \/ proc[p].pc \notin {"stat", "free", "rename"} \/ z = 0
       PROVE  Bound'
  <2>1. dir'["pending.gz"] = z
    BY <1>11, LeaveDir DEF z
  <2>2. Leftover' <= Leftover \/ (faults' = faults + 1 /\ Leftover' <= Leftover + 1)
    <3>1. CASE faults' = faults + 1
      BY <1>4, <3>1
    <3>2. CASE faults' # faults + 1
      BY <1>10, <1>11, <2>1, <3>2
    <3>3. QED
      BY <3>1, <3>2
  <2>3. QED
    BY <1>8, <1>11, <2>2 DEF a
<1>12. CASE archive_leftover(p) \/ archive_pending(p) \/ archive_name(p) \/ (getmtime(p) /\ ~Leave(p))
  <2>1. UNCHANGED <<gz, archive, dir>>
    BY <1>12 DEF archive_leftover, archive_pending, archive_name, getmtime, disk
  <2>2. /\ proc[p].pc \in {"gz", "pend", "free", "stat"} /\ proc'[p].line = proc[p].line
        /\ proc[p].pc \in {"free", "stat"} => proc'[p].pc \in {"free", "rename"}
    <3>1. proc[p].pc \in {"gz", "pend", "free", "stat"}
      BY <1>12 DEF archive_leftover, archive_pending, archive_name, getmtime, At
    <3>2. proc'[p].line = proc[p].line
      BY <1>12, StepIs
    <3>3. proc[p].pc \in {"free", "stat"} => proc'[p].pc \in {"free", "rename"}
      <4>1. CASE archive_name(p)
        BY <4>1, <1>5 DEF archive_name, Goto, At, Log
      <4>2. CASE getmtime(p) /\ ~Leave(p)
        BY <4>2, <1>5 DEF getmtime, At, Log
      <4>3. QED
        BY <1>12, <4>1, <4>2 DEF archive_leftover, archive_pending, At
    <3>4. QED
      BY <3>1, <3>2, <3>3
  <2>3. Leftover' <= Leftover
    BY <1>10, <2>1, <2>2 DEF z
  <2>4. QED
    BY <1>8, <2>1, <2>2, <2>3 DEF a
<1>13. CASE archive_log(p)
  <2>1. gz' = gz /\ archive' = archive /\ proc[p].pc = "topend"
    BY <1>13 DEF archive_log, At
  <2>2. CASE Leave(p)
    BY <1>11, <2>1, <2>2
  <2>3. CASE dir' = [dir EXCEPT !["pending"] = dir["log"], !["log"] = 0]
    <3>1. dir'["pending.gz"] = z
      BY <1>5, <2>3 DEF z
    <3>2. QED
      BY <1>8, <1>10, <2>1, <3>1 DEF a
  <2>4. QED
    BY <1>13, <2>2, <2>3 DEF archive_log
<1>14. CASE archive_gzip(p)
  <2>1. gz[p] = NoGzip /\ archive' = archive /\ proc[p].pc = "zip"
    BY <1>14 DEF IndInv, Flow, FlowOf, archive_gzip, At, Archiving, Archive
  <2>2. CASE Leave(p) /\ gz' = gz
    BY <1>11, <2>1, <2>2
  <2>3. CASE dir' = dir /\ gz' = [gz EXCEPT ![p] = NewGzip]
    <3>1. gz'[p].st = "start"
      BY <1>5, <2>3
    <3>2. Leftover' <= Leftover
      BY <1>4, <1>5, <2>1, <2>3, <3>1 DEF own, z
    <3>3. QED
      BY <1>8, <2>1, <3>2 DEF a
  <2>4. QED
    BY <1>14, <2>2, <2>3 DEF archive_gzip
<1>15. CASE getmtime(p) /\ Leave(p)
  <2>1. gz' = gz /\ archive' = archive /\ proc[p].pc = "stat"
    BY <1>15 DEF getmtime, At
  <2>2. \/ faults' = faults + 1
        \/ dir[Target] = 0
        \/ proc' = [proc EXCEPT ![p].name = <<files[dir[Target]].mtime, 0>>, ![p].pc = "free"]
    BY <1>15 DEF getmtime, Fault
  <2>3. proc'[p].pc # "free"
    BY <1>15, LeaveIs
  <2>4. faults' = faults + 1 \/ dir[Target] = 0
    BY <1>5, <2>2, <2>3 DEF Log
  <2>5. CASE mode.nocompress
    <3>1. z = 0
      BY <2>5 DEF Plain, z
    <3>2. QED
      BY <1>11, <1>15, <2>1, <3>1
  <2>6. CASE ~mode.nocompress
    <3>1. dir[Target] = z
      BY <2>6 DEF Target, z
    <3>2. QED
      BY <1>11, <1>15, <2>1, <2>4, <3>1
  <2>7. QED
    BY <2>5, <2>6
<1>16. CASE rename_logfile(p) /\ Leave(p) /\ ~Renamed(p)
  <2>1. gz' = gz /\ archive' = archive /\ proc[p].pc = "rename" /\ (faults' = faults + 1 \/ dir[Target] = 0)
    BY <1>16 DEF rename_logfile, At, Fault, Renamed
  <2>2. CASE mode.nocompress
    <3>1. z = 0
      BY <2>2 DEF Plain, z
    <3>2. QED
      BY <1>11, <1>16, <2>1, <3>1
  <2>3. CASE ~mode.nocompress
    <3>1. dir[Target] = z
      BY <2>3 DEF Target, z
    <3>2. QED
      BY <1>11, <1>16, <2>1, <3>1
  <2>4. QED
    BY <2>2, <2>3
<1>17. CASE rename_logfile(p) /\ Renamed(p)
  <2>1. Cardinality(DOMAIN archive') = a + 1
    BY <1>1, <1>17, RenameCounts DEF a
  <2>2. gz' = gz /\ gz[p] = NoGzip /\ proc[p].pc = "rename"
    BY <1>17 DEF rename_logfile, At, IndInv, Flow, FlowOf, Archiving, Archive
  <2>3. proc'[p].pc = IF mode.nocompress \/ proc[p].line = 0 THEN "remove" ELSE "pend"
    <3>1. \/ Leave(p) /\ archive' = archive
          \/ proc' = [proc EXCEPT ![p].name = NoName,
                                  ![p].pc = IF mode.nocompress \/ proc[p].line = 0 THEN "remove" ELSE "pend"]
      BY <1>17 DEF rename_logfile
    <3>2. archive' # archive
      BY <1>7, <2>1 DEF a
    <3>3. QED
      BY <1>5, <3>1, <3>2 DEF Log
  <2>4. CASE mode.nocompress
    <3>1. z = 0 /\ dir' = [dir EXCEPT !["pending"] = 0]
      BY <1>17, <2>4 DEF Plain, Renamed, Target, z
    <3>2. dir'["pending.gz"] = z
      BY <1>5, <3>1 DEF z
    <3>3. QED
      BY <1>9, <1>10, <2>1, <2>2, <2>3, <2>4, <3>1, <3>2
  <2>5. CASE ~mode.nocompress
    <3>1. z # 0 /\ dir' = [dir EXCEPT !["pending.gz"] = 0]
      BY <1>17, <2>5 DEF Renamed, Target, z
    <3>2. dir'["pending.gz"] = 0
      BY <1>5, <3>1
    <3>3. Leftover' = 0
      BY <1>4, <3>2 DEF own
    <3>4. CASE proc[p].line = 0
      BY <1>4, <1>9, <2>1, <2>2, <2>3, <3>3, <3>4
    <3>5. CASE proc[p].line # 0
      <4>1. Leftover = 1
        BY <1>4, <1>5, <2>2, <3>1, <3>5 DEF own
      <4>2. proc'[p].pc # "remove"
        BY <2>3, <2>5, <3>5
      <4>3. QED
        BY <1>1, <1>3, <1>6, <1>7, <2>1, <2>2, <3>3, <4>1, <4>2 DEF Bound, s
    <3>6. QED
      BY <3>4, <3>5
  <2>6. QED
    BY <2>4, <2>5
<1>18. CASE remove_oldlog(p)
  <2>1. /\ Cardinality(DOMAIN archive') \in Nat /\ Cardinality(DOMAIN archive') <= a
        /\ Cardinality(DOMAIN archive') <= LogCount \/ faults' = faults + 1
    BY <1>18, RemovedEnough DEF a, Fault
  <2>2. gz' = gz /\ Leave(p) /\ proc[p].pc = "remove"
    BY <1>18 DEF remove_oldlog, At
  <2>3. dir'["pending.gz"] = z
    BY <2>2, LeaveDir DEF z
  <2>4. Leftover' <= Leftover /\ Leftover \in {0, 1} /\ Leftover' \in {0, 1}
    BY <1>4, <1>10, <2>2, <2>3
  <2>5. proc'[p].pc # "remove"
    BY <2>2, LeaveIs
  <2>6. QED
    BY <1>1, <1>3, <1>6, <1>7, <2>1, <2>2, <2>4, <2>5 DEF Bound, s
<1>19. CASE wait_pids(p) \/ tlog_close(p)
  <2>1. archive' = archive /\ proc[p].pc \in {"idle", "exit"} /\ dir'["pending.gz"] = z
    BY <1>19, LeaveDir DEF wait_pids, tlog_close, disk, At, z
  <2>2. CASE gz' = gz
    BY <1>8, <1>10, <2>1, <2>2 DEF a
  <2>3. CASE gz[p].st = "done" /\ Reap(p)
    <3>1. Leftover = 0
      BY <1>4, <2>3 DEF own
    <3>2. proc'[p].pc = "stat" /\ proc'[p].line = proc[p].line
      BY <1>5, <2>3 DEF Reap, Goto, Log
    <3>3. proc[p].line = 0
      BY <2>1 DEF IndInv, Flow, FlowOf
    <3>4. Leftover' = 0
      BY <1>4, <3>2, <3>3 DEF own
    <3>5. QED
      BY <1>8, <2>1, <3>1, <3>4 DEF a
  <2>4. QED
    BY <1>19, <2>2, <2>3 DEF wait_pids, tlog_close
<1>20. CASE log_lock(p) \/ log_lockf(p) \/ write_open(p) \/ write_line(p) \/ write_begin(p) \/ tlog_exit(p)
  <2>1. gz' = gz /\ archive' = archive /\ proc[p].pc \notin {"remove", "stat", "free", "rename"}
    BY <1>20 DEF log_lock, log_lockf, write_open, write_line, write_begin, tlog_exit, At, disk
  <2>2. dir'["pending.gz"] = z
    <3>1. CASE log_lock(p)
      BY <1>5, <3>1 DEF log_lock, z
    <3>2. CASE write_open(p)
      BY <1>5, <3>2, OpenIs DEF disk, z
    <3>3. QED
      BY <1>20, <3>1, <3>2 DEF log_lockf, write_line, write_begin, tlog_exit, disk, z
  <2>3. QED
    BY <1>8, <1>10, <2>1, <2>2 DEF a
<1>21. rename_logfile(p) => (Leave(p) /\ ~Renamed(p)) \/ Renamed(p)
  BY DEF rename_logfile, Renamed
<1>22. QED
  BY <1>12, <1>13, <1>14, <1>15, <1>16, <1>17, <1>18, <1>19, <1>20, <1>21 DEF worker, archive_step

(* A crash may leave one gzip or one .pending.gz behind.                   *)
LEMMA BoundCrash ==
  ASSUME IndInv, Alone, Bound, [Next]_vars, alone', NEW p \in Procs, crash(p)
  PROVE  Bound'
<1> DEFINE z == IF gz[p].st = "done" THEN NoGzip ELSE gz[p]
           c == crashes + 1
<1>1. /\ alone /\ ~At(p, "off") /\ (\A q \in Procs : q # p => At(q, "off") /\ gz[q] = NoGzip)
      /\ Cardinality(Starting) + Leftover <= crashes + faults
      /\ Cardinality(DOMAIN archive) + Cardinality(Starting) + Leftover <= LogCount + crashes + faults + Cardinality(Removing)
  BY HistoryStays, MoverIsOn, Others DEF Bound
<1>2. /\ Cardinality(DOMAIN archive) \in Nat /\ Cardinality(Starting) \in Nat /\ IsFiniteSet(Starting)
      /\ crashes \in Nat /\ faults \in Nat /\ LogCount \in Nat
  BY Numbers
<1>3. /\ crashes' = c /\ faults' = faults /\ archive' = archive /\ dir' = dir
      /\ proc' = [proc EXCEPT ![p] = Closed] /\ gz' = [gz EXCEPT ![p] = NoGzip, ![c] = z]
  BY DEF crash, disk
<1>4. c \in 1 .. MaxCrashes /\ c \in Gzips /\ gz[c] = NoGzip /\ c \notin Procs /\ \A i \in 1 .. MaxCrashes : i # p
  <2>1. c \in 1 .. MaxCrashes /\ c > crashes
    BY <1>2, Setup DEF crash, IndInv, CountType
  <2>2. QED
    BY <2>1, Setup DEF IndInv, GzipFlow, Gzips
<1>5. /\ gz \in [Gzips -> Gzip] /\ p \in Gzips /\ (\A q \in Procs : q \in Gzips) /\ proc \in [Procs -> Log]
      /\ NoGzip.st = "none" /\ Closed.pc = "off" /\ \A i \in 1 .. MaxCrashes : i \in Gzips
  BY DEF IndInv, ProcType, Gzips, NoGzip, Closed
<1> HIDE DEF z, c
<1>6. /\ gz'[p] = NoGzip /\ (\A q \in Procs : q # p => gz'[q] = gz[q])
      /\ \A i \in 1 .. MaxCrashes : gz'[i] = IF i = c THEN z ELSE gz[i]
  BY <1>3, <1>4, <1>5
<1>7. /\ Cardinality(Removing) = IF proc[p].pc = "remove" THEN 1 ELSE 0
      /\ Cardinality(Removing') = 0
  <2>1. proc'[p].pc = "off" /\ \A q \in Procs : q # p => proc'[q] = proc[q]
    BY <1>3, <1>5
  <2>2. QED
    BY <1>1, <2>1, OneRemoves DEF Removing, At
<1>8. /\ Leftover = IF dir["pending.gz"] # 0 /\ gz[p].st \in {"none", "start"} /\ ~Reaping(p) THEN 1 ELSE 0
      /\ Leftover' \in {0, IF dir["pending.gz"] # 0 THEN 1 ELSE 0}
  <2>1. \A q \in Procs : q # p => gz[q].st = "none" /\ ~Reaping(q)
    BY <1>1, <1>5 DEF Reaping, At
  <2>2. QED
    BY <1>3, <2>1 DEF Leftover
<1>9. Cardinality(Starting') = IF gz[p].st = "start" THEN Cardinality(Starting) + 1 ELSE Cardinality(Starting)
  <2>1. c \notin Starting
    BY <1>4, <1>5 DEF Starting
  <2>2. z.st = "start" <=> gz[p].st = "start"
    BY <1>5 DEF z
  <2>3. CASE gz[p].st = "start"
    <3>1. Starting' = Starting \cup {c}
      BY <1>4, <1>6, <2>2, <2>3 DEF Starting
    <3>2. QED
      BY <1>2, <2>1, <2>3, <3>1, FS_AddElement
  <2>4. CASE gz[p].st # "start"
    <3>1. Starting' = Starting
      BY <1>4, <1>6, <2>1, <2>2, <2>4 DEF Starting
    <3>2. QED
      BY <2>4, <3>1
  <2>5. QED
    BY <2>3, <2>4
<1>10. /\ proc[p].pc = "remove" => gz[p].st = "none" /\ ~Reaping(p)
       /\ Reaping(p) => gz[p].st = "none"
  BY <1>5 DEF IndInv, Flow, FlowOf, Archiving, Archive, Reaping
<1>11. crashes' = crashes + 1
  BY <1>3 DEF c
<1>12. QED
  BY <1>1, <1>2, <1>3, <1>7, <1>8, <1>9, <1>10, <1>11 DEF Bound

(* gzip makes .pending.gz, and that counts for an orphan that had not      *)
(* begun.                                                                  *)
LEMMA BoundGzip ==
  ASSUME IndInv, Bound, [Next]_vars, alone', NEW g \in Gzips, gzip(g) \/ gzip_fail(g)
  PROVE  Bound'
<1>1. /\ alone
      /\ Cardinality(Starting) + Leftover <= crashes + faults
      /\ Cardinality(DOMAIN archive) + Cardinality(Starting) + Leftover <= LogCount + crashes + faults + Cardinality(Removing)
  BY HistoryStays DEF Bound
<1>2. /\ Cardinality(DOMAIN archive) \in Nat /\ Cardinality(Starting) \in Nat /\ IsFiniteSet(Starting)
      /\ crashes \in Nat /\ faults \in Nat /\ LogCount \in Nat /\ Cardinality(Removing) \in Nat /\ Leftover \in {0, 1}
  BY Numbers
<1>3. proc' = proc /\ archive' = archive /\ crashes' = crashes /\ faults' \in {faults, faults + 1}
  BY DEF gzip, gzip_open, gzip_copy, gzip_unlink, gzip_fail, budget, Fault
<1>4. Removing' = Removing
  BY <1>3 DEF Removing, At
<1>5. gz \in [Gzips -> Gzip] /\ \A i \in (1 .. MaxCrashes) \cup Procs : i \in Gzips
  BY DEF IndInv, ProcType, Gzips
<1>6. \E x : gz' = [gz EXCEPT ![g] = x] /\ x.st \in {"copy", "unlink", Ended(g).st}
  <2>1. CASE gzip_copy(g)
    <3>1. gz' = [gz EXCEPT ![g] = [gz[g] EXCEPT !.st = "unlink"]]
      BY <1>5, <2>1 DEF gzip_copy
    <3>2. [gz[g] EXCEPT !.st = "unlink"].st = "unlink"
      BY <1>5 DEF Gzip
    <3>3. QED
      BY <3>1, <3>2
  <2>2. CASE gzip_open(g)
    BY <2>2 DEF gzip_open
  <2>3. CASE gzip_unlink(g) \/ gzip_fail(g)
    BY <2>3 DEF gzip_unlink, gzip_fail
  <2>4. QED
    BY <2>1, <2>2, <2>3 DEF gzip
<1>7. /\ \A i \in Gzips : i # g => gz'[i] = gz[i]
      /\ gz'[g].st \in {"copy", "unlink", Ended(g).st}
  BY <1>5, <1>6
<1>8. ASSUME Cardinality(Starting') + Leftover' <= Cardinality(Starting) + Leftover,
             Cardinality(Starting') \in Nat, Leftover' \in {0, 1}
      PROVE  Bound'
  BY <1>1, <1>2, <1>3, <1>4, <1>8 DEF Bound
<1>9. Leftover' \in {0, 1}
  BY DEF Leftover
<1>10. CASE g \in Procs
  <2>1. g \notin 1 .. MaxCrashes /\ gz'[g].st \in {"copy", "unlink", "done"}
    BY <1>7, <1>10, Setup DEF IndInv, Ended
  <2>2. Starting' = Starting
    BY <1>5, <1>7, <2>1 DEF Starting
  <2>3. Leftover' = 0
    BY <1>10, <2>1 DEF Leftover
  <2>4. QED
    BY <1>2, <1>8, <2>2, <2>3
<1>11. CASE g \notin Procs
  <2>1. g \in 1 .. MaxCrashes /\ gz'[g].st # "start"
    BY <1>7, <1>11 DEF Gzips, Ended, NoGzip
  <2>2. Starting' = Starting \ {g}
    BY <1>5, <1>7, <2>1 DEF Starting
  <2>3. CASE gzip_open(g)
    <3>1. g \in Starting
      BY <2>1, <2>3 DEF gzip_open, Starting
    <3>2. Cardinality(Starting') = Cardinality(Starting) - 1 /\ Cardinality(Starting') \in Nat
      BY <1>2, <2>2, <3>1, FS_RemoveElement, FS_CardinalityType
    <3>3. QED
      BY <1>2, <1>8, <1>9, <3>2
  <2>4. CASE ~gzip_open(g)
    <3>1. g \notin Starting
      BY <2>4 DEF gzip, gzip_copy, gzip_unlink, gzip_fail, Starting
    <3>2. Starting' = Starting
      BY <2>2, <3>1
    <3>3. dir'["pending.gz"] \in {0, dir["pending.gz"]}
      BY <2>4 DEF gzip, gzip_copy, gzip_unlink, gzip_fail, IndInv, DiskType, Fixed
    <3>4. \A q \in Procs : gz'[q] = gz[q]
      BY <1>5, <1>7, <1>11
    <3>5. Leftover' <= Leftover
      BY <1>3, <3>3, <3>4 DEF Leftover, Reaping
    <3>6. QED
      BY <1>2, <1>8, <1>9, <3>2, <3>5
  <2>5. QED
    BY <2>3, <2>4
<1>12. QED
  BY <1>10, <1>11

(* No archive is one too many for long.                                    *)
LEMMA BoundStep ==
  ASSUME IndInv, Alone, Plain, Bound, [Next]_vars
  PROVE  Bound'
<1>1. SUFFICES ASSUME alone' PROVE Bound'
  BY DEF Bound
<1>2. ASSUME UNCHANGED <<archive, gz, dir, crashes, faults>>,
             \A p \in Procs : (At(p, "remove")' <=> At(p, "remove")) /\ (Reaping(p)' <=> Reaping(p))
      PROVE  Bound'
  <2>1. Starting' = Starting /\ Removing' = Removing /\ Leftover' = Leftover
    BY <1>2 DEF Starting, Removing, Leftover
  <2>2. QED
    BY <1>1, <1>2, <2>1, HistoryStays DEF Bound
<1>3. ASSUME NEW p \in Procs, tlog_init(p)
      PROVE  Bound'
  <2>1. UNCHANGED <<archive, gz, dir, crashes, faults>> /\ proc' = [proc EXCEPT ![p] = Opened] /\ At(p, "off")
    BY <1>3 DEF tlog_init, disk, budget
  <2>2. Opened.pc = "idle"
    BY DEF Opened, Closed
  <2>3. \A q \in Procs : (At(q, "remove")' <=> At(q, "remove")) /\ (Reaping(q)' <=> Reaping(q))
    BY <2>1, <2>2 DEF At, Reaping, IndInv, ProcType
  <2>4. QED
    BY <1>2, <2>1, <2>3
<1>4. CASE tick
  <2>1. UNCHANGED <<archive, gz, dir, crashes, faults>>
    BY <1>4 DEF tick, disk, budget
  <2>2. \A q \in Procs : proc'[q].pc = proc[q].pc /\ proc'[q].line = proc[q].line
    BY <1>4 DEF tick, IndInv, ProcType, Log
  <2>3. QED
    BY <1>2, <2>1, <2>2 DEF At, Reaping
<1>5. CASE UNCHANGED vars
  BY <1>2, <1>5 DEF vars, disk, budget, At, Reaping
<1>6. QED
  BY <1>1, <1>3, <1>4, <1>5, BoundOwn, BoundCrash, BoundGzip DEF Next

-----------------------------------------------------------------------------
(* What is left when nothing fails.                                        *)

(* Time changes nothing that a process holds.                              *)
LEMMA TimePasses ==
  ASSUME IndInv, tick \/ UNCHANGED vars, NEW p \in Procs
  PROVE  /\ proc'[p].pc = proc[p].pc /\ proc'[p].line = proc[p].line
         /\ proc'[p].lockfd = proc[p].lockfd /\ proc'[p].fd_lock = proc[p].fd_lock
<1>1. CASE tick
  BY <1>1 DEF tick, IndInv, ProcType, Log
<1>2. CASE UNCHANGED vars
  BY <1>2 DEF vars
<1>3. QED
  BY <1>1, <1>2

(* .pending and .pending.gz belong to the process that is about to archive *)
(* them or to its gzip.                                                    *)
LEMMA CleanStep ==
  ASSUME IndInv, Alone, Clean, [Next]_vars
  PROVE  Clean'
<1> DEFINE H(t) == t.pc = "zip" \/ (mode.nocompress /\ t.pc \in {"stat", "free", "rename"})
           R(t) == t.pc \in {"stat", "free", "rename"} /\ t.line = 0
           Ok(t, st, x, z) == /\ x # 0 => H(t) \/ st \in {"start", "copy", "unlink"}
                              /\ z # 0 => R(t) \/ st \in {"copy", "unlink", "done"}
                              /\ H(t) => x # 0
                              /\ st = "start" => x # 0 /\ z = 0
                              /\ x # 0 /\ z # 0 => st \in {"copy", "unlink"}
           x == dir["pending"]
           z == dir["pending.gz"]
<1>1. SUFFICES ASSUME alone', crashes' = 0, faults' = 0 PROVE Clean'
  BY DEF Clean
<1>2. alone /\ crashes = 0 /\ faults = 0 /\ ~Fault /\ ~shared /\ mode' = mode
  BY <1>1, HistoryStays, SetupFixed DEF Fault, Alone
<1>3. /\ dir \in [Fixed -> Ino] /\ gz \in [Gzips -> Gzip] /\ (\A q \in Procs : q \in Gzips) /\ proc \in [Procs -> Log]
      /\ "log" \in Fixed /\ "pending" \in Fixed /\ "pending.gz" \in Fixed /\ "lock" \in Fixed
      /\ NoGzip.st = "none" /\ NewGzip.st = "start"
  BY DEF IndInv, DiskType, ProcType, Gzips, Fixed, NoGzip, NewGzip
<1>4. ASSUME NEW p \in Procs, \A q \in Procs : q # p => proc[q].pc = "off" /\ gz[q] = NoGzip
      PROVE  Ok(proc[p], gz[p].st, x, z)
  <2>1. \A q \in Procs : q # p => ~Holder(q) /\ ~Reaping(q) /\ gz[q].st = "none"
    BY <1>3, <1>4 DEF Holder, Reaping, At
  <2>2. QED
    BY <1>2, <2>1 DEF Clean, Holder, Reaping, At, Busy
<1>5. ASSUME NEW p \in Procs, \A q \in Procs : q # p => proc'[q].pc = "off" /\ gz'[q] = NoGzip,
             Ok(proc'[p], gz'[p].st, x', z')
      PROVE  Clean'
  <2>1. \A q \in Procs : q # p => ~Holder(q)' /\ gz'[q].st = "none"
    BY <1>3, <1>5 DEF Holder, At
  <2>2. Holder(p)' <=> H(proc'[p])
    BY <1>2 DEF Holder, At
  <2>3. Reaping(p)' <=> R(proc'[p])
    BY DEF Reaping
  <2> HIDE DEF H, R
  <2>4. /\ (dir["pending"] # 0 => \E q \in Procs : Holder(q) \/ gz[q].st \in {"start", "copy", "unlink"})'
        /\ (dir["pending.gz"] # 0 => \E q \in Procs : Reaping(q) \/ gz[q].st \in {"copy", "unlink", "done"})'
    BY <1>5, <2>2, <2>3
  <2>5. /\ (\A q \in Procs : Holder(q) => dir["pending"] # 0)'
        /\ (\A q \in Procs : gz[q].st = "start" => dir["pending"] # 0 /\ dir["pending.gz"] = 0)'
    BY <1>5, <2>1, <2>2
  <2>6. (dir["pending"] # 0 /\ dir["pending.gz"] # 0 => \E q \in Procs : Busy(q))'
    BY <1>5 DEF Busy
  <2>7. QED
    BY <2>4, <2>5, <2>6 DEF Clean
<1>6. ASSUME NEW p \in Procs, worker(p) \/ write_begin(p) \/ tlog_init(p) \/ tlog_exit(p) \/ crash(p)
      PROVE  /\ \A q \in Procs : q # p => proc'[q].pc = "off" /\ gz'[q] = NoGzip
             /\ Ok(proc[p], gz[p].st, x, z)
  <2>1. \A q \in Procs : q # p => proc[q].pc = "off"
    <3>1. CASE tlog_init(p)
      BY <1>1, <3>1 DEF tlog_init, At
    <3>2. CASE ~tlog_init(p)
      BY <1>2, <1>6, <3>2, Others, MoverIsOn DEF At
    <3>3. QED
      BY <3>1, <3>2
  <2>2. \A q \in Procs : proc[q].pc = "off" => gz[q] = NoGzip
    BY DEF IndInv, Flow, FlowOf
  <2>3. \A q \in Procs : q # p => proc'[q] = proc[q] /\ gz'[q] = gz[q]
    BY <1>6, OwnStep
  <2> HIDE DEF Ok
  <2>4. QED
    BY <1>4, <2>1, <2>2, <2>3
<1>7. ASSUME NEW p \in Procs, worker(p) \/ write_begin(p) \/ tlog_init(p) \/ tlog_exit(p) \/ crash(p),
             gz'[p] = gz[p], x' = x, z' = z, H(proc'[p]) <=> H(proc[p]), R(proc'[p]) <=> R(proc[p])
      PROVE  Clean'
  <2> HIDE DEF H, R, x, z
  <2>1. Ok(proc'[p], gz'[p].st, x', z')
    BY <1>6, <1>7
  <2> HIDE DEF Ok
  <2>2. QED
    BY <1>5, <1>6, <1>7, <2>1
<1>8. ASSUME NEW p \in Procs, worker(p) \/ write_begin(p) \/ tlog_init(p) \/ tlog_exit(p) \/ crash(p),
             gz'[p] = gz[p], x' = x, z' = z, proc[p].pc \notin {"zip", "stat", "free", "rename"},
             proc'[p].pc \notin {"zip", "stat", "free", "rename"}
      PROVE  Clean'
  <2>1. ~H(proc[p]) /\ ~H(proc'[p]) /\ ~R(proc[p]) /\ ~R(proc'[p])
    BY <1>8
  <2> HIDE DEF H, R, Ok, x, z
  <2>2. QED
    BY <1>7, <1>8, <2>1
<1>9. ASSUME NEW p \in Procs, worker(p) \/ write_begin(p) \/ tlog_init(p) \/ tlog_exit(p) \/ crash(p),
             Ok(proc'[p], gz'[p].st, x', z')
      PROVE  Clean'
  <2> HIDE DEF Ok, x, z
  <2>1. QED
    BY <1>5, <1>6, <1>9
<1>10. ASSUME NEW p \in Procs, log_lock(p) \/ log_lockf(p)
       PROVE  Clean'
  <2>1. gz' = gz /\ proc[p].pc \in {"lock", "lockf"} /\ proc'[p].pc \in {"pend", "gz", "lockf", "open"}
    <3>1. CASE log_lock(p)
      BY <1>2, <1>3, <3>1 DEF log_lock, Goto, At, Log, FirstStep
    <3>2. CASE log_lockf(p)
      <4>1. /\ gz' = gz /\ proc[p].pc = "lockf"
            /\ \E k : proc' = [proc EXCEPT ![p] = [proc[p] EXCEPT !.lockfd = 0, !.pc = "open"]]
                     \/ proc' = [proc EXCEPT ![p] = [proc[p] EXCEPT !.lockfd = 0, !.fd_lock = k, !.pc = FirstStep]]
        BY <3>2 DEF log_lockf, At
      <4>2. QED
        BY <1>3, <4>1 DEF FirstStep, Log
    <3>3. QED
      BY <1>10, <3>1, <3>2
  <2>2. x' = x /\ z' = z
    BY <1>3, <1>10 DEF log_lock, log_lockf, disk
  <2>3. QED
    BY <1>8, <1>10, <2>1, <2>2 DEF worker, archive_step
<1>11. ASSUME NEW p \in Procs, Inside(p)
       PROVE  Clean'
  <2>1. worker(p) /\ faults' = faults
    BY <1>2, <1>11, InsideIs
  <2>2. Ok(proc[p], gz[p].st, x, z)
    BY <1>6, <2>1
  <2>3. /\ proc[p].pc \in Archive /\ gz[p].st = "none" /\ proc'[p].line = proc[p].line
        /\ (mode.nocompress => proc[p].pc \notin {"gz", "zip"})
        /\ (mode.nocompress /\ proc[p].pc \in Naming => proc[p].line # 0)
        /\ (proc[p].pc \in Logging => proc[p].line # 0)
    BY <1>3, <1>11, StepIs DEF Inside, IndInv, Flow, FlowOf, Archiving
  <2>4. ASSUME Leave(p), gz' = gz, x = 0, z = 0
        PROVE  Clean'
    <3>1. proc'[p].pc \in {"open", "idle", "exit"} /\ x' = 0 /\ z' = 0
      BY <2>4, LeaveIs, LeaveDir
    <3>2. Ok(proc'[p], gz'[p].st, x', z')
      BY <2>3, <2>4, <3>1
    <3>3. QED
      BY <1>9, <2>1, <3>2
  <2>5. CASE archive_leftover(p)
    <3>1. proc[p].pc = "gz" /\ z = 0
      BY <2>2, <2>3, <2>5 DEF archive_leftover, At
    <3>2. gz' = gz /\ dir' = dir /\ Goto(p, "pend")
      BY <2>5, <3>1 DEF archive_leftover, disk
    <3>3. proc'[p].pc = "pend"
      BY <3>2, GotoIs DEF Labels, Logging
    <3>4. QED
      BY <1>8, <2>1, <3>1, <3>2, <3>3
  <2>6. CASE archive_pending(p)
    <3>1. proc[p].pc = "pend" /\ x = 0
      BY <2>2, <2>3, <2>6 DEF archive_pending, At
    <3>2. gz' = gz /\ dir' = dir /\ Goto(p, "topend")
      BY <2>6, <3>1 DEF archive_pending, disk
    <3>3. proc'[p].pc = "topend"
      BY <3>2, GotoIs DEF Labels, Logging
    <3>4. QED
      BY <1>8, <2>1, <3>1, <3>2, <3>3
  <2>7. CASE archive_log(p)
    <3>1. proc[p].pc = "topend" /\ x = 0 /\ z = 0 /\ gz' = gz
      BY <2>2, <2>3, <2>7 DEF archive_log, At
    <3>2. CASE Leave(p)
      BY <2>4, <3>1, <3>2
    <3>3. CASE /\ dir["log"] # 0 /\ dir' = [dir EXCEPT !["pending"] = dir["log"], !["log"] = 0]
               /\ Goto(p, IF mode.nocompress THEN "stat" ELSE "zip")
      <4>1. x' # 0 /\ z' = 0
        BY <1>3, <3>1, <3>3
      <4>2. proc'[p].pc = IF mode.nocompress THEN "stat" ELSE "zip"
        BY <3>3, GotoIs DEF Labels, Logging, Archiving, Archive
      <4>3. Ok(proc'[p], gz'[p].st, x', z')
        BY <2>3, <3>1, <4>1, <4>2
      <4>4. QED
        BY <1>9, <2>1, <4>3
    <3>4. QED
      BY <2>7, <3>2, <3>3 DEF archive_log
  <2>8. CASE archive_gzip(p)
    <3>1. proc[p].pc = "zip" /\ x # 0 /\ z = 0
      BY <2>2, <2>3, <2>8 DEF archive_gzip, At
    <3>2. gz' = [gz EXCEPT ![p] = NewGzip] /\ Goto(p, "open") /\ dir' = dir
      BY <1>2, <2>8 DEF archive_gzip
    <3>3. gz'[p].st = "start" /\ proc'[p].pc = "open"
      BY <1>3, <3>2, GotoIs DEF Labels, Logging
    <3>4. Ok(proc'[p], gz'[p].st, x', z')
      BY <3>1, <3>2, <3>3
    <3>5. QED
      BY <1>9, <2>1, <3>4
  <2>9. CASE getmtime(p) \/ archive_name(p) \/ rename_logfile(p)
    <3>1. /\ proc[p].pc \in {"stat", "free", "rename"} /\ gz' = gz
          /\ (mode.nocompress => x # 0 /\ z = 0) /\ (~mode.nocompress => x = 0)
      BY <2>2, <2>3, <2>9 DEF getmtime, archive_name, rename_logfile, At, Naming
    <3>2. CASE proc'[p].pc \in {"free", "rename"} /\ dir' = dir
      BY <1>7, <2>1, <2>3, <3>1, <3>2
    <3>3. CASE Leave(p) /\ dir[Target] = 0
      BY <2>4, <3>1, <3>3 DEF Target
    <3>4. CASE dir' = [dir EXCEPT ![Target] = 0] /\ proc'[p].pc \in {"remove", "pend"}
      <4>1. x' = 0 /\ z' = 0
        BY <1>3, <3>1, <3>4 DEF Target
      <4>2. Ok(proc'[p], gz'[p].st, x', z')
        BY <2>3, <3>1, <3>4, <4>1
      <4>3. QED
        BY <1>9, <2>1, <4>2
    <3>5. CASE getmtime(p)
      <4>1. \/ dir' = dir /\ proc' = [proc EXCEPT ![p].name = <<files[dir[Target]].mtime, 0>>, ![p].pc = "free"]
            \/ Leave(p) /\ dir[Target] = 0
        BY <1>2, <3>5 DEF getmtime
      <4>2. QED
        BY <1>3, <3>2, <3>3, <4>1 DEF Log
    <3>6. CASE archive_name(p)
      <4>1. proc[p].pc = "free" /\ dir' = dir
        BY <3>6 DEF archive_name, At, disk
      <4>2. proc'[p].pc \in {"free", "rename"}
        BY <1>3, <3>6, <4>1 DEF archive_name, Goto, Log
      <4>3. QED
        BY <3>2, <4>1, <4>2
    <3>7. CASE rename_logfile(p)
      <4>1. \/ /\ dir' = [dir EXCEPT ![Target] = 0]
               /\ proc' = [proc EXCEPT ![p].name = NoName,
                                       ![p].pc = IF mode.nocompress \/ proc[p].line = 0 THEN "remove" ELSE "pend"]
            \/ Leave(p) /\ dir[Target] = 0
        BY <1>2, <3>7 DEF rename_logfile
      <4>2. QED
        BY <1>3, <3>3, <3>4, <4>1 DEF Log
    <3>8. QED
      BY <2>9, <3>5, <3>6, <3>7
  <2>10. CASE remove_oldlog(p)
    <3>1. proc[p].pc = "remove" /\ x = 0 /\ z = 0 /\ gz' = gz /\ Leave(p)
      BY <2>2, <2>3, <2>10 DEF remove_oldlog, At
    <3>2. QED
      BY <2>4, <3>1
  <2>11. QED
    BY <1>11, <2>5, <2>6, <2>7, <2>8, <2>9, <2>10 DEF Inside
<1>12. ASSUME NEW p \in Procs, write_open(p)
       PROVE  Clean'
  <2>1. gz' = gz /\ proc[p].pc = "open" /\ proc'[p].pc \in {"idle", "write"}
    BY <1>12, OpenIs DEF write_open, At
  <2>2. x' = x /\ z' = z
    BY <1>3, <1>12, OpenIs DEF disk
  <2>3. QED
    BY <1>8, <1>12, <2>1, <2>2 DEF worker
<1>13. ASSUME NEW p \in Procs, write_begin(p) \/ write_line(p)
       PROVE  Clean'
  <2>1. gz' = gz /\ dir' = dir
    BY <1>13 DEF write_begin, write_line
  <2>2. proc[p].pc \in {"idle", "write"} /\ proc'[p].pc \in {"lock", "open", "write", "idle"}
    BY <1>13, BeginIs, WriteIs
  <2>3. QED
    BY <1>8, <1>13, <2>1, <2>2 DEF worker
<1>14. ASSUME NEW p \in Procs, Reap(p), dir' = dir, proc[p].pc \in {"idle", "exit"}, gz[p].st = "done", worker(p)
       PROVE  Clean'
  <2>1. ~mode.nocompress /\ proc[p].line = 0
    BY <1>3, <1>14 DEF IndInv, GzipFlow, Flow, FlowOf
  <2>2. gz'[p].st = "none" /\ proc'[p].pc = "stat" /\ proc'[p].line = 0
    BY <1>3, <1>14, <2>1, GotoIs DEF Reap, Labels, Archiving, Archive
  <2>3. x = 0
    BY <1>6, <1>14
  <2>4. Ok(proc'[p], gz'[p].st, x', z')
    BY <1>14, <2>1, <2>2, <2>3
  <2>5. QED
    BY <1>9, <1>14, <2>4
<1>15. ASSUME NEW p \in Procs, wait_pids(p)
       PROVE  Clean'
  <2>1. worker(p) /\ dir' = dir /\ proc[p].pc = "idle"
    BY <1>15 DEF worker, wait_pids, disk, At
  <2>2. CASE gz[p].st = "done"
    BY <1>14, <1>15, <2>1, <2>2 DEF wait_pids
  <2>3. CASE gz[p].st # "done"
    <3>1. gz' = gz /\ proc'[p].pc = "idle"
      BY <1>3, <1>15, <2>1, <2>3 DEF wait_pids, Log
    <3>2. QED
      BY <1>8, <2>1, <3>1
  <2>4. QED
    BY <2>2, <2>3
<1>16. ASSUME NEW p \in Procs, tlog_close(p)
       PROVE  Clean'
  <2>1. worker(p) /\ proc[p].pc = "exit"
    BY <1>16 DEF worker, tlog_close, At
  <2>2. CASE gz[p].st = "done" /\ Reap(p) /\ dir' = dir
    BY <1>14, <2>1, <2>2
  <2>3. CASE dir' = Unlocked(p, dir) /\ proc' = [proc EXCEPT ![p] = Closed] /\ gz' = gz
    <3>1. proc'[p].pc = "off" /\ x' = x /\ z' = z
      BY <1>3, <2>3, LeaveDir DEF Closed
    <3>2. QED
      BY <1>8, <2>1, <2>3, <3>1
  <2>4. QED
    BY <1>16, <2>2, <2>3 DEF tlog_close
<1>17. ASSUME NEW p \in Procs, tlog_init(p) \/ tlog_exit(p)
       PROVE  Clean'
  <2>1. gz' = gz /\ dir' = dir /\ proc[p].pc \in {"off", "idle"}
    BY <1>17 DEF tlog_init, tlog_exit, disk, At
  <2>2. proc'[p].pc \in {"idle", "exit"}
    BY <1>3, <1>17 DEF tlog_init, tlog_exit, Opened, Closed, Log
  <2>3. QED
    BY <1>8, <1>17, <2>1, <2>2
<1>18. ASSUME NEW p \in Procs, crash(p)
       PROVE  FALSE
  BY <1>1, <1>2, <1>18 DEF crash
<1>19. ASSUME NEW g \in Gzips, gzip(g) \/ gzip_fail(g)
       PROVE  Clean'
  <2>1. gz[g] # NoGzip /\ proc' = proc /\ gzip(g)
    BY <1>2, <1>19 DEF gzip, gzip_open, gzip_copy, gzip_unlink, gzip_fail, NoGzip
  <2>2. g \in Procs
    BY <1>2, <2>1, NoOrphan
  <2>3. proc[g].pc # "off" /\ proc[g].pc \notin Archiving
    BY <2>1, <2>2 DEF IndInv, Flow, FlowOf
  <2>4. \A q \in Procs : q # g => proc[q].pc = "off" /\ gz[q] = NoGzip
    BY <1>2, <2>2, <2>3, Others DEF At
  <2>5. \A q \in Procs : q # g => gz'[q] = gz[q]
    BY <1>3, <2>1 DEF gzip, gzip_open, gzip_copy, gzip_unlink
  <2>6. ~H(proc'[g]) /\ ~R(proc'[g]) /\ ~H(proc[g]) /\ ~R(proc[g])
    BY <2>1, <2>3 DEF Archiving, Archive
  <2>7. Ok(proc[g], gz[g].st, x, z)
    BY <1>4, <2>2, <2>4
  <2>8. ASSUME gz'[g].st \in {"copy", "unlink", "done"}, gz'[g].st = "done" => x' = 0
        PROVE  Clean'
    <3>1. Ok(proc'[g], gz'[g].st, x', z')
      BY <2>6, <2>8
    <3> HIDE DEF Ok, x, z
    <3>2. QED
      BY <1>5, <2>1, <2>2, <2>4, <2>5, <3>1
  <2>9. CASE gzip_open(g)
    <3>1. x # 0 /\ z = 0
      BY <2>7, <2>9 DEF gzip_open
    <3>2. gz' = [gz EXCEPT ![g] = [st |-> "copy", in |-> dir["pending"], out |-> Len(files) + 1]]
      BY <2>9, <3>1 DEF gzip_open
    <3>3. gz'[g].st = "copy"
      BY <1>3, <3>2
    <3>4. QED
      BY <2>8, <3>3
  <2>10. CASE gzip_copy(g)
    <3>1. gz'[g].st = "unlink"
      BY <1>3, <2>10 DEF gzip_copy, Gzip
    <3>2. QED
      BY <2>8, <3>1
  <2>11. CASE gzip_unlink(g)
    <3>1. gz'[g].st = "done" /\ x' = 0
      BY <1>3, <2>2, <2>11 DEF gzip_unlink, Ended, NoGzip
    <3>2. QED
      BY <2>8, <3>1
  <2>12. QED
    BY <2>1, <2>9, <2>10, <2>11 DEF gzip
<1>20. CASE tick \/ UNCHANGED vars
  <2>1. gz' = gz /\ dir' = dir
    BY <1>20 DEF tick, vars, disk
  <2>2. \A p \in Procs : proc'[p].pc = proc[p].pc /\ proc'[p].line = proc[p].line
    BY <1>20, TimePasses
  <2>3. QED
    BY <1>2, <2>1, <2>2 DEF Clean, Busy, Holder, Reaping, At
<1>21. QED
  BY <1>10, <1>11, <1>12, <1>13, <1>15, <1>16, <1>17, <1>18, <1>19, <1>20
  DEF Next, worker, archive_step, Inside

(* The lock file belongs to the process that has opened or locked it.      *)
LEMMA LockedStep ==
  ASSUME IndInv, Alone, Locked, [Next]_vars
  PROVE  Locked'
<1> DEFINE held(s) == IF s.pc = "lockf" THEN s.lockfd ELSE s.fd_lock
<1>1. SUFFICES ASSUME alone', crashes' = 0 PROVE Locked'
  BY DEF Locked
<1>2. /\ alone /\ crashes = 0
      /\ dir["lock"] # 0 => \E p \in Procs : dir["lock"] = held(proc[p])
      /\ \A p \in Procs : proc[p].pc = "lockf" => proc[p].lockfd # 0
      /\ \A p \in Procs : proc[p].pc = "off" => proc[p].fd_lock = 0
  BY <1>1, HistoryStays DEF Locked, At
<1>3. /\ dir \in [Fixed -> Ino] /\ proc \in [Procs -> Log] /\ Len(files) \in Nat /\ dir["lock"] \in 0 .. Len(files)
      /\ "log" \in Fixed /\ "pending" \in Fixed /\ "pending.gz" \in Fixed /\ "lock" \in Fixed
      /\ Closed.pc = "off" /\ Closed.fd_lock = 0 /\ Opened.pc = "idle" /\ Opened.fd_lock = 0
  BY NamesLead DEF IndInv, DiskType, ProcType, Closed, Opened
<1>4. ASSUME NEW p \in Procs, worker(p) \/ write_begin(p) \/ tlog_init(p) \/ tlog_exit(p) \/ crash(p)
      PROVE  /\ \A q \in Procs : q # p => proc[q].pc = "off" /\ proc[q].fd_lock = 0 /\ proc'[q] = proc[q]
             /\ dir["lock"] # 0 => dir["lock"] = held(proc[p])
  <2>1. \A q \in Procs : q # p => proc[q].pc = "off"
    <3>1. CASE tlog_init(p)
      BY <1>1, <3>1 DEF tlog_init, At
    <3>2. CASE ~tlog_init(p)
      BY <1>2, <1>4, <3>2, Others, MoverIsOn DEF At
    <3>3. QED
      BY <3>1, <3>2
  <2>2. \A q \in Procs : q # p => proc'[q] = proc[q]
    BY <1>4, OwnStep
  <2>3. QED
    BY <1>2, <2>1, <2>2
<1>5. ASSUME NEW p \in Procs, worker(p) \/ write_begin(p) \/ tlog_init(p) \/ tlog_exit(p) \/ crash(p),
             dir'["lock"] # 0 => dir'["lock"] = held(proc'[p]),
             proc'[p].pc = "lockf" => proc'[p].lockfd # 0,
             proc'[p].pc = "off" => proc'[p].fd_lock = 0
      PROVE  Locked'
  <2>1. (\A q \in Procs : At(q, "lockf") => proc[q].lockfd # 0)' /\ (\A q \in Procs : At(q, "off") => proc[q].fd_lock = 0)'
    BY <1>2, <1>4, <1>5 DEF At
  <2>2. (dir["lock"] # 0 => \E q \in Procs : dir["lock"] = IF At(q, "lockf") THEN proc[q].lockfd ELSE proc[q].fd_lock)'
    BY <1>5 DEF At
  <2>3. QED
    BY <2>1, <2>2 DEF Locked
<1>6. ASSUME NEW p \in Procs, worker(p) \/ write_begin(p) \/ tlog_init(p) \/ tlog_exit(p) \/ crash(p),
             dir'["lock"] = dir["lock"], proc[p].pc # "lockf", proc'[p].pc # "lockf",
             proc'[p].pc # "off", proc'[p].fd_lock = proc[p].fd_lock
      PROVE  Locked'
  BY <1>4, <1>5, <1>6
<1>7. ASSUME NEW p \in Procs, worker(p) \/ write_begin(p) \/ tlog_init(p) \/ tlog_exit(p) \/ crash(p),
             dir' = Unlocked(p, dir), proc[p].pc # "lockf", proc'[p].pc # "lockf", proc'[p].fd_lock = 0
      PROVE  Locked'
  <2>1. dir'["lock"] = 0
    BY <1>3, <1>4, <1>7 DEF Unlocked
  <2>2. QED
    BY <1>5, <1>7, <2>1
<1>8. ASSUME NEW p \in Procs, worker(p), dir' = dir, Goto(p, FirstStep) \/ Goto(p, "open") \/ Goto(p, "stat"), proc[p].pc # "lockf"
      PROVE  Locked'
  <2>1. \E to \in {"pend", "gz", "open", "stat"} : Goto(p, to)
    BY <1>8 DEF FirstStep
  <2>2. proc'[p].pc \in {"pend", "gz", "open", "stat"} /\ proc'[p].fd_lock = proc[p].fd_lock
    BY <2>1, GotoIs DEF Labels, Logging, Archiving, Archive
  <2>3. QED
    BY <1>6, <1>8, <2>2
<1>9. ASSUME NEW p \in Procs, log_lock(p)
      PROVE  Locked'
  <2>1. worker(p) /\ proc[p].pc = "lock"
    BY <1>9 DEF worker, archive_step, log_lock, At
  <2>2. CASE dir' = dir /\ (Goto(p, FirstStep) \/ Goto(p, "open"))
    BY <1>8, <2>1, <2>2
  <2>3. ASSUME NEW f, f # 0, dir' = [dir EXCEPT !["lock"] = f], proc' = [proc EXCEPT ![p].pc = "lockf", ![p].lockfd = f]
        PROVE  Locked'
    <3>1. dir'["lock"] = f /\ proc'[p].pc = "lockf" /\ proc'[p].lockfd = f
      BY <1>3, <2>3 DEF Log
    <3>2. QED
      BY <1>5, <2>1, <2>3, <3>1
  <2>4. (IF dir["lock"] = 0 THEN Len(files) + 1 ELSE dir["lock"]) # 0
    BY <1>3
  <2>5. QED
    BY <1>9, <2>2, <2>3, <2>4 DEF log_lock
<1>10. ASSUME NEW p \in Procs, log_lockf(p)
       PROVE  Locked'
  <2>1. worker(p) /\ proc[p].pc = "lockf" /\ dir' = dir /\ proc[p].lockfd # 0
    BY <1>2, <1>10 DEF worker, archive_step, log_lockf, At, disk
  <2>2. ~\E q \in Procs \ {p} : proc[q].fd_lock = proc[p].lockfd
    BY <1>4, <2>1
  <2>3. proc' = [proc EXCEPT ![p] = [proc[p] EXCEPT !.lockfd = 0, !.fd_lock = proc[p].lockfd,
                                                    !.pc = FirstStep]]
    BY <1>10, <2>2 DEF log_lockf
  <2>4. proc'[p].fd_lock = proc[p].lockfd /\ proc'[p].pc \in {"pend", "gz"}
    BY <1>3, <2>3 DEF Log, FirstStep
  <2>5. QED
    BY <1>4, <1>5, <2>1, <2>4
<1>11. ASSUME NEW p \in Procs, Inside(p)
       PROVE  Locked'
  <2>1. worker(p) /\ proc[p].pc # "lockf"
    BY <1>11, InsideIs, StepIs DEF Inside, Archive
  <2>2. CASE Leave(p)
    <3>1. dir' = Unlocked(p, dir)
      BY <2>2 DEF Leave
    <3>2. proc'[p].pc \in {"open", "exit", "idle"} /\ proc'[p].fd_lock = 0
      BY <2>2, LeaveIs
    <3>3. QED
      BY <1>7, <2>1, <3>1, <3>2
  <2>3. CASE ~Leave(p)
    <3>1. proc'[p].pc \in Archive \cup {"open"} /\ proc'[p].fd_lock = proc[p].fd_lock
      BY <1>11, <2>3, StepIs DEF Inside, Archive
    <3>2. dir'["lock"] = dir["lock"]
      BY <1>3, <1>11, <2>3, InsideIs DEF Renamed, Target
    <3>3. QED
      BY <1>6, <2>1, <3>1, <3>2 DEF Archive
  <2>4. QED
    BY <2>2, <2>3
<1>13. ASSUME NEW p \in Procs, write_open(p)
       PROVE  Locked'
  <2>1. worker(p) /\ proc[p].pc = "open"
    BY <1>13 DEF worker, write_open, At
  <2>2. proc'[p].pc \in {"idle", "write"} /\ proc'[p].fd_lock = proc[p].fd_lock
    BY <1>13, OpenIs
  <2>3. dir'["lock"] = dir["lock"]
    BY <1>3, <1>13, OpenIs DEF disk
  <2>4. QED
    BY <1>6, <2>1, <2>2, <2>3
<1>14. ASSUME NEW p \in Procs, write_begin(p) \/ write_line(p)
       PROVE  Locked'
  <2>1. dir' = dir
    BY <1>14 DEF write_begin, write_line
  <2>2. /\ proc[p].pc \in {"idle", "write"} /\ proc'[p].pc \in {"lock", "open", "write", "idle"}
        /\ proc'[p].fd_lock = proc[p].fd_lock
    BY <1>14, BeginIs, WriteIs
  <2>3. QED
    BY <1>6, <1>14, <2>1, <2>2 DEF worker
<1>16. ASSUME NEW p \in Procs, wait_pids(p)
       PROVE  Locked'
  <2>1. worker(p) /\ proc[p].pc = "idle"
    BY <1>16 DEF worker, wait_pids, At
  <2>2. CASE dir' = dir /\ proc' = [proc EXCEPT ![p].waited = TRUE]
    <3>1. proc'[p].pc = "idle" /\ proc'[p].fd_lock = proc[p].fd_lock
      BY <1>3, <2>1, <2>2 DEF Log
    <3>2. QED
      BY <1>6, <2>1, <2>2, <3>1
  <2>3. QED
    BY <1>8, <1>16, <2>1, <2>2 DEF wait_pids, Reap, disk
<1>17. ASSUME NEW p \in Procs, tlog_close(p)
       PROVE  Locked'
  <2>1. worker(p) /\ proc[p].pc = "exit"
    BY <1>17 DEF worker, tlog_close, At
  <2>2. CASE dir' = Unlocked(p, dir) /\ proc' = [proc EXCEPT ![p] = Closed]
    <3>1. proc'[p] = Closed
      BY <1>3, <2>2
    <3>2. QED
      BY <1>3, <1>7, <2>1, <2>2, <3>1
  <2>3. QED
    BY <1>8, <1>17, <2>1, <2>2 DEF tlog_close, Reap
<1>18. ASSUME NEW p \in Procs, tlog_init(p) \/ tlog_exit(p)
       PROVE  Locked'
  <2>1. dir' = dir
    BY <1>18 DEF tlog_init, tlog_exit, disk
  <2>2. CASE tlog_init(p)
    <3>1. proc'[p] = Opened /\ proc[p].pc = "off" /\ proc[p].fd_lock = 0
      BY <1>2, <1>3, <2>2 DEF tlog_init, At
    <3>2. QED
      BY <1>3, <1>6, <2>1, <2>2, <3>1
  <2>3. CASE tlog_exit(p)
    <3>1. proc'[p].pc = "exit" /\ proc[p].pc = "idle" /\ proc'[p].fd_lock = proc[p].fd_lock
      BY <1>3, <2>3 DEF tlog_exit, At, Log
    <3>2. QED
      BY <1>6, <2>1, <2>3, <3>1
  <2>4. QED
    BY <1>18, <2>2, <2>3
<1>19. ASSUME NEW p \in Procs, crash(p)
       PROVE  FALSE
  BY <1>1, <1>2, <1>19 DEF crash
<1>20. ASSUME dir'["lock"] = dir["lock"],
              \A p \in Procs : /\ proc'[p].pc = proc[p].pc /\ proc'[p].lockfd = proc[p].lockfd
                               /\ proc'[p].fd_lock = proc[p].fd_lock
       PROVE  Locked'
  BY <1>2, <1>20 DEF Locked, At
<1>21. ASSUME NEW g \in Gzips, gzip(g) \/ gzip_fail(g)
       PROVE  dir'["lock"] = dir["lock"] /\ proc' = proc
  BY <1>3, <1>21 DEF gzip, gzip_open, gzip_copy, gzip_unlink, gzip_fail
<1>22. CASE tick \/ UNCHANGED vars
  <2>1. dir' = dir
    BY <1>22 DEF tick, vars, disk
  <2>2. QED
    BY <1>20, <1>22, <2>1, TimePasses
<1>23. QED
  BY <1>9, <1>10, <1>11, <1>13, <1>14, <1>16, <1>17, <1>18, <1>19, <1>20, <1>21, <1>22
  DEF Next, worker, archive_step, Inside

-----------------------------------------------------------------------------
(* Every line in one place.                                                *)

(* A process gets a line in write_begin, and has none when it is off.      *)
LEMMA LineIs ==
  ASSUME IndInv, [Next]_vars, NEW q \in Procs
  PROVE  /\ \/ write_begin(q) /\ proc'[q].line = lines + 1 /\ proc'[q].pc # "off"
            \/ proc'[q].line = 0
            \/ proc'[q].line = proc[q].line /\ (proc[q].pc # "off" => proc'[q].pc # "off")
         /\ lines' = lines \/ (lines' = lines + 1 /\ \E p \in Procs : write_begin(p))
<1>1. proc \in [Procs -> Log] /\ Closed.line = 0 /\ Opened.line = 0
  BY DEF IndInv, ProcType, Closed, Opened
<1> DEFINE Kept(p) == proc'[p].line = proc[p].line /\ (proc[p].pc # "off" => proc'[p].pc # "off")
<1>2. ASSUME NEW p \in Procs, NEW to \in Labels, to # "off", Goto(p, to)
      PROVE  Kept(p)
  BY <1>2, GotoIs
<1>3. ASSUME NEW p \in Procs, log_lock(p) \/ log_lockf(p)
      PROVE  Kept(p)
  <2>1. CASE log_lock(p)
    <3>1. \/ \E to \in {"pend", "gz", "open"} : Goto(p, to)
          \/ \E f : proc' = [proc EXCEPT ![p].pc = "lockf", ![p].lockfd = f]
      BY <2>1 DEF log_lock, FirstStep
    <3>2. QED
      BY <1>1, <1>2, <3>1 DEF Log, Labels, Logging
  <2>2. CASE log_lockf(p)
    <3>1. \E k : \/ proc' = [proc EXCEPT ![p] = [proc[p] EXCEPT !.lockfd = 0, !.pc = "open"]]
                \/ proc' = [proc EXCEPT ![p] = [proc[p] EXCEPT !.lockfd = 0, !.fd_lock = k, !.pc = FirstStep]]
      BY <2>2 DEF log_lockf
    <3>2. CASE proc' = [proc EXCEPT ![p] = [proc[p] EXCEPT !.lockfd = 0, !.pc = "open"]]
      BY <1>1, <3>2 DEF Log
    <3>3. ASSUME NEW k, NEW to \in {"pend", "gz"},
                 proc' = [proc EXCEPT ![p] = [proc[p] EXCEPT !.lockfd = 0, !.fd_lock = k, !.pc = to]]
          PROVE  Kept(p)
      BY <1>1, <3>3 DEF Log
    <3>4. QED
      BY <3>1, <3>2, <3>3 DEF FirstStep
  <2>3. QED
    BY <1>3, <2>1, <2>2
<1>4. ASSUME NEW p \in Procs, Inside(p)
      PROVE  Kept(p)
  BY <1>4, StepIs DEF Inside, Archive
<1>5. ASSUME NEW p \in Procs, write_open(p)
      PROVE  proc'[p].line = 0 \/ Kept(p)
  BY <1>5, OpenIs
<1>6. ASSUME NEW p \in Procs, write_line(p)
      PROVE  proc'[p].line = 0
  BY <1>6, WriteIs
<1>7. ASSUME NEW p \in Procs, wait_pids(p)
      PROVE  Kept(p)
  BY <1>1, <1>2, <1>7 DEF wait_pids, Reap, Log, Labels, Archiving, Archive
<1>8. ASSUME NEW p \in Procs, tlog_close(p)
      PROVE  proc'[p].line = 0 \/ Kept(p)
  BY <1>1, <1>2, <1>8 DEF tlog_close, Reap, Labels, Archiving, Archive
<1>9. ASSUME NEW p \in Procs, tlog_init(p) \/ crash(p)
      PROVE  proc'[p].line = 0
  BY <1>1, <1>9 DEF tlog_init, crash
<1>10. ASSUME NEW p \in Procs, tlog_exit(p)
       PROVE  Kept(p)
  BY <1>1, <1>10 DEF tlog_exit, Log
<1>11. ASSUME NEW p \in Procs, write_begin(p)
       PROVE  proc'[p].line = lines + 1 /\ proc'[p].pc # "off"
  BY <1>11, BeginIs
<1>12. ASSUME NEW p \in Procs, worker(p) \/ write_begin(p) \/ tlog_init(p) \/ tlog_exit(p) \/ crash(p)
       PROVE  \/ write_begin(p) /\ proc'[p].line = lines + 1 /\ proc'[p].pc # "off"
              \/ proc'[p].line = 0
              \/ Kept(p)
  <2> HIDE DEF Kept
  <2>1. QED
    BY <1>3, <1>4, <1>5, <1>6, <1>7, <1>8, <1>9, <1>10, <1>11, <1>12 DEF worker, archive_step, Inside
<1>13. ASSUME NEW p \in Procs, worker(p) \/ write_begin(p) \/ tlog_init(p) \/ tlog_exit(p) \/ crash(p), p # q
       PROVE  Kept(q)
  BY <1>13, OwnStep
<1>14. ASSUME tick \/ UNCHANGED vars \/ \E g \in Gzips : gzip(g) \/ gzip_fail(g)
       PROVE  Kept(q)
  BY <1>14, TimePasses DEF gzip, gzip_open, gzip_copy, gzip_unlink, gzip_fail
<1>15. \/ write_begin(q) /\ proc'[q].line = lines + 1 /\ proc'[q].pc # "off"
       \/ proc'[q].line = 0
       \/ Kept(q)
  <2> HIDE DEF Kept
  <2>1. QED
    BY <1>12, <1>13, <1>14 DEF Next
<1>16. lines' = lines \/ (lines' = lines + 1 /\ \E p \in Procs : write_begin(p))
  <2>1. ASSUME NEW p \in Procs, worker(p) \/ tlog_init(p) \/ tlog_exit(p) \/ crash(p)
        PROVE  lines' = lines
    BY <2>1 DEF worker, archive_step, log_lock, log_lockf, archive_leftover, archive_pending, archive_log,
                archive_gzip, getmtime, archive_name, rename_logfile, remove_oldlog, write_open, write_line, wait_pids, tlog_close, tlog_init, tlog_exit, crash
  <2>2. ASSUME NEW p \in Procs, write_begin(p)
        PROVE  lines' = lines + 1
    BY <2>2 DEF write_begin
  <2>3. ASSUME tick \/ UNCHANGED vars \/ \E g \in Gzips : gzip(g) \/ gzip_fail(g)
        PROVE  lines' = lines
    BY <2>3 DEF tick, vars, gzip, gzip_open, gzip_copy, gzip_unlink, gzip_fail
  <2>4. QED
    BY <2>1, <2>2, <2>3 DEF Next
<1>17. QED
  BY <1>15, <1>16

(* A line that was not begun is in no file.                                *)
LEMMA FreshStep ==
  ASSUME IndInv, Fresh, [Next]_vars
  PROVE  Fresh'
<1>1. lines \in Nat /\ files \in Seq(File) /\ Len(files) \in Nat
  BY Setup DEF IndInv, CountType, DiskType
<1>2. /\ \A f \in 1 .. Len(files) : files[f].lines \ Procs \subseteq 1 .. lines
      /\ \A p \in Procs : proc[p].line # 0 => proc[p].line <= lines
  BY DEF Fresh, LinesIn
<1>3. lines' \in Nat /\ lines <= lines' /\ (\A q \in Procs : write_begin(q) => lines' = lines + 1)
  <2>1. \A q \in Procs : write_begin(q) => lines' = lines + 1
    BY DEF write_begin
  <2>2. CASE Procs = {}
    <3>1. lines' = lines
      BY <2>2 DEF Next, tick, vars, gzip, gzip_open, gzip_copy, gzip_unlink, gzip_fail
    <3>2. QED
      BY <1>1, <2>1, <3>1
  <2>3. CASE Procs # {}
    BY <1>1, <2>1, <2>3, LineIs
  <2>4. QED
    BY <2>2, <2>3
<1>4. ASSUME NEW q \in Procs, proc'[q].line # 0
      PROVE  proc'[q].line <= lines'
  <2>1. proc[q].line \in Nat
    BY Setup DEF IndInv, ProcType, Log
  <2>2. \/ write_begin(q) /\ proc'[q].line = lines + 1
        \/ proc'[q].line = proc[q].line
    BY <1>4, LineIs
  <2>3. QED
    BY <1>1, <1>2, <1>3, <1>4, <2>1, <2>2
<1>5. \A f \in 1 .. Len(files) : files[f].lines \ Procs \subseteq 1 .. lines'
  BY <1>1, <1>2, <1>3
<1>6. \A f \in 1 .. Len(files') : files'[f].lines \ Procs \subseteq 1 .. lines'
  <2>1. CASE files' = files
    BY <1>5, <2>1
  <2>2. CASE files' = Append(files, NewFile)
    <3>1. NewFile.lines = {}
      BY DEF NewFile
    <3>2. \A f \in 1 .. Len(files') : files'[f] = IF f = Len(files) + 1 THEN NewFile ELSE files[f]
      BY <1>1, <2>2
    <3>3. \A f \in 1 .. Len(files') : f # Len(files) + 1 => f \in 1 .. Len(files)
      BY <1>1, <2>2
    <3>4. QED
      BY <1>5, <3>1, <3>2, <3>3
  <2>3. ASSUME NEW f \in 1 .. Len(files), NEW r, r.lines \ Procs \subseteq 1 .. lines', files' = [files EXCEPT ![f] = r]
        PROVE  \A h \in 1 .. Len(files') : files'[h].lines \ Procs \subseteq 1 .. lines'
    <3>1. Len(files') = Len(files) /\ \A h \in 1 .. Len(files) : files'[h] = IF h = f THEN r ELSE files[h]
      BY <1>1, <2>3
    <3>2. QED
      BY <1>5, <2>3, <3>1
  <2>4. ASSUME NEW p \in Procs, NEW x \in {p, proc[p].line}, write_begin(p) \/ write_line(p), x \in Lines \cup Procs,
               proc[p].fd \in 1 .. Len(files)
        PROVE  [lines |-> files[proc[p].fd].lines \cup {x}, mtime |-> now].lines \ Procs \subseteq 1 .. lines'
    <3>1. x \in Procs \/ x \in 1 .. lines'
      <4>1. SUFFICES ASSUME x \notin Procs PROVE x \in 1 .. lines'
        OBVIOUS
      <4>2. x = proc[p].line /\ x \in Lines /\ mode.lines \in Nat
        BY <2>4, <4>1, Setup DEF IndInv
      <4>3. x \in 1 .. mode.lines /\ x # 0
        BY <4>2 DEF Lines
      <4>4. x <= lines
        BY <1>2, <4>2, <4>3
      <4>5. x \in Nat /\ lines \in Nat /\ lines' \in Nat /\ lines <= lines'
        BY <1>1, <1>3, <4>2, <4>3
      <4>6. QED
        BY <4>3, <4>4, <4>5
    <3>2. QED
      BY <1>5, <2>4, <3>1
  <2>5. ASSUME NEW g \in Gzips, gz[g].in \in 1 .. Len(files)
        PROVE  files[gz[g].in].lines \ Procs \subseteq 1 .. lines'
    BY <1>5, <2>5
  <2>6. ASSUME NEW p \in Procs, NEW x \in Lines \cup Procs, write_begin(p) \/ write_line(p), x \in {p, proc[p].line},
               proc[p].fd \in 1 .. Len(files),
               files' = [files EXCEPT ![proc[p].fd] = [lines |-> files[proc[p].fd].lines \cup {x}, mtime |-> now]]
        PROVE  \A h \in 1 .. Len(files') : files'[h].lines \ Procs \subseteq 1 .. lines'
    <3> DEFINE r == [lines |-> files[proc[p].fd].lines \cup {x}, mtime |-> now]
    <3>1. r.lines \ Procs \subseteq 1 .. lines'
      BY <2>4, <2>6
    <3>2. files' = [files EXCEPT ![proc[p].fd] = r]
      BY <2>6
    <3> HIDE DEF r
    <3>3. QED
      BY <2>3, <2>6, <3>1, <3>2
  <2>7. ASSUME NEW g \in Gzips, gz[g].in \in 1 .. Len(files), gz[g].out \in 1 .. Len(files),
               files' = [files EXCEPT ![gz[g].out] = files[gz[g].in]]
        PROVE  \A h \in 1 .. Len(files') : files'[h].lines \ Procs \subseteq 1 .. lines'
    BY <2>3, <2>5, <2>7
  <2>8. QED
    BY <2>1, <2>2, <2>6, <2>7, FilesAre
<1>7. QED
  BY <1>4, <1>6 DEF Fresh, LinesIn

(* A line that is begun is in no file until it is written.                 *)
LEMMA UnwrittenStep ==
  ASSUME IndInv, Alone, Fresh, Unwritten, [Next]_vars
  PROVE  Unwritten'
<1>1. SUFFICES ASSUME alone', NEW q \in Procs, proc'[q].line # 0
               PROVE  proc'[q].pc # "off" /\ \A f \in 1 .. Len(files') : proc'[q].line \notin files'[f].lines \ Procs
  BY DEF Unwritten, At, LinesIn
<1>2. alone /\ lines \in Nat /\ files \in Seq(File) /\ Len(files) \in Nat
  <2>1. alone
    BY <1>1, HistoryStays
  <2>2. mode.lines \in Nat
    BY Setup DEF IndInv
  <2>3. lines \in 0 .. mode.lines
    BY DEF IndInv, CountType
  <2>4. files \in Seq(File)
    BY DEF IndInv, DiskType
  <2>5. QED
    BY <2>1, <2>2, <2>3, <2>4
<1>3. \/ write_begin(q) /\ proc'[q].line = lines + 1 /\ proc'[q].pc # "off"
      \/ proc'[q].line = proc[q].line /\ (proc[q].pc # "off" => proc'[q].pc # "off")
  BY <1>1, LineIs
<1>4. proc'[q].line = proc[q].line => proc[q].pc # "off"
  BY <1>1, <1>2 DEF Unwritten, At
<1>5. \A f \in 1 .. Len(files) : proc'[q].line \notin files[f].lines \ Procs
  <2>1. CASE proc'[q].line = lines + 1
    BY <1>2, <2>1 DEF Fresh, LinesIn
  <2>2. CASE proc'[q].line = proc[q].line
    <3>1. \A f \in 1 .. Len(files) : proc[q].line \notin LinesIn(f)
      BY <1>1, <1>2, <2>2 DEF Unwritten
    <3>2. \A f \in 1 .. Len(files) : LinesIn(f) = files[f].lines \ Procs
      BY <1>2 DEF LinesIn
    <3>3. QED
      BY <2>2, <3>1, <3>2
  <2>3. QED
    BY <1>3, <2>1, <2>2
<1>6. \A f \in 1 .. Len(files') : proc'[q].line \notin files'[f].lines \ Procs
  <2>1. CASE files' = files
    BY <1>5, <2>1
  <2>2. CASE files' = Append(files, NewFile)
    <3>1. NewFile.lines = {}
      BY DEF NewFile
    <3>2. \A f \in 1 .. Len(files') : files'[f] = IF f = Len(files) + 1 THEN NewFile ELSE files[f]
      BY <1>2, <2>2
    <3>3. \A f \in 1 .. Len(files') : f # Len(files) + 1 => f \in 1 .. Len(files)
      BY <1>2, <2>2
    <3>4. QED
      BY <1>5, <3>1, <3>2, <3>3
  <2>3. ASSUME NEW f \in 1 .. Len(files), NEW r, proc'[q].line \notin r.lines \ Procs, files' = [files EXCEPT ![f] = r]
        PROVE  \A h \in 1 .. Len(files') : proc'[q].line \notin files'[h].lines \ Procs
    <3>1. Len(files') = Len(files) /\ \A h \in 1 .. Len(files) : files'[h] = IF h = f THEN r ELSE files[h]
      BY <1>2, <2>3
    <3>2. QED
      BY <1>5, <2>3, <3>1
  <2>4. ASSUME NEW p \in Procs, NEW x \in {p, proc[p].line}, write_begin(p) \/ write_line(p),
               proc[p].fd \in 1 .. Len(files)
        PROVE  \/ files' = files
               \/ proc'[q].line \notin [lines |-> files[proc[p].fd].lines \cup {x}, mtime |-> now].lines \ Procs
    <3>1. CASE x \in Procs
      BY <1>5, <2>4, <3>1
    <3>2. CASE write_line(p)
      <4>1. q = p => proc'[q].line = 0
        BY <3>2, WriteIs
      <4>2. p # q => proc'[q] = proc[q] /\ proc[q].pc = "off"
        BY <1>2, <3>2, OwnStep, Others, MoverIsOn DEF worker, At
      <4>3. QED
        BY <1>1, <1>4, <4>1, <4>2
    <3>3. CASE write_begin(p) /\ x \notin Procs
      <4>1. x = proc[p].line
        BY <2>4, <3>3
      <4>2. proc[p].line # proc'[q].line
        <5>1. CASE proc'[q].line = lines + 1
          <6>1. proc[p].line # 0 => proc[p].line <= lines
            BY DEF Fresh
          <6>2. proc[p].line \in Nat
            BY Setup DEF IndInv, ProcType, Log
          <6>3. QED
            BY <1>2, <5>1, <6>1, <6>2
        <5>2. CASE proc'[q].line # lines + 1
          <6>1. p # q
            BY <3>3, <5>2, BeginIs
          <6>2. proc'[q] = proc[q] /\ proc[q].pc = "off"
            BY <1>2, <3>3, <6>1, OwnStep, Others, MoverIsOn DEF At
          <6>3. QED
            BY <1>4, <6>2
        <5>3. QED
          BY <5>1, <5>2
      <4>3. QED
        BY <1>5, <2>4, <4>1, <4>2
    <3>4. QED
      BY <2>4, <3>1, <3>2, <3>3
  <2>5. ASSUME NEW g \in Gzips, gz[g].in \in 1 .. Len(files)
        PROVE  proc'[q].line \notin files[gz[g].in].lines \ Procs
    BY <1>5, <2>5
  <2>6. QED
    BY <2>1, <2>2, <2>3, <2>4, <2>5, FilesAre
<1>7. QED
  BY <1>3, <1>4, <1>6

-----------------------------------------------------------------------------
(* A line is in one place.                                                 *)

(* Files that are as they were are apart as they were.                     *)
LEMMA ApartFrame ==
  ASSUME NEW fs, NEW gs, NEW a, NEW z, NEW p, NEW l, NEW n \in Nat,
         z \in 0 .. n, p \in 0 .. n, l \in 0 .. n, \A m \in DOMAIN a : a[m] \in 1 .. n,
         \A f \in 1 .. n : gs[f] = fs[f],
         Apart(fs, a, z, p, l)
  PROVE  Apart(gs, a, z, p, l)
<1>1. \A f \in 1 .. n : LinesOf(gs, f) = LinesOf(fs, f)
  BY DEF LinesOf
<1>2. \A m, j \in DOMAIN a : m # j => LinesOf(gs, a[m]) \cap LinesOf(gs, a[j]) = {}
  BY <1>1 DEF Apart
<1>3. ASSUME NEW m \in DOMAIN a, NEW f \in {z, p, l}, f # 0
      PROVE  f # a[m] /\ LinesOf(gs, a[m]) \cap LinesOf(gs, f) = {}
  BY <1>1, <1>3 DEF Apart
<1>4. ASSUME NEW f \in {z, p}, f # 0, l # 0
      PROVE  LinesOf(gs, l) \cap LinesOf(gs, f) = {}
  BY <1>1, <1>4 DEF Apart
<1>5. QED
  BY <1>2, <1>3, <1>4 DEF Apart

(* A name may lead nowhere or to a file without lines instead.             *)
LEMMA ApartDrop ==
  ASSUME NEW fs, NEW a, NEW z, NEW p, NEW l, NEW y, NEW q, NEW k,
         Apart(fs, a, z, p, l),
         y = z \/ y = 0 \/ (LinesOf(fs, y) = {} /\ \A m \in DOMAIN a : a[m] # y),
         q = p \/ q = 0,
         k = l \/ k = 0 \/ (LinesOf(fs, k) = {} /\ \A m \in DOMAIN a : a[m] # k)
  PROVE  Apart(fs, a, y, q, k)
<1>1. \A m, j \in DOMAIN a : m # j => LinesOf(fs, a[m]) \cap LinesOf(fs, a[j]) = {}
  BY DEF Apart
<1>2. ASSUME NEW m \in DOMAIN a, NEW f \in {y, q, k}, f # 0
      PROVE  f # a[m] /\ LinesOf(fs, a[m]) \cap LinesOf(fs, f) = {}
  BY <1>2 DEF Apart
<1>3. ASSUME NEW f \in {y, q}, f # 0, k # 0
      PROVE  LinesOf(fs, k) \cap LinesOf(fs, f) = {}
  BY <1>3 DEF Apart
<1>4. QED
  BY <1>1, <1>2, <1>3 DEF Apart

(* .pending.gz becomes an archive when there is no .pending, .pending when *)
(* there is no .pending.gz.                                                *)
LEMMA ApartArchive ==
  ASSUME NEW fs, NEW a, NEW b, NEW z, NEW p, NEW l, NEW new, NEW f \in {z, p}, f # 0, f = z => p = 0, f = p => z = 0,
         l # 0 => l # f, new \notin DOMAIN a, Apart(fs, a, z, p, l),
         b = [m \in DOMAIN a \cup {new} |-> IF m = new THEN f ELSE a[m]]
  PROVE  Apart(fs, b, 0, 0, l)
<1>1. DOMAIN b = DOMAIN a \cup {new} /\ b[new] = f /\ \A m \in DOMAIN a : b[m] = a[m]
  OBVIOUS
<1>2. \A m \in DOMAIN a : LinesOf(fs, a[m]) \cap LinesOf(fs, f) = {}
  BY DEF Apart
<1>3. \A m \in DOMAIN a : l # 0 => l # a[m] /\ LinesOf(fs, a[m]) \cap LinesOf(fs, l) = {}
  BY DEF Apart
<1>4. l # 0 => l # f /\ LinesOf(fs, f) \cap LinesOf(fs, l) = {}
  BY DEF Apart
<1>5. \A m, j \in DOMAIN a : m # j => LinesOf(fs, a[m]) \cap LinesOf(fs, a[j]) = {}
  BY DEF Apart
<1>6. \A m, j \in DOMAIN b : m # j => LinesOf(fs, b[m]) \cap LinesOf(fs, b[j]) = {}
  BY <1>1, <1>2, <1>5
<1>7. \A m \in DOMAIN b : l # 0 => l # b[m] /\ LinesOf(fs, b[m]) \cap LinesOf(fs, l) = {}
  BY <1>1, <1>3, <1>4
<1>8. QED
  BY <1>6, <1>7 DEF Apart

(* The log becomes .pending.                                               *)
LEMMA ApartPending ==
  ASSUME NEW fs, NEW a, NEW z, NEW l, Apart(fs, a, z, 0, l)
  PROVE  Apart(fs, a, z, l, 0)
BY DEF Apart

(* A line that is in no file is added to the log.                          *)
LEMMA ApartWrite ==
  ASSUME NEW fs, NEW gs, NEW a, NEW z, NEW p, NEW l, NEW n \in Nat, NEW x,
         z \in 0 .. n, p \in 0 .. n, l \in 1 .. n, \A m \in DOMAIN a : a[m] \in 1 .. n /\ a[m] # l,
         z # l, p # l,
         \A f \in 1 .. n : f # l => gs[f] = fs[f],
         gs[l].lines = fs[l].lines \cup {x},
         x \in Procs \/ \A f \in 1 .. n : x \notin LinesOf(fs, f),
         Apart(fs, a, z, p, l)
  PROVE  Apart(gs, a, z, p, l)
<1>1. \A f \in 1 .. n : f # l => LinesOf(gs, f) = LinesOf(fs, f)
  BY DEF LinesOf
<1>2. \A f \in 1 .. n : f # l => LinesOf(gs, f) \cap LinesOf(gs, l) = LinesOf(fs, f) \cap LinesOf(fs, l)
  BY DEF LinesOf
<1>3. \A m, j \in DOMAIN a : m # j => LinesOf(gs, a[m]) \cap LinesOf(gs, a[j]) = {}
  BY <1>1 DEF Apart
<1>4. ASSUME NEW m \in DOMAIN a, NEW f \in {z, p, l}, f # 0
      PROVE  f # a[m] /\ LinesOf(gs, a[m]) \cap LinesOf(gs, f) = {}
  BY <1>1, <1>2, <1>4 DEF Apart
<1>5. ASSUME NEW f \in {z, p}, f # 0, l # 0
      PROVE  LinesOf(gs, l) \cap LinesOf(gs, f) = {}
  BY <1>2, <1>5 DEF Apart
<1>6. QED
  BY <1>3, <1>4, <1>5 DEF Apart

(* gzip copies .pending to .pending.gz.                                    *)
LEMMA ApartCopy ==
  ASSUME NEW fs, NEW gs, NEW a, NEW z, NEW p, NEW l, NEW n \in Nat,
         z \in 1 .. n, p \in 1 .. n, l \in 0 .. n, \A m \in DOMAIN a : a[m] \in 1 .. n, l # z,
         \A f \in 1 .. n : f # z => gs[f] = fs[f],
         gs[z] = fs[p],
         Apart(fs, a, z, p, l)
  PROVE  Apart(gs, a, z, p, l)
<1>1. \A f \in 1 .. n : f # z => LinesOf(gs, f) = LinesOf(fs, f)
  BY DEF LinesOf
<1>2. LinesOf(gs, z) = LinesOf(fs, p) /\ LinesOf(gs, p) = LinesOf(fs, p)
  BY DEF LinesOf
<1>3. \A m \in DOMAIN a : a[m] # z /\ LinesOf(gs, a[m]) = LinesOf(fs, a[m])
  BY <1>1 DEF Apart
<1>4. l # 0 => LinesOf(gs, l) = LinesOf(fs, l)
  BY <1>1
<1>5. \A m, j \in DOMAIN a : m # j => LinesOf(gs, a[m]) \cap LinesOf(gs, a[j]) = {}
  BY <1>3 DEF Apart
<1>6. ASSUME NEW m \in DOMAIN a, NEW f \in {z, p, l}, f # 0
      PROVE  f # a[m] /\ LinesOf(gs, a[m]) \cap LinesOf(gs, f) = {}
  BY <1>2, <1>3, <1>4, <1>6 DEF Apart
<1>7. ASSUME NEW f \in {z, p}, f # 0, l # 0
      PROVE  LinesOf(gs, l) \cap LinesOf(gs, f) = {}
  BY <1>2, <1>4, <1>7 DEF Apart
<1>8. QED
  BY <1>5, <1>6, <1>7 DEF Apart

(* Archives are removed.                                                   *)
LEMMA ApartRemove ==
  ASSUME NEW fs, NEW a, NEW b, NEW z, NEW p, NEW l, Apart(fs, a, z, p, l),
         \A m \in DOMAIN b : m \in DOMAIN a /\ b[m] = a[m]
  PROVE  Apart(fs, b, z, p, l)
BY DEF Apart

(* Without crashes and failures a line is written once, and moves: gzip    *)
(* has removed .pending when .pending.gz becomes an archive.               *)
LEMMA OnePlaceStep ==
  ASSUME IndInv, Alone, Calm, Plain, LogApart, Clean, Unwritten, OnePlace, [Next]_vars
  PROVE  OnePlace'
<1> DEFINE z == dir["pending.gz"]
           p0 == dir["pending"]
           l == dir["log"]
           n == Len(files)
<1>1. SUFFICES ASSUME alone', crashes' = 0, faults' = 0
               PROVE  Apart(files', archive', dir'["pending.gz"], dir'["pending"], dir'["log"])
  BY DEF OnePlace
<1>2. /\ alone /\ crashes = 0 /\ faults = 0 /\ ~overlap /\ ~shared
      /\ p0 # 0 /\ z # 0 => \E p \in Procs : Busy(p)
      /\ Apart(files, archive, z, p0, l)
  BY <1>1, HistoryStays DEF Alone, Calm, Clean, OnePlace
<1>3. /\ n \in Nat /\ dir \in [Fixed -> 0 .. n]
      /\ "log" \in Fixed /\ "pending" \in Fixed /\ "pending.gz" \in Fixed /\ "lock" \in Fixed
      /\ l \in 0 .. n /\ p0 \in 0 .. n /\ z \in 0 .. n /\ dir["lock"] \in 0 .. n
      /\ (\A m \in DOMAIN archive : archive[m] \in 1 .. n) /\ files \in Seq(File) /\ gz \in [Gzips -> Gzip]
  BY NamesLead DEF IndInv, DiskType, ProcType
<1>4. l # 0 => l # z /\ l # p0 /\ \A m \in DOMAIN archive : archive[m] # l
  BY DEF LogApart, IndInv, Uses
<1> DEFINE Goal == Apart(files', archive', dir'["pending.gz"], dir'["pending"], dir'["log"])
<1>5. ASSUME files' = files \/ files' = Append(files, NewFile), archive' = archive,
             dir'["pending.gz"] \in {0, z} \/ (dir'["pending.gz"] = n + 1 /\ files' = Append(files, NewFile)),
             dir'["pending"] \in {0, p0},
             dir'["log"] \in {0, l} \/ (dir'["log"] = n + 1 /\ files' = Append(files, NewFile))
      PROVE  Goal
  <2>1. \A f \in 1 .. n : files'[f] = files[f]
    BY <1>3, <1>5
  <2>2. files' = Append(files, NewFile) => files'[n + 1].lines = {}
    BY <1>3 DEF NewFile
  <2> DEFINE y == dir'["pending.gz"]
             q == dir'["pending"]
             k == dir'["log"]
  <2>3. files' = Append(files, NewFile) => LinesOf(files', n + 1) = {} /\ \A m \in DOMAIN archive : archive[m] # n + 1
    BY <1>3, <2>2 DEF LinesOf
  <2>4. Apart(files', archive, z, p0, l)
    <3> HIDE DEF z, p0, l, n
    <3>1. QED
      BY <1>2, <1>3, <2>1, ApartFrame
  <2>5. /\ y = z \/ y = 0 \/ (LinesOf(files', y) = {} /\ \A m \in DOMAIN archive : archive[m] # y)
        /\ q = p0 \/ q = 0
        /\ k = l \/ k = 0 \/ (LinesOf(files', k) = {} /\ \A m \in DOMAIN archive : archive[m] # k)
    BY <1>5, <2>3
  <2>6. Apart(files', archive, y, q, k)
    <3> HIDE DEF z, p0, l, n, y, q, k
    <3>1. QED
      BY <2>4, <2>5, ApartDrop
  <2>7. QED
    BY <1>5, <2>6
<1>6. ASSUME UNCHANGED disk
      PROVE  Goal
  BY <1>2, <1>6 DEF disk
<1>7. ASSUME NEW p \in Procs, dir' = Unlocked(p, dir)
      PROVE  dir'["pending.gz"] = z /\ dir'["pending"] = p0 /\ dir'["log"] = l
  BY <1>7, LeaveDir
<1>8. ASSUME NEW p \in Procs, Renamed(p), files' = files
      PROVE  Goal
  <2> DEFINE f == dir[Target]
             m == proc[p].name
  <2>1. f # 0 /\ f \in {z, p0} /\ m \notin DOMAIN archive
    BY <1>2, <1>8 DEF Renamed, Target, IndInv, Together
  <2>2. (mode.nocompress => z = 0) /\ (~mode.nocompress => p0 = 0)
    <3>1. gz[p] = NoGzip /\ ~At(p, "off")
      BY <1>8 DEF Renamed, IndInv, Flow, FlowOf, At, Archiving, Archive
    <3>2. \A q \in Procs : ~Busy(q)
      BY <1>2, <3>1, OnlyChild DEF Busy, Gzips, NoGzip
    <3>3. QED
      BY <1>2, <2>1, <3>2 DEF Plain, Target
  <2>3. /\ archive' = [k \in DOMAIN archive \cup {m} |-> IF k = m THEN f ELSE archive[k]]
        /\ dir'["pending"] = 0 /\ dir'["pending.gz"] = 0 /\ dir'["log"] = l
    BY <1>3, <1>8, <2>2 DEF Renamed, Target
  <2>4. (f = z => p0 = 0) /\ (f = p0 => z = 0) /\ (l # 0 => l # f)
    BY <1>4, <2>1, <2>2 DEF Target
  <2>5. Apart(files, archive', 0, 0, l)
    <3> HIDE DEF z, p0, l, f, m
    <3>1. QED
      BY <1>2, <2>1, <2>3, <2>4, ApartArchive
  <2>6. QED
    BY <1>8, <2>3, <2>5
<1>9. ASSUME NEW p \in Procs, log_lock(p)
      PROVE  Goal
  <2>1. archive' = archive /\ (files' = files \/ files' = Append(files, NewFile))
    BY <1>9 DEF log_lock
  <2>2. dir'["pending.gz"] = z /\ dir'["pending"] = p0 /\ dir'["log"] = l
    BY <1>3, <1>9 DEF log_lock
  <2>3. QED
    BY <1>5, <2>1, <2>2
<1>10. ASSUME NEW p \in Procs, write_open(p)
       PROVE  Goal
  <2>1. CASE UNCHANGED disk
    BY <1>6, <2>1
  <2>2. CASE LET f == IF dir["log"] = 0 THEN Len(files) + 1 ELSE dir["log"]
             IN  /\ files' = IF f > Len(files) THEN Append(files, NewFile) ELSE files
                 /\ dir' = [dir EXCEPT !["log"] = f] /\ archive' = archive
    <3>1. dir'["pending.gz"] = z /\ dir'["pending"] = p0
      BY <1>3, <2>2
    <3>2. (l # 0 /\ dir'["log"] = l /\ files' = files)
          \/ (l = 0 /\ dir'["log"] = n + 1 /\ files' = Append(files, NewFile))
      BY <1>3, <2>2
    <3>3. QED
      BY <1>5, <2>2, <3>1, <3>2
  <2>3. QED
    BY <1>10, <2>1, <2>2, OpenIs
<1>11. ASSUME NEW p \in Procs, write_begin(p) \/ write_line(p)
       PROVE  Goal
  <2>1. UNCHANGED <<dir, archive>>
    BY <1>11 DEF write_begin, write_line
  <2>2. CASE files' = files
    BY <1>6, <2>1, <2>2 DEF disk
  <2>3. ASSUME NEW x \in {p, proc[p].line}, proc[p].fd \in 1 .. n, proc[p].line # 0 \/ x = p,
               files' = [files EXCEPT ![proc[p].fd] = [lines |-> files[proc[p].fd].lines \cup {x}, mtime |-> now]]
        PROVE  Goal
    <3>1. proc[p].fd = l /\ l \in 1 .. n
      BY <1>2, <1>3, <2>3 DEF Alone
    <3>2. l # z /\ l # p0 /\ \A m \in DOMAIN archive : archive[m] \in 1 .. n /\ archive[m] # l
      BY <1>3, <1>4, <3>1
    <3>3. \A f \in 1 .. n : f # l => files'[f] = files[f]
      BY <1>3, <2>3, <3>1
    <3>4. files'[l].lines = files[l].lines \cup {x}
      BY <1>3, <2>3, <3>1
    <3>5. x \in Procs \/ \A f \in 1 .. n : x \notin LinesOf(files, f)
      <4>1. SUFFICES ASSUME x \notin Procs PROVE \A f \in 1 .. Len(files) : x \notin LinesOf(files, f)
        OBVIOUS
      <4>2. x = proc[p].line /\ proc[p].line # 0
        BY <2>3, <4>1
      <4>3. \A f \in 1 .. Len(files) : x \notin LinesIn(f)
        BY <1>2, <4>2 DEF Unwritten
      <4>4. QED
        BY <4>3 DEF LinesIn, LinesOf
    <3>6. Apart(files', archive, z, p0, l)
      <4> HIDE DEF z, p0, l, n
      <4>1. /\ n \in Nat /\ z \in 0 .. n /\ p0 \in 0 .. n /\ l \in 1 .. n /\ z # l /\ p0 # l
            /\ \A m \in DOMAIN archive : archive[m] \in 1 .. n /\ archive[m] # l
        BY <1>3, <3>1, <3>2
      <4>2. Apart(files, archive, z, p0, l)
        BY <1>2
      <4>3. QED
        BY <3>3, <3>4, <3>5, <4>1, <4>2, ApartWrite
    <3>7. QED
      BY <2>1, <3>6
  <2>4. files' = files \/ \E x \in {p, proc[p].line} :
          /\ proc[p].fd \in 1 .. n /\ (proc[p].line # 0 \/ x = p)
          /\ files' = [files EXCEPT ![proc[p].fd] = [lines |-> files[proc[p].fd].lines \cup {x}, mtime |-> now]]
    <3>1. CASE write_begin(p)
      BY <1>3, <3>1, BeginIs
    <3>2. CASE write_line(p)
      <4>1. proc[p].line # 0
        BY <3>2 DEF write_line, At, IndInv, Flow, FlowOf, Logging
      <4>2. QED
        BY <1>3, <3>2, <4>1, WriteIs
    <3>3. QED
      BY <1>11, <3>1, <3>2
  <2>5. QED
    BY <2>2, <2>3, <2>4
<1>12. ASSUME NEW p \in Procs, Inside(p)
       PROVE  Goal
  <2>1. UNCHANGED files
    BY <1>12, InsideIs
  <2>2. CASE dir' = dir /\ archive' = archive
    BY <1>6, <2>1, <2>2 DEF disk
  <2>3. CASE Leave(p) /\ archive' = archive
    BY <1>5, <1>7, <2>1, <2>3 DEF Leave
  <2>4. CASE At(p, "topend") /\ archive' = archive /\ dir' = [dir EXCEPT !["pending"] = l, !["log"] = 0]
    <3>1. p0 = 0
      BY <1>2, <2>4 DEF IndInv, Together
    <3>2. dir'["pending.gz"] = z /\ dir'["pending"] = l /\ dir'["log"] = 0
      BY <1>3, <2>4
    <3>3. Apart(files, archive, z, l, 0)
      BY <1>2, <3>1, ApartPending
    <3>4. QED
      BY <2>1, <2>4, <3>2, <3>3
  <2>5. CASE Renamed(p)
    BY <1>8, <2>1, <2>5
  <2>6. CASE remove_oldlog(p) /\ Leave(p)
    <3>1. dir'["pending.gz"] = z /\ dir'["pending"] = p0 /\ dir'["log"] = l
      BY <1>7, <2>6 DEF Leave
    <3>2. \E R : archive' = [m \in DOMAIN archive \ R |-> archive[m]]
      BY <2>6, RemoveIs
    <3>3. \A m \in DOMAIN archive' : m \in DOMAIN archive /\ archive'[m] = archive[m]
      BY <3>2
    <3>4. Apart(files, archive', z, p0, l)
      <4> HIDE DEF z, p0, l
      <4>1. QED
        BY <1>2, <3>3, ApartRemove
    <3>5. QED
      BY <2>1, <3>1, <3>4
  <2>7. QED
    BY <1>12, <2>2, <2>3, <2>4, <2>5, <2>6, InsideIs
<1>13. ASSUME NEW p \in Procs, wait_pids(p) \/ tlog_close(p)
       PROVE  Goal
  <2>1. UNCHANGED <<files, archive>> /\ (dir' = Unlocked(p, dir) \/ dir' = dir)
    BY <1>13 DEF wait_pids, tlog_close, disk
  <2>2. QED
    BY <1>5, <1>7, <2>1
<1>14. ASSUME NEW p \in Procs, log_lockf(p) \/ tlog_init(p) \/ tlog_exit(p) \/ crash(p)
       PROVE  UNCHANGED disk
  BY <1>14 DEF log_lockf, tlog_init, tlog_exit, crash
<1>15. ASSUME NEW g \in Gzips, gzip_open(g) \/ gzip_unlink(g) \/ gzip_fail(g)
       PROVE  Goal
  <2>1. archive' = archive /\ (files' = files \/ files' = Append(files, NewFile))
    BY <1>15 DEF gzip_open, gzip_unlink, gzip_fail
  <2>2. dir'["pending"] \in {0, p0} /\ dir'["log"] = l
    BY <1>3, <1>15 DEF gzip_open, gzip_unlink, gzip_fail
  <2>3. dir'["pending.gz"] \in {0, z} \/ (dir'["pending.gz"] = n + 1 /\ files' = Append(files, NewFile))
    BY <1>3, <1>15 DEF gzip_open, gzip_unlink, gzip_fail
  <2>4. QED
    BY <1>5, <2>1, <2>2, <2>3
<1>16. ASSUME NEW g \in Gzips, gzip_copy(g)
       PROVE  Goal
  <2>1. UNCHANGED <<dir, archive>> /\ Busy(g) /\ files' = [files EXCEPT ![gz[g].out] = files[gz[g].in]]
    BY <1>16 DEF gzip_copy, Busy
  <2>2. p0 = gz[g].in /\ z = gz[g].out /\ p0 # 0 /\ z # 0
    BY <1>2, <2>1 DEF IndInv, OneGzip, GzipFlow
  <2>3. p0 \in 1 .. n /\ z \in 1 .. n /\ l # z
    BY <1>3, <1>4, <2>2
  <2>4. (\A f \in 1 .. n : f # z => files'[f] = files[f]) /\ files'[z] = files[p0]
    BY <1>3, <2>1, <2>2, <2>3
  <2>5. Apart(files', archive, z, p0, l)
    <3> HIDE DEF z, p0, l, n
    <3>1. QED
      BY <1>2, <1>3, <2>3, <2>4, ApartCopy
  <2>6. QED
    BY <2>1, <2>5
<1>17. ASSUME tick \/ UNCHANGED vars
       PROVE  UNCHANGED disk
  BY <1>17 DEF tick, vars
<1>18. Goal
  <2> HIDE DEF Goal
  <2>1. QED
    BY <1>6, <1>9, <1>10, <1>11, <1>12, <1>13, <1>14, <1>15, <1>16, <1>17
    DEF Next, worker, archive_step, Inside, gzip
<1>19. QED
  BY <1>18

-----------------------------------------------------------------------------
(* The theorems.                                                           *)

AloneInv ==
  /\ IndInv /\ LossExplained
  /\ Alone /\ Calm /\ Plain /\ LogApart /\ InTime /\ Chain /\ Bound /\ Clean /\ Locked /\ Fresh /\ Unwritten /\ OnePlace

(* It holds to begin with: there is a log at most, with the old lines.     *)
LEMMA AloneInit ==
  ASSUME Init
  PROVE  AloneInv
<1>1. IndInv /\ LossExplained
  BY InitIsFine
<1>2. mode.old \in Nat /\ mode.seconds \in Nat \ {0}
  BY FilesAssumption DEF Init
<1>3. /\ \A p \in Procs : proc[p] = Closed
      /\ \A g \in Gzips : gz[g] = NoGzip
      /\ dir["pending"] = 0 /\ dir["pending.gz"] = 0 /\ dir["lock"] = 0
      /\ DOMAIN archive = {} /\ crashes = 0 /\ faults = 0 /\ cut = 0 /\ now = 1 /\ lines = mode.old
  BY DEF Init, Fixed
<1>4. \A f \in 1 .. Len(files) : files[f].lines = 1 .. mode.old /\ files[f].mtime = 1
  BY DEF Init
<1>5. Closed.pc = "off" /\ Closed.fd = 0 /\ Closed.line = 0 /\ Closed.fd_lock = 0
      /\ NoGzip.st = "none"
  BY DEF Closed, NoGzip
<1>6. Alone /\ Plain
  <2>1. ~shared
    BY DEF Init
  <2>2. QED
    BY <1>3, <1>5, <2>1 DEF Alone, At, Plain
<1>7. Calm
  <2>1. ~overlap /\ late = {}
    BY DEF Init
  <2>2. QED
    BY <1>3, <2>1 DEF Calm
<1>8. LogApart
  BY <1>3 DEF LogApart
<1>9. InTime
  BY <1>3, <1>4 DEF InTime
<1>10. Chain
  <2>1. Range(archive) = {}
    BY <1>3 DEF Range
  <2>2. Since(files, 0, dir["log"])
    <3>1. dir["log"] # 0 => dir["log"] \in 1 .. Len(files)
      BY DEF Init, Fixed
    <3>2. QED
      BY <1>4, <3>1 DEF Since, HasLines
  <2>3. QED
    BY <1>3, <2>1, <2>2 DEF Chain, Ordered, Before, Since, HasLines
<1>11. Bound
  <2>1. Starting = {}
    BY <1>3, <1>5 DEF Starting, Gzips
  <2>2. Removing = {} /\ Leftover = 0
    BY <1>3, <1>5 DEF Removing, Leftover, At
  <2>3. LogCount \in Nat /\ Cardinality({}) = 0
    BY FilesAssumption, FS_EmptySet
  <2>4. QED
    BY <1>3, <2>1, <2>2, <2>3 DEF Bound
<1>12. Clean
  BY <1>3, <1>5 DEF Clean, Gzips, Holder, At
<1>13. Locked
  BY <1>3, <1>5 DEF Locked, At
<1>14. Fresh
  BY <1>3, <1>4, <1>5 DEF Fresh, LinesIn
<1>15. Unwritten
  BY <1>3, <1>5 DEF Unwritten
<1>16. OnePlace
  BY <1>3 DEF OnePlace, Apart
<1>17. QED
  BY <1>1, <1>6, <1>7, <1>8, <1>9, <1>10, <1>11, <1>12, <1>13, <1>14, <1>15, <1>16 DEF AloneInv

(* It holds of every state of the log.                                     *)
LEMMA AloneInvariant == Spec => []AloneInv
<1>1. Init => AloneInv
  BY AloneInit
<1>2. AloneInv /\ [Next]_vars => AloneInv'
  BY IndInvStep, LossStep, AloneStep, CalmStep, PlainStep, LogApartStep, InTimeStep, ChainStep, BoundStep, CleanStep,
     LockedStep, FreshStep, UnwrittenStep, OnePlaceStep DEF AloneInv
<1>3. QED
  BY <1>1, <1>2, PTL DEF Spec

(* Rotation loses no line: what a process that logs alone has written is   *)
(* under a name until its archive is removed as one of the oldest, however *)
(* often it logs and whatever open, write, fork, stat, rename, unlink and  *)
(* gzip fail.                                                              *)
THEOREM RotationLosesNothing == Spec => []NothingLostAlone
<1>1. AloneInv => NothingLostAlone
  BY DEF AloneInv, IndInv, Together, Alone, Calm, LossExplained, NothingLostAlone
<1>2. QED
  BY <1>1, AloneInvariant, PTL

(* _tlog_remove_oldlog keeps the newest: for any number of archives, no    *)
(* one that is left with lines in it was last written before one that was  *)
(* removed.                                                                *)
THEOREM OldestGoFirst == Spec => []NewestKept
<1>1. AloneInv => NewestKept
  <2>1. SUFFICES ASSUME AloneInv, alone, crashes = 0, NEW n \in DOMAIN archive, LinesIn(archive[n]) # {}
                 PROVE  files[archive[n]].mtime >= cut
    BY DEF NewestKept
  <2>2. archive[n] \in Range(archive) /\ archive[n] # 0
    BY <2>1, NamesLead DEF AloneInv, Range
  <2>3. HasLines(files, archive[n])
    BY <2>1, <2>2 DEF HasLines, LinesIn
  <2>4. cut <= files[archive[n]].mtime
    BY <2>1, <2>2, <2>3 DEF AloneInv, Chain, Ordered, Since
  <2>5. cut \in Nat /\ files[archive[n]].mtime \in Nat
    <3>1. archive[n] \in 1 .. Len(files) /\ files \in Seq(File) /\ mode.seconds \in Nat
      BY <2>1, NamesLead, Setup DEF AloneInv, IndInv, DiskType
    <3>2. files[archive[n]] \in File /\ cut \in 0 .. mode.seconds
      BY <2>1, <3>1 DEF AloneInv, IndInv, CountType
    <3>3. QED
      BY <3>1, <3>2 DEF File
  <2>6. QED
    BY <2>4, <2>5
<1>2. QED
  BY <1>1, AloneInvariant, PTL

(* maxlogcount holds: beyond the number asked for there is the archive     *)
(* just made and one for each crash and each failure, however many lines   *)
(* are logged.                                                             *)
THEOREM ArchivesStayBounded == Spec => []ArchivesBounded
<1>1. AloneInv => ArchivesBounded
  <2>1. SUFFICES ASSUME AloneInv, alone
                 PROVE  Cardinality(DOMAIN archive) <= LogCount + crashes + faults + Cardinality(Removing)
    BY DEF ArchivesBounded, Removing
  <2>2. /\ Cardinality(DOMAIN archive) \in Nat /\ Cardinality(Starting) \in Nat /\ Cardinality(Removing) \in Nat
        /\ Leftover \in Nat /\ LogCount \in Nat /\ crashes \in Nat /\ faults \in Nat
    BY <2>1, Numbers DEF AloneInv
  <2>3. QED
    BY <2>1, <2>2 DEF AloneInv, Bound
<1>2. QED
  BY <1>1, AloneInvariant, PTL

(* tlog_exit leaves nothing half done: after clean exits there is no       *)
(* .pending, no .pending.gz and no lock file, every line is in one archive *)
(* at most, and there is no archive too many.                              *)
THEOREM ExitIsClean == Spec => []CleanExit
<1>1. AloneInv => CleanExit
  <2>1. SUFFICES ASSUME AloneInv, alone, crashes = 0, faults = 0, \A p \in Procs : At(p, "off")
                 PROVE  /\ \A n \in Fixed \ {"log"} : dir[n] = 0
                        /\ Cardinality(DOMAIN archive) <= LogCount
                        /\ \A m, n \in DOMAIN archive :
                             m # n => LinesIn(archive[m]) \cap LinesIn(archive[n]) = {}
    BY DEF CleanExit
  <2>2. \A p \in Procs : gz[p] = NoGzip /\ proc[p].pc = "off"
    BY <2>1 DEF AloneInv, IndInv, Flow, FlowOf, At
  <2>3. \A p \in Procs : ~Holder(p) /\ ~Reaping(p) /\ gz[p].st = "none"
    BY <2>2 DEF Holder, Reaping, At, NoGzip
  <2>4. dir["pending.gz"] = 0
    BY <2>1, <2>3 DEF AloneInv, Clean
  <2>5. dir["pending"] = 0
    BY <2>1, <2>3 DEF AloneInv, Clean
  <2>6. dir["lock"] = 0
    BY <2>1, <2>2 DEF AloneInv, Locked, At
  <2>7. Cardinality(DOMAIN archive) <= LogCount
    <3>1. Removing = {} /\ Cardinality({}) = 0
      BY <2>2, FS_EmptySet DEF Removing, At
    <3>2. /\ Cardinality(DOMAIN archive) \in Nat /\ Cardinality(Starting) \in Nat
          /\ Leftover \in Nat /\ LogCount \in Nat
      BY <2>1, Numbers DEF AloneInv
    <3>3. QED
      BY <2>1, <3>1, <3>2 DEF AloneInv, Bound
  <2>8. \A m, n \in DOMAIN archive : m # n => LinesIn(archive[m]) \cap LinesIn(archive[n]) = {}
    BY <2>1 DEF AloneInv, OnePlace, Apart, LinesOf, LinesIn
  <2>9. QED
    BY <2>4, <2>5, <2>6, <2>7, <2>8 DEF Fixed
<1>2. QED
  BY <1>1, AloneInvariant, PTL

================================================================================
