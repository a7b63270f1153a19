---------------------------- MODULE TLogFilesProofs ----------------------------
(***************************************************************************)
(* The safety of the log files of useapp/tlog.c for any number of          *)
(* processes, lines, crashes and failures.                                 *)
(*                                                                         *)
(* What is lost is lost in the hands of gzip, so the argument is about the *)
(* two names it works on.  As long as nobody starts on them before a gzip  *)
(* has ended there is only one gzip, .pending and .pending.gz lead to the  *)
(* files it has open until it has ended, what it has copied is in          *)
(* .pending.gz, and a line that comes to .pending after that was late.     *)
(***************************************************************************)
EXTENDS TLogFiles, FiniteSetTheorems, WellFoundedInduction, TLAPS

(* The labels inside _tlog_write, and those of an archive.                 *)
Logging   == {"lock", "lockf", "gz", "pend", "topend", "zip", "open", "write"}
Naming    == {"stat", "free", "rename", "remove"}
Archiving == {"lock", "lockf"} \cup Archive
Labels    == Logging \cup Archiving \cup {"off", "idle", "exit"}

File == [lines : SUBSET (Lines \cup Procs), mtime : 1 .. mode.seconds]
Gzip == [st : {"none", "start", "copy", "unlink", "done"}, in : Ino, out : Ino]
Name == (1 .. mode.seconds) \X Nat
Log  == [pc : Labels, fd : Ino, filesize : Nat, fd_lock : Ino, lockfd : Ino, name : {NoName} \cup Name,
         multi_log : BOOLEAN, tried : BOOLEAN, waited : BOOLEAN, quit : BOOLEAN, line : 0 .. mode.lines]

(* TypeOK, with the types of functions and records.                        *)
DiskType ==
  /\ files \in Seq(File)
  /\ dir \in [Fixed -> Ino]
  /\ archive \in [DOMAIN archive -> Ino \ {0}]
  /\ DOMAIN archive \subseteq (1 .. mode.seconds) \X Nat /\ IsFiniteSet(DOMAIN archive)
ProcType ==
  /\ proc \in [Procs -> Log]
  /\ gz \in [Gzips -> Gzip]
CountType ==
  /\ mode \in Setups
  /\ now \in 1 .. mode.seconds /\ crashes \in 0 .. mode.crashes
  /\ exits \in 0 .. mode.exits /\ faults \in 0 .. mode.faults
  /\ lines \in 0 .. mode.lines
  /\ written \subseteq Lines /\ removed \subseteq Lines /\ late \subseteq Lines /\ replaced \subseteq Lines
  /\ cut \in 0 .. mode.seconds /\ alone \in BOOLEAN /\ shared \in BOOLEAN /\ overlap \in BOOLEAN

(* What a process holds at each label.                                     *)
FlowOf(p) ==
  LET s == proc[p]
  IN  /\ s.pc \in Logging => s.line # 0
      /\ s.pc = "write" => s.fd # 0
      /\ s.pc \in (Logging \ {"write"}) \cup {"off"} => s.fd = 0
      /\ s.pc \in Archiving \cup {"off"} => gz[p] = NoGzip
      /\ s.pc \in Naming /\ s.line # 0 => s.fd = 0
      /\ s.pc \in {"idle", "exit"} => s.line = 0
      /\ s.pc \in {"free", "rename"} => s.name \in Name
      /\ mode.nocompress => s.pc \notin {"gz", "zip"}
      /\ mode.nocompress /\ s.pc \in Naming => s.line # 0
Flow == \A p \in Procs : FlowOf(p)

(* A gzip at work has two files; there is none without compression, and no *)
(* orphan without a crash.                                                 *)
Busy(g) == gz[g].st \in {"copy", "unlink"}
GzipFlow ==
  /\ \A g \in Gzips : Busy(g) => gz[g].in # 0 /\ gz[g].out # 0
  /\ mode.nocompress => \A g \in Gzips : gz[g] = NoGzip
  /\ \A i \in 1 .. MaxCrashes : i > crashes => gz[i] = NoGzip

(* No file has two uses: a log, the output of a gzip, a lock.              *)
Uses ==
  /\ dir["log"] # 0 =>
       /\ dir["log"] \notin {dir["pending"], dir["lock"]}
       /\ \A g \in Gzips : gz[g].out # dir["log"]
  /\ \A p \in Procs : proc[p].fd # 0 =>
       /\ proc[p].fd # dir["lock"]
       /\ \A g \in Gzips : gz[g].out # proc[p].fd
  /\ dir["lock"] # 0 =>
       /\ files[dir["lock"]].lines = {}
       /\ \A g \in Gzips : gz[g].out # dir["lock"]

(* One gzip at a time, on the files it opened.                             *)
OneGzip ==
  ~overlap =>
    /\ \A g, h \in Gzips : gz[g] # NoGzip /\ gz[h] # NoGzip => g = h
    /\ \A g \in Gzips : Busy(g) => dir["pending"] = gz[g].in /\ dir["pending.gz"] = gz[g].out
    /\ \A g \in Gzips : gz[g].st = "copy" => files[gz[g].out].lines = {}
    /\ \A g \in Gzips : gz[g].st = "unlink" => LinesIn(gz[g].in) \subseteq LinesIn(gz[g].out) \cup late

(* While no two are in the archive at once, the name that was looked for   *)
(* is free until it is used.                                               *)
Together ==
  /\ ~shared =>
       /\ \A p, q \in Procs : proc[p].pc \in Archive /\ proc[q].pc \in Archive => p = q
       /\ \A p \in Procs : At(p, "topend") => dir["pending"] = 0
       /\ \A p \in Procs : At(p, "rename") => proc[p].name \notin DOMAIN archive
  /\ replaced # {} => shared

IndInv == DiskType /\ ProcType /\ CountType /\ Flow /\ GzipFlow /\ Uses /\ OneGzip /\ Together


-----------------------------------------------------------------------------
(* Numbers, names and sizes.                                               *)

(* What the assumption says of the setup in use.                           *)
LEMMA Setup ==
  ASSUME CountType
  PROVE  /\ mode.lines \in Nat /\ mode.exits \in Nat /\ mode.faults \in Nat
         /\ mode.crashes \in 0 .. MaxCrashes /\ mode.seconds \in Nat \ {0}
         /\ mode.old \in 0 .. mode.lines /\ mode.nocompress \in BOOLEAN /\ mode.multi \in BOOLEAN
         /\ MaxCrashes \in Nat /\ LogSize \in Nat \ {0} /\ LogCount \in Nat \ {0}
         /\ IsFiniteSet(Procs) /\ \A p \in Procs : p \notin Nat
BY FilesAssumption DEF CountType

(* A set of numbers that is not empty has a least one.                     *)
LEMMA LeastExists ==
  ASSUME NEW S, S \subseteq Nat, S # {}
  PROVE  Min(S) \in S /\ \A y \in S : Min(S) <= y
<1>1. PICK n \in S : \A m \in S : ~(<<m, n>> \in OpToRel(<, Nat))
  BY NatLessThanWellFounded, WFMin
<1>2. ASSUME NEW m \in S
      PROVE  n <= m
  <2>1. m \in Nat /\ n \in Nat
    OBVIOUS
  <2>2. m < n => <<m, n>> \in OpToRel(<, Nat)
    BY <2>1 DEF OpToRel
  <2>3. ~(m < n)
    BY <1>1, <2>2
  <2>4. QED
    BY <2>1, <2>3
<1>3. QED
  BY <1>2 DEF Min

(* One that is bounded has a greatest one.                                 *)
LEMMA GreatestExists ==
  ASSUME NEW n \in Nat, NEW S, S \subseteq 0 .. n, S # {}
  PROVE  Max(S) \in S /\ \A y \in S : y <= Max(S)
<1> DEFINE T == {n - x : x \in S}
<1>1. T \subseteq Nat /\ T # {}
  <2>1. \A x \in S : x \in 0 .. n
    OBVIOUS
  <2>2. \A x \in S : n - x \in Nat
    BY <2>1
  <2>3. QED
    BY <2>2
<1>2. Min(T) \in T /\ \A y \in T : Min(T) <= y
  BY <1>1, LeastExists
<1>3. PICK x \in S : Min(T) = n - x
  BY <1>2
<1>4. ASSUME NEW y \in S
      PROVE  x >= y
  <2>1. n - x <= n - y
    BY <1>2, <1>3
  <2>2. x \in 0 .. n /\ y \in 0 .. n
    OBVIOUS
  <2>3. QED
    BY <2>1, <2>2
<1>5. Max(S) \in S /\ \A y \in S : Max(S) >= y
  BY <1>4 DEF Max
<1>6. QED
  BY <1>5

(* A file has finitely many lines.                                         *)
LEMMA SizeIsNat ==
  ASSUME CountType, DiskType, NEW f \in 1 .. Len(files)
  PROVE  Size(f) \in Nat
<1>1. IsFiniteSet(Lines) /\ IsFiniteSet(Procs)
  <2>1. mode.lines \in Int /\ 1 \in Int
    BY Setup
  <2>2. QED
    BY <2>1, Setup, FS_Interval DEF Lines
<1>2. IsFiniteSet(Lines \cup Procs)
  BY <1>1, FS_Union
<1>3. files[f].lines \in SUBSET (Lines \cup Procs)
  <2>1. files[f] \in File
    BY DEF DiskType
  <2>2. QED
    BY <2>1 DEF File
<1>4. QED
  BY <1>2, <1>3, FS_Subset, FS_CardinalityType DEF Size

-----------------------------------------------------------------------------
(* Types.                                                                  *)

(* A setup is for ever.                                                    *)
LEMMA SetupFixed ==
  ASSUME [Next]_vars
  PROVE  /\ mode' = mode /\ Lines' = Lines /\ File' = File /\ Name' = Name
<1>1. mode' = mode
  <2>1. ASSUME NEW p \in Procs, archive_step(p)
        PROVE  mode' = mode
    BY <2>1 DEF archive_step, log_lock, log_lockf, archive_leftover, archive_pending, archive_log, archive_gzip, getmtime,
                archive_name, rename_logfile, remove_oldlog
  <2>2. ASSUME NEW p \in Procs, write_open(p) \/ write_line(p) \/ wait_pids(p) \/ tlog_close(p)
        PROVE  mode' = mode
    BY <2>2 DEF write_open, write_line, wait_pids, tlog_close
  <2>3. ASSUME NEW p \in Procs, write_begin(p) \/ tlog_init(p) \/ tlog_exit(p) \/ crash(p)
        PROVE  mode' = mode
    BY <2>3 DEF write_begin, tlog_init, tlog_exit, crash
  <2>4. ASSUME NEW g \in Gzips, gzip(g) \/ gzip_fail(g)
        PROVE  mode' = mode
    BY <2>4 DEF gzip, gzip_open, gzip_copy, gzip_unlink, gzip_fail
  <2>5. CASE tick \/ UNCHANGED vars
    BY <2>5 DEF tick, vars
  <2>6. QED
    BY <2>1, <2>2, <2>3, <2>4, <2>5 DEF Next, worker
<1>2. QED
  BY <1>1 DEF Lines, File, Name

(* A file that is made has no lines.                                       *)
LEMMA NewFileType ==
  ASSUME CountType
  PROVE  NewFile \in File
BY DEF CountType, NewFile, File

(* The files keep their types, and there are never fewer.                  *)
LEMMA FilesStep ==
  ASSUME IndInv, [Next]_vars
  PROVE  files' \in Seq(File) /\ Len(files') \in {Len(files), Len(files) + 1}
<1>1. files \in Seq(File) /\ NewFile \in File /\ now \in 1 .. mode.seconds
  BY NewFileType DEF IndInv, DiskType, CountType
<1>2. CASE files' = files
  BY <1>1, <1>2
<1>3. CASE files' = Append(files, NewFile)
  BY <1>1, <1>3
<1>4. ASSUME NEW f \in 1 .. Len(files), NEW r \in File, files' = [files EXCEPT ![f] = r]
      PROVE  files' \in Seq(File) /\ Len(files') = Len(files)
  BY <1>1, <1>4
<1>5. ASSUME NEW f \in 1 .. Len(files), NEW x \in Lines \cup Procs,
             files' = [files EXCEPT ![f] = [lines |-> @.lines \cup {x}, mtime |-> now]]
      PROVE  files' \in Seq(File) /\ Len(files') = Len(files)
  <2>1. files[f] \in File
    BY <1>1
  <2>2. [lines |-> files[f].lines \cup {x}, mtime |-> now] \in File
    BY <1>1, <2>1 DEF File
  <2>3. files' = [files EXCEPT ![f] = [lines |-> files[f].lines \cup {x}, mtime |-> now]]
    BY <1>1, <1>5
  <2>4. QED
    BY <1>4, <2>2, <2>3
<1>6. ASSUME NEW p \in Procs, log_lock(p)
      PROVE  files' = files \/ files' = Append(files, NewFile)
  BY <1>6 DEF log_lock
<1>7. ASSUME NEW p \in Procs, write_open(p)
      PROVE  files' = files \/ files' = Append(files, NewFile)
  BY <1>7 DEF write_open, disk
<1>8. ASSUME NEW g \in Gzips, gzip_open(g)
      PROVE  files' = files \/ files' = Append(files, NewFile)
  BY <1>8 DEF gzip_open
<1>9. ASSUME NEW p \in Procs, write_begin(p)
      PROVE  \/ files' = files
             \/ /\ proc[p].fd \in 1 .. Len(files)
                /\ files' = [files EXCEPT ![proc[p].fd] = [lines |-> @.lines \cup {p}, mtime |-> now]]
  <2>1. proc[p].fd \in 0 .. Len(files) /\ proc[p].filesize \in Nat
    BY DEF IndInv, ProcType, Log, Ino
  <2>2. proc[p].fd = 0 => ~(proc[p].filesize < -1)
    BY <2>1
  <2>3. QED
    BY <1>9, <2>1, <2>2 DEF write_begin
<1>10. ASSUME NEW p \in Procs, write_line(p)
       PROVE  \/ files' = files
              \/ /\ proc[p].fd \in 1 .. Len(files) /\ proc[p].line \in Lines
                 /\ files' = [files EXCEPT ![proc[p].fd] = [lines |-> @.lines \cup {proc[p].line}, mtime |-> now]]
  <2>1. proc[p].fd \in 0 .. Len(files) /\ proc[p].line \in 0 .. mode.lines
    BY DEF IndInv, ProcType, Log, Ino
  <2>2. At(p, "write") => proc[p].fd # 0 /\ proc[p].line # 0
    BY DEF IndInv, Flow, FlowOf, At, Logging
  <2>3. mode.lines \in Nat
    BY Setup DEF IndInv
  <2>4. QED
    BY <1>10, <2>1, <2>2, <2>3 DEF write_line, Lines
<1>11. ASSUME NEW g \in Gzips, gzip_copy(g)
       PROVE  /\ gz[g].out \in 1 .. Len(files) /\ gz[g].in \in 1 .. Len(files)
              /\ files' = [files EXCEPT ![gz[g].out] = files[gz[g].in]]
  <2>1. gz[g].out \in 0 .. Len(files) /\ gz[g].in \in 0 .. Len(files)
    BY DEF IndInv, ProcType, Gzip, Ino
  <2>2. gz[g].out # 0 /\ gz[g].in # 0
    BY <1>11 DEF IndInv, GzipFlow, Busy, gzip_copy
  <2>3. QED
    BY <1>11, <2>1, <2>2 DEF gzip_copy
<1>12. ASSUME NEW g \in Gzips, gzip_copy(g)
       PROVE  files[gz[g].in] \in File
  BY <1>1, <1>11, <1>12
<1>13. CASE UNCHANGED vars \/ tick \/ \E g \in Gzips : gzip_fail(g) \/ gzip_unlink(g)
  BY <1>2, <1>13 DEF vars, disk, tick, gzip_fail, gzip_unlink
<1>14. ASSUME NEW p \in Procs,
              \/ log_lockf(p) \/ archive_leftover(p) \/ archive_pending(p) \/ archive_log(p) \/ archive_gzip(p)
              \/ getmtime(p) \/ archive_name(p) \/ rename_logfile(p) \/ remove_oldlog(p)
              \/ wait_pids(p) \/ tlog_close(p) \/ tlog_init(p) \/ tlog_exit(p) \/ crash(p)
       PROVE  files' = files
  BY <1>14 DEF disk, log_lockf, archive_leftover, archive_pending, archive_log, archive_gzip, getmtime,
               archive_name, rename_logfile, remove_oldlog, wait_pids, tlog_close, tlog_init, tlog_exit, crash
<1>15. ASSUME NEW p \in Procs, worker(p) \/ write_begin(p) \/ tlog_init(p) \/ tlog_exit(p) \/ crash(p)
       PROVE  files' \in Seq(File) /\ Len(files') \in {Len(files), Len(files) + 1}
  <2>1. CASE write_begin(p)
    BY <1>2, <1>5, <1>9, <2>1
  <2>2. CASE write_line(p)
    BY <1>2, <1>5, <1>10, <2>2
  <2>3. CASE log_lock(p) \/ write_open(p)
    BY <1>2, <1>3, <1>6, <1>7, <2>3
  <2>4. QED
    BY <1>2, <1>14, <1>15, <2>1, <2>2, <2>3 DEF worker, archive_step
<1>16. ASSUME NEW g \in Gzips, gzip(g) \/ gzip_fail(g)
       PROVE  files' \in Seq(File) /\ Len(files') \in {Len(files), Len(files) + 1}
  <2>1. CASE gzip_open(g)
    BY <1>2, <1>3, <1>8, <2>1
  <2>2. CASE gzip_copy(g)
    BY <1>4, <1>11, <1>12, <2>2
  <2>3. QED
    BY <1>13, <1>16, <2>1, <2>2 DEF gzip
<1>17. QED
  BY <1>13, <1>15, <1>16 DEF Next


(* A number of a file stays one.                                           *)
LEMMA InoGrows ==
  ASSUME IndInv, [Next]_vars
  PROVE  /\ Len(files) \in Nat /\ Len(files') \in Nat /\ Len(files) <= Len(files')
         /\ Ino \subseteq Ino' /\ 0 \in Ino /\ Ino = 0 .. Len(files) /\ Ino' = 0 .. Len(files')
<1>1. Len(files) \in Nat
  BY DEF IndInv, DiskType
<1>2. QED
  BY <1>1, FilesStep DEF Ino

(* The directory: what rename, open and unlink do to it.                   *)
LEMMA DirStep ==
  ASSUME IndInv, [Next]_vars
  PROVE  dir' \in [Fixed -> Ino']
<1>1. dir \in [Fixed -> Ino] /\ Ino \subseteq Ino' /\ 0 \in Ino' /\ dir \in [Fixed -> Ino']
  BY InoGrows DEF IndInv, DiskType
<1>2. ASSUME NEW n \in Fixed, NEW v \in Ino', dir' = [dir EXCEPT ![n] = v]
      PROVE  dir' \in [Fixed -> Ino']
  BY <1>1, <1>2
<1>3. CASE dir' = dir
  BY <1>1, <1>3
<1>4. "log" \in Fixed /\ "pending" \in Fixed /\ "pending.gz" \in Fixed /\ "lock" \in Fixed
  BY DEF Fixed
<1>5. ASSUME NEW p \in Procs, dir' = Unlocked(p, dir)
      PROVE  dir' \in [Fixed -> Ino']
  BY <1>1, <1>2, <1>3, <1>4, <1>5 DEF Unlocked
<1>6. Target \in Fixed
  BY <1>4 DEF Target
<1>7. Len(files) \in Nat
  BY InoGrows
<1>8. files' = Append(files, NewFile) => Len(files) + 1 \in Ino'
  BY InoGrows DEF IndInv, DiskType
<1>10. ASSUME NEW p \in Procs, log_lock(p)
       PROVE  dir' \in [Fixed -> Ino']
  <2>1. dir["lock"] \in Ino'
    BY <1>1, <1>4
  <2>2. Len(files) + 1 > Len(files)
    BY <1>7
  <2>3. QED
    BY <1>2, <1>3, <1>4, <1>8, <1>10, <2>1, <2>2 DEF log_lock
<1>11. ASSUME NEW p \in Procs, write_open(p)
       PROVE  dir' \in [Fixed -> Ino']
  <2>1. dir["log"] \in Ino'
    BY <1>1, <1>4
  <2>2. Len(files) + 1 > Len(files)
    BY <1>7
  <2>3. QED
    BY <1>2, <1>3, <1>4, <1>8, <1>11, <2>1, <2>2 DEF write_open, disk
<1>12. ASSUME NEW p \in Procs, archive_log(p)
       PROVE  dir' \in [Fixed -> Ino']
  <2>1. CASE dir' = [dir EXCEPT !["pending"] = dir["log"], !["log"] = 0]
    BY <1>1, <1>4, <2>1
  <2>2. QED
    BY <1>5, <1>12, <2>1 DEF archive_log, Leave
<1>13. ASSUME NEW p \in Procs, archive_gzip(p) \/ getmtime(p) \/ rename_logfile(p) \/ remove_oldlog(p)
       PROVE  dir' \in [Fixed -> Ino']
  <2>1. dir' = dir \/ dir' = Unlocked(p, dir) \/ dir' = [dir EXCEPT ![Target] = 0]
    BY <1>13 DEF archive_gzip, getmtime, rename_logfile, remove_oldlog, Leave
  <2>2. QED
    BY <1>1, <1>2, <1>3, <1>5, <1>6, <2>1
<1>14. ASSUME NEW p \in Procs, wait_pids(p) \/ tlog_close(p)
       PROVE  dir' \in [Fixed -> Ino']
  BY <1>3, <1>5, <1>14 DEF wait_pids, tlog_close, disk
<1>15. ASSUME NEW p \in Procs,
              \/ log_lockf(p) \/ archive_leftover(p) \/ archive_pending(p) \/ archive_name(p)
              \/ write_begin(p) \/ write_line(p) \/ tlog_init(p) \/ tlog_exit(p) \/ crash(p)
       PROVE  dir' = dir
  BY <1>15 DEF disk, log_lockf, archive_leftover, archive_pending, archive_name, write_begin, write_line,
               tlog_init, tlog_exit, crash
<1>16. ASSUME NEW g \in Gzips, gzip(g) \/ gzip_fail(g)
       PROVE  dir' \in [Fixed -> Ino']
  <2>1. dir["pending.gz"] \in Ino'
    BY <1>1, <1>4
  <2>2. QED
    BY <1>1, <1>2, <1>3, <1>4, <1>8, <1>16, <2>1 DEF gzip, gzip_open, gzip_copy, gzip_unlink, gzip_fail
<1>17. CASE tick \/ UNCHANGED vars
  BY <1>3, <1>17 DEF tick, vars, disk
<1>18. QED
  BY <1>3, <1>10, <1>11, <1>12, <1>13, <1>14, <1>15, <1>16, <1>17 DEF Next, worker, archive_step

(* The archives.                                                           *)
LEMMA ArchiveStep ==
  ASSUME IndInv, [Next]_vars
  PROVE  /\ archive' \in [DOMAIN archive' -> Ino' \ {0}]
         /\ DOMAIN archive' \subseteq (1 .. mode.seconds) \X Nat /\ IsFiniteSet(DOMAIN archive')
<1> DEFINE Fine == /\ archive' \in [DOMAIN archive' -> Ino' \ {0}]
                   /\ DOMAIN archive' \subseteq (1 .. mode.seconds) \X Nat /\ IsFiniteSet(DOMAIN archive')
<1>1. /\ archive \in [DOMAIN archive -> Ino' \ {0}] /\ dir \in [Fixed -> Ino']
      /\ DOMAIN archive \subseteq (1 .. mode.seconds) \X Nat /\ IsFiniteSet(DOMAIN archive)
  BY InoGrows DEF IndInv, DiskType
<1>2. CASE archive' = archive
  BY <1>1, <1>2
<1>3. ASSUME NEW n \in Name, NEW f \in Ino' \ {0},
             archive' = [m \in DOMAIN archive \cup {n} |-> IF m = n THEN f ELSE archive[m]]
      PROVE  Fine
  <2>1. DOMAIN archive' = DOMAIN archive \cup {n} /\ IsFiniteSet(DOMAIN archive \cup {n})
    BY <1>1, <1>3, FS_AddElement
  <2>2. QED
    BY <1>1, <1>3, <2>1 DEF Name
<1>4. ASSUME NEW R \in SUBSET DOMAIN archive, archive' = Restrict(archive, DOMAIN archive \ R)
      PROVE  Fine
  <2>1. archive' = [x \in DOMAIN archive \ R |-> archive[x]] /\ IsFiniteSet(DOMAIN archive \ R)
    BY <1>1, <1>4, FS_Subset DEF Restrict
  <2>2. QED
    BY <1>1, <2>1
<1>5. ASSUME NEW p \in Procs, remove_oldlog(p)
      PROVE  Fine
  <2>1. PICK k \in 0 .. Excess : \E R \in Oldest(k) : archive' = Restrict(archive, DOMAIN archive \ R)
    BY <1>5 DEF remove_oldlog
  <2>2. PICK R \in Oldest(k) : archive' = Restrict(archive, DOMAIN archive \ R)
    BY <2>1
  <2>4. R \in SUBSET DOMAIN archive
    BY DEF Oldest
  <2>3. QED
    BY <1>4, <2>2, <2>4
<1>6. ASSUME NEW p \in Procs, rename_logfile(p)
      PROVE  Fine
  <2>1. Target \in Fixed /\ dir[Target] \in Ino'
    BY <1>1 DEF Target, Fixed
  <2>2. proc[p].name \in Name
    BY <1>6 DEF rename_logfile, At, IndInv, Flow, FlowOf
  <2>3. \/ archive' = archive
        \/ /\ dir[Target] # 0
           /\ archive' = [m \in DOMAIN archive \cup {proc[p].name} |->
                            IF m = proc[p].name THEN dir[Target] ELSE archive[m]]
    BY <1>6 DEF rename_logfile
  <2>4. QED
    BY <1>2, <1>3, <2>1, <2>2, <2>3
<1>8. ASSUME NEW p \in Procs,
             \/ log_lock(p) \/ log_lockf(p) \/ archive_leftover(p) \/ archive_pending(p) \/ archive_log(p)
             \/ archive_gzip(p) \/ getmtime(p) \/ archive_name(p) \/ write_begin(p) \/ write_open(p)
             \/ write_line(p) \/ wait_pids(p) \/ tlog_close(p) \/ tlog_init(p) \/ tlog_exit(p) \/ crash(p)
      PROVE  archive' = archive
  BY <1>8 DEF disk, log_lock, log_lockf, archive_leftover, archive_pending, archive_log, archive_gzip, getmtime,
              archive_name, write_begin, write_open, write_line, wait_pids, tlog_close, tlog_init, tlog_exit, crash
<1>9. CASE tick \/ UNCHANGED vars \/ \E g \in Gzips : gzip(g) \/ gzip_fail(g)
  BY <1>2, <1>9 DEF tick, vars, disk, gzip, gzip_open, gzip_copy, gzip_unlink, gzip_fail
<1>10. QED
  BY <1>2, <1>5, <1>6, <1>8, <1>9 DEF Next, worker, archive_step


(* The end of an archive.                                                  *)
LEMMA LeaveIs ==
  ASSUME IndInv, NEW p \in Procs, Leave(p)
  PROVE  LET s == proc[p]
             t == proc'[p]
         IN  /\ proc' = [proc EXCEPT ![p] = t] /\ t \in Log
             /\ t.fd = s.fd /\ t.line = s.line /\ t.lockfd = s.lockfd /\ t.quit = s.quit
             /\ t.fd_lock = 0 /\ t.name = NoName
             /\ t.pc = IF s.line # 0 THEN "open" ELSE IF s.quit THEN "exit" ELSE "idle"
<1> DEFINE to == IF proc[p].line # 0 THEN "open" ELSE IF proc[p].quit THEN "exit" ELSE "idle"
           t  == [proc[p] EXCEPT !.fd_lock = 0, !.name = NoName, !.pc = to]
<1>1. proc \in [Procs -> Log] /\ proc[p] \in Log /\ 0 \in Ino
  BY DEF IndInv, ProcType, DiskType, Ino
<1>2. to \in Labels
  BY DEF Labels, Logging
<1>3. proc' = [proc EXCEPT ![p] = t]
  BY DEF Leave
<1> HIDE DEF to
<1>4. /\ t \in Log /\ t.fd = proc[p].fd /\ t.line = proc[p].line /\ t.lockfd = proc[p].lockfd
      /\ t.quit = proc[p].quit /\ t.fd_lock = 0 /\ t.name = NoName /\ t.pc = to
  BY <1>1, <1>2 DEF Log
<1> HIDE DEF t
<1>5. proc'[p] = t
  BY <1>1, <1>3
<1>6. QED
  BY <1>3, <1>4, <1>5 DEF to

(* Another label, and maybe another name.                                  *)
Moves(p, n, to) == proc' = [proc EXCEPT ![p] = [proc[p] EXCEPT !.name = n, !.pc = to]]

(* The rest stays.                                                         *)
LEMMA MoveIs ==
  ASSUME IndInv, NEW p \in Procs, NEW n \in {NoName} \cup Name, NEW to \in Labels, Moves(p, n, to)
  PROVE  LET s == proc[p]
             t == proc'[p]
         IN  /\ proc' = [proc EXCEPT ![p] = t] /\ t \in Log
             /\ t.fd = s.fd /\ t.line = s.line /\ t.lockfd = s.lockfd /\ t.quit = s.quit
             /\ t.fd_lock = s.fd_lock /\ t.name = n /\ t.pc = to
<1> DEFINE t == [proc[p] EXCEPT !.name = n, !.pc = to]
<1>1. proc \in [Procs -> Log] /\ proc[p] \in Log
  BY DEF IndInv, ProcType
<1>2. /\ t \in Log /\ t.fd = proc[p].fd /\ t.line = proc[p].line /\ t.lockfd = proc[p].lockfd
      /\ t.quit = proc[p].quit /\ t.fd_lock = proc[p].fd_lock /\ t.name = n /\ t.pc = to
  BY <1>1 DEF Log
<1>3. proc' = [proc EXCEPT ![p] = t]
  BY DEF Moves
<1> HIDE DEF t
<1>4. proc'[p] = t
  BY <1>1, <1>3
<1>5. QED
  BY <1>2, <1>3, <1>4

(* A name stays when only the label changes.                               *)
LEMMA GotoIs ==
  ASSUME IndInv, NEW p \in Procs, NEW to \in Labels, Goto(p, to)
  PROVE  LET s == proc[p]
             t == proc'[p]
         IN  /\ proc' = [proc EXCEPT ![p] = t] /\ t \in Log
             /\ t.fd = s.fd /\ t.line = s.line /\ t.lockfd = s.lockfd /\ t.quit = s.quit
             /\ t.fd_lock = s.fd_lock /\ t.name = s.name /\ t.pc = to
<1> DEFINE t == [proc[p] EXCEPT !.pc = to]
<1>1. proc \in [Procs -> Log] /\ proc[p] \in Log
  BY DEF IndInv, ProcType
<1>2. /\ t \in Log /\ t.fd = proc[p].fd /\ t.line = proc[p].line /\ t.lockfd = proc[p].lockfd
      /\ t.quit = proc[p].quit /\ t.fd_lock = proc[p].fd_lock /\ t.name = proc[p].name /\ t.pc = to
  BY <1>1 DEF Log
<1>3. proc' = [proc EXCEPT ![p] = t]
  BY <1>1 DEF Goto
<1> HIDE DEF t
<1>4. proc'[p] = t
  BY <1>1, <1>3
<1>5. QED
  BY <1>2, <1>3, <1>4

(* The way of a process through an archive.                                *)
LEMMA StepIs ==
  ASSUME IndInv, NEW p \in Procs,
         \/ archive_leftover(p) \/ archive_pending(p) \/ archive_log(p) \/ archive_gzip(p) \/ getmtime(p)
         \/ archive_name(p) \/ rename_logfile(p) \/ remove_oldlog(p)
  PROVE  LET s == proc[p]
             t == proc'[p]
         IN  /\ proc' = [proc EXCEPT ![p] = t] /\ t \in Log /\ s.pc \in Archive
             /\ t.fd = s.fd /\ t.line = s.line /\ t.lockfd = s.lockfd /\ t.quit = s.quit
             /\ \/ /\ Leave(p) /\ t.fd_lock = 0 /\ t.name = NoName
                   /\ t.pc = IF s.line # 0 THEN "open" ELSE IF s.quit THEN "exit" ELSE "idle"
                \/ /\ t.fd_lock = s.fd_lock
                   /\ \/ s.pc = "gz" /\ t.pc \in {"stat", "pend"}
                      \/ s.pc = "pend" /\ t.pc \in {"topend", IF mode.nocompress THEN "stat" ELSE "zip"}
                      \/ s.pc = "topend" /\ t.pc = IF mode.nocompress THEN "stat" ELSE "zip"
                      \/ s.pc = "zip" /\ t.pc = "open"
                      \/ s.pc = "stat" /\ t.pc = "free" /\ t.name \in Name
                      \/ s.pc = "free" /\ t.pc \in {"free", "rename"} /\ t.name \in Name
                      \/ s.pc = "rename" /\ t.pc = IF mode.nocompress \/ s.line = 0 THEN "remove" ELSE "pend"
<1> DEFINE s == proc[p]
           t == proc'[p]
           Frame == /\ proc' = [proc EXCEPT ![p] = t] /\ t \in Log
                    /\ t.fd = s.fd /\ t.line = s.line /\ t.lockfd = s.lockfd /\ t.quit = s.quit
           Left == /\ Frame /\ Leave(p) /\ t.fd_lock = 0 /\ t.name = NoName
                   /\ t.pc = IF s.line # 0 THEN "open" ELSE IF s.quit THEN "exit" ELSE "idle"
           Moved(to) == Frame /\ t.fd_lock = s.fd_lock /\ t.pc = to
<1>1. Leave(p) => Left
  BY LeaveIs
<1>2. ASSUME NEW to \in Labels, Goto(p, to)
      PROVE  Moved(to) /\ t.name = s.name
  BY <1>2, GotoIs
<1>3. {"stat", "pend", "topend", "zip", "open", "free", "rename", "remove"} \subseteq Labels
  BY DEF Labels, Logging, Archiving, Archive
<1>4. proc \in [Procs -> Log] /\ s \in Log /\ dir \in [Fixed -> Ino] /\ files \in Seq(File) /\ Target \in Fixed
  BY DEF IndInv, ProcType, DiskType, Target, Fixed
<1>5. CASE archive_leftover(p)
  <2>1. s.pc = "gz" /\ \E to \in {"stat", "pend"} : Goto(p, to)
    BY <1>5 DEF archive_leftover, At
  <2>2. PICK to \in {"stat", "pend"} : Goto(p, to)
    BY <2>1
  <2>3. Moved(to)
    BY <1>2, <1>3, <2>2
  <2>4. QED
    BY <2>1, <2>3 DEF Archive
<1>6. CASE archive_pending(p)
  <2>1. s.pc = "pend" /\ \E to \in {"topend", IF mode.nocompress THEN "stat" ELSE "zip"} : Goto(p, to)
    BY <1>6 DEF archive_pending, At
  <2>2. PICK to \in {"topend", IF mode.nocompress THEN "stat" ELSE "zip"} : Goto(p, to)
    BY <2>1
  <2>3. Moved(to)
    BY <1>2, <1>3, <2>2
  <2>4. QED
    BY <2>1, <2>3 DEF Archive
<1>7. CASE archive_log(p)
  <2> DEFINE to == IF mode.nocompress THEN "stat" ELSE "zip"
  <2>1. s.pc = "topend" /\ (Leave(p) \/ Goto(p, to))
    BY <1>7 DEF archive_log, At
  <2>2. to \in Labels
    BY <1>3
  <2> HIDE DEF to
  <2>3. Left \/ Moved(to)
    BY <1>1, <1>2, <2>1, <2>2
  <2>4. QED
    BY <2>1, <2>3 DEF to, Archive
<1>8. CASE archive_gzip(p)
  <2>1. s.pc = "zip" /\ (Leave(p) \/ Goto(p, "open"))
    BY <1>8 DEF archive_gzip, At
  <2>2. Left \/ Moved("open")
    BY <1>1, <1>2, <1>3, <2>1
  <2>3. QED
    BY <2>1, <2>2 DEF Archive
<1>9. ASSUME NEW n \in {NoName} \cup Name, NEW to \in Labels, proc' = [proc EXCEPT ![p].name = n, ![p].pc = to]
      PROVE  Moved(to) /\ t.name = n
  <2>1. Moves(p, n, to)
    BY <1>4, <1>9 DEF Moves
  <2>2. QED
    BY <2>1, MoveIs
<1>10. CASE getmtime(p)
  <2> DEFINE n == <<files[dir[Target]].mtime, 0>>
  <2>1. s.pc = "stat"
    BY <1>10 DEF getmtime, At
  <2>2. CASE dir[Target] # 0 /\ proc' = [proc EXCEPT ![p].name = n, ![p].pc = "free"]
    <3>1. dir[Target] \in 1 .. Len(files)
      BY <1>4, <2>2 DEF Ino
    <3>2. files[dir[Target]] \in File
      BY <1>4, <3>1
    <3>3. n \in Name
      BY <3>2 DEF File, Name
    <3> HIDE DEF n
    <3>4. Moved("free") /\ t.name = n
      BY <1>3, <1>9, <2>2, <3>3
    <3>5. QED
      BY <2>1, <3>3, <3>4 DEF Archive
  <2>3. CASE Leave(p)
    BY <1>1, <2>1, <2>3 DEF Archive
  <2>4. QED
    BY <1>10, <2>2, <2>3 DEF getmtime
<1>11. CASE archive_name(p)
  <2>1. s.pc = "free" /\ s.name \in Name
    BY <1>11 DEF archive_name, At, IndInv, Flow, FlowOf
  <2>2. CASE Goto(p, "rename")
    BY <1>2, <1>3, <2>1, <2>2 DEF Archive
  <2> DEFINE n == <<s.name[1], s.name[2] + 1>>
  <2>3. CASE proc' = [proc EXCEPT ![p].name = <<@[1], @[2] + 1>>]
    <3>1. n \in Name
      BY <2>1 DEF Name
    <3>2. proc' = [proc EXCEPT ![p] = [proc[p] EXCEPT !.name = n]]
      BY <1>4, <2>3
    <3> HIDE DEF n
    <3>3. [proc[p] EXCEPT !.name = n] = [proc[p] EXCEPT !.name = n, !.pc = "free"]
      BY <1>4, <2>1 DEF Log
    <3>4. Moves(p, n, "free")
      BY <3>2, <3>3 DEF Moves
    <3>5. Moved("free") /\ t.name = n
      BY <1>3, <3>1, <3>4, MoveIs
    <3>6. QED
      BY <2>1, <3>1, <3>5 DEF Archive
  <2>4. QED
    BY <1>11, <2>2, <2>3 DEF archive_name
<1>12. CASE rename_logfile(p)
  <2> DEFINE to == IF mode.nocompress \/ s.line = 0 THEN "remove" ELSE "pend"
  <2>1. s.pc = "rename" /\ (Leave(p) \/ proc' = [proc EXCEPT ![p].name = NoName, ![p].pc = to])
    BY <1>12 DEF rename_logfile, At
  <2>2. to \in Labels
    BY <1>3
  <2> HIDE DEF to
  <2>3. Left \/ Moved(to)
    BY <1>1, <1>9, <2>1, <2>2
  <2>4. QED
    BY <2>1, <2>3 DEF to, Archive
<1>13. CASE remove_oldlog(p)
  <2>1. s.pc = "remove" /\ Leave(p)
    BY <1>13 DEF remove_oldlog, At
  <2>2. QED
    BY <1>1, <2>1 DEF Archive
<1>14. QED
  BY <1>5, <1>6, <1>7, <1>8, <1>10, <1>11, <1>12, <1>13

(* What a process knows, and its gzip.                                     *)
LEMMA ProcStep ==
  ASSUME IndInv, [Next]_vars
  PROVE  proc' \in [Procs -> Log'] /\ gz' \in [Gzips -> Gzip']
<1>1. /\ mode' = mode /\ Ino \subseteq Ino' /\ 0 \in Ino' /\ mode.lines \in Nat
      /\ mode.multi \in BOOLEAN /\ mode.nocompress \in BOOLEAN
  BY SetupFixed, InoGrows, Setup DEF IndInv
<1>2. proc \in [Procs -> Log'] /\ gz \in [Gzips -> Gzip']
  BY <1>1, SetupFixed DEF IndInv, ProcType, Log, Gzip
<1>3. /\ NoGzip \in Gzip' /\ NewGzip \in Gzip' /\ \A g \in Gzips : Ended(g) \in Gzip'
  BY <1>1 DEF NoGzip, NewGzip, Ended, Gzip
<1>4. Closed \in Log' /\ Opened \in Log'
  <2>1. Closed \in Log'
    BY <1>1 DEF Closed, Log, Labels
  <2>2. [Closed EXCEPT !.pc = "idle"] \in Log'
    BY <1>1, <2>1 DEF Log, Labels
  <2>3. QED
    BY <2>1, <2>2 DEF Opened
<1>5. Logging \subseteq Labels /\ Archiving \subseteq Labels /\ {"off", "idle", "exit"} \subseteq Labels
  BY DEF Labels
<1>6. ASSUME NEW p \in Procs, NEW s \in Log', proc' = [proc EXCEPT ![p] = s]
      PROVE  proc' \in [Procs -> Log']
  BY <1>2, <1>6
<1>7. ASSUME NEW p \in Procs, NEW pc \in Labels, Goto(p, pc)
      PROVE  proc' \in [Procs -> Log']
  <2>1. proc' = [proc EXCEPT ![p] = proc'[p]] /\ proc'[p] \in Log
    BY <1>7, GotoIs
  <2>2. Log \subseteq Log'
    BY <1>1, SetupFixed DEF Log
  <2>3. QED
    BY <1>6, <2>1, <2>2
<1>8. ASSUME NEW g \in Gzips, NEW z \in Gzip', gz' = [gz EXCEPT ![g] = z]
      PROVE  gz' \in [Gzips -> Gzip']
  BY <1>2, <1>8
<1>9. \A p \in Procs : p \in Gzips
  BY DEF Gzips
<1>10. files' = Append(files, NewFile) => Len(files) + 1 \in Ino'
  BY InoGrows DEF IndInv, DiskType
<1>27. 0 \in 0 .. mode'.lines
  BY <1>1
<1>11. ASSUME NEW p \in Procs, Reap(p)
       PROVE  proc' \in [Procs -> Log'] /\ gz' \in [Gzips -> Gzip']
  <2>1. "stat" \in Labels
    BY DEF Labels, Archiving, Archive
  <2>2. QED
    BY <1>3, <1>7, <1>8, <1>9, <1>11, <2>1 DEF Reap
<1>12. ASSUME NEW p \in Procs, log_lock(p)
       PROVE  proc' \in [Procs -> Log'] /\ gz' \in [Gzips -> Gzip']
  <2>1. ASSUME NEW f \in Ino', proc' = [proc EXCEPT ![p].pc = "lockf", ![p].lockfd = f]
        PROVE  proc' \in [Procs -> Log']
    <3>1. proc[p] \in Log'
      BY <1>2
    <3>2. [proc[p] EXCEPT !.pc = "lockf", !.lockfd = f] \in Log'
      BY <2>1, <3>1 DEF Log, Labels, Logging
    <3>3. proc' = [proc EXCEPT ![p] = [proc[p] EXCEPT !.pc = "lockf", !.lockfd = f]]
      BY <1>2, <2>1
    <3>4. QED
      BY <1>6, <3>2, <3>3
  <2>2. dir["lock"] \in Ino' /\ Len(files) \in Nat
    BY InoGrows DEF IndInv, DiskType, Fixed
  <2>3. Len(files) + 1 > Len(files)
    BY <2>2
  <2>4. gz' = gz
    BY <1>12 DEF log_lock
  <2>5. FirstStep \in Labels /\ "open" \in Labels
    BY DEF FirstStep, Labels, Logging
  <2>6. CASE Goto(p, FirstStep) \/ Goto(p, "open")
    BY <1>2, <1>7, <2>4, <2>5, <2>6
  <2>7. CASE ~(Goto(p, FirstStep) \/ Goto(p, "open"))
    BY <1>2, <1>10, <1>12, <2>1, <2>2, <2>3, <2>4, <2>7 DEF log_lock
  <2>8. QED
    BY <2>6, <2>7
<1>13. ASSUME NEW p \in Procs, log_lockf(p)
       PROVE  proc' \in [Procs -> Log'] /\ gz' \in [Gzips -> Gzip']
  <2>1. proc[p] \in Log' /\ gz' = gz
    BY <1>2, <1>13 DEF log_lockf
  <2>2. /\ [proc[p] EXCEPT !.lockfd = 0, !.pc = "open"] \in Log'
        /\ \A to \in {"pend", "gz"} :
             [proc[p] EXCEPT !.lockfd = 0, !.fd_lock = proc[p].lockfd, !.pc = to] \in Log'
    BY <1>1, <2>1 DEF Log, Labels, Logging
  <2>3. \/ proc' = [proc EXCEPT ![p] = [proc[p] EXCEPT !.lockfd = 0, !.pc = "open"]]
        \/ \E to \in {"pend", "gz"} :
             proc' = [proc EXCEPT ![p] = [proc[p] EXCEPT !.lockfd = 0, !.fd_lock = proc[p].lockfd, !.pc = to]]
    BY <1>13 DEF log_lockf, FirstStep
  <2>4. QED
    BY <1>2, <1>6, <2>1, <2>2, <2>3
<1>14. ASSUME NEW p \in Procs,
              \/ archive_leftover(p) \/ archive_pending(p) \/ archive_log(p) \/ archive_gzip(p) \/ getmtime(p)
              \/ archive_name(p) \/ rename_logfile(p) \/ remove_oldlog(p)
       PROVE  proc' \in [Procs -> Log'] /\ gz' \in [Gzips -> Gzip']
  <2>1. gz' = gz \/ gz' = [gz EXCEPT ![p] = NewGzip]
    BY <1>14 DEF archive_leftover, archive_pending, archive_log, archive_gzip, getmtime, archive_name,
                 rename_logfile, remove_oldlog
  <2>2. proc' = [proc EXCEPT ![p] = proc'[p]] /\ proc'[p] \in Log
    BY <1>14, StepIs
  <2>3. Log \subseteq Log'
    BY <1>1, SetupFixed DEF Log
  <2>4. QED
    BY <1>2, <1>3, <1>6, <1>8, <1>9, <2>1, <2>2, <2>3
<1>16. ASSUME NEW p \in Procs, write_begin(p)
       PROVE  proc' \in [Procs -> Log'] /\ gz' \in [Gzips -> Gzip']
  <2>1. proc[p] \in Log' /\ proc[p].fd \in Ino /\ proc[p].filesize \in Nat /\ lines \in Nat
    BY <1>1, <1>2 DEF IndInv, ProcType, Log, CountType
  <2>2. proc[p].fd # 0 => Size(proc[p].fd) \in Nat
    BY <2>1, SizeIsNat, InoGrows DEF IndInv
  <2> DEFINE end    == IF proc[p].fd = 0 THEN -1 ELSE Size(proc[p].fd)
             size   == IF proc[p].multi_log /\ proc[p].fd # 0 THEN end ELSE proc[p].filesize
             rotate == size > LogSize /\ gz[p] = NoGzip
             auto   == rotate /\ size < end /\ ~proc[p].multi_log
  <2>3. size \in Nat /\ auto \in BOOLEAN
    BY <2>1, <2>2
  <2>4. lines + 1 \in 0 .. mode.lines
    BY <1>1, <1>16, <2>1 DEF write_begin
  <2>5. proc' = [proc EXCEPT ![p] =
       IF rotate
       THEN [proc[p] EXCEPT !.line = lines + 1, !.multi_log = proc[p].multi_log \/ auto,
                      !.fd = 0, !.filesize = 0, !.pc = "lock"]
       ELSE [proc[p] EXCEPT !.line = lines + 1, !.filesize = size,
                      !.pc = IF proc[p].fd = 0 THEN "open" ELSE "write"]]
    BY <1>16 DEF write_begin
  <2>6. gz' = gz
    BY <1>16 DEF write_begin
  <2> HIDE DEF auto, rotate, size
  <2>7. [proc[p] EXCEPT !.line = lines + 1, !.multi_log = proc[p].multi_log \/ auto,
                      !.fd = 0, !.filesize = 0, !.pc = "lock"] \in Log'
    BY <1>1, <2>1, <2>3, <2>4 DEF Log, Labels, Logging
  <2>8. [proc[p] EXCEPT !.line = lines + 1, !.filesize = size,
                      !.pc = IF proc[p].fd = 0 THEN "open" ELSE "write"] \in Log'
    BY <1>1, <2>1, <2>3, <2>4 DEF Log, Labels, Logging
  <2>9. QED
    BY <1>2, <1>6, <2>5, <2>6, <2>7, <2>8
<1>17. ASSUME NEW p \in Procs, write_open(p)
       PROVE  proc' \in [Procs -> Log'] /\ gz' \in [Gzips -> Gzip']
  <2> DEFINE f    == IF dir["log"] = 0 THEN Len(files) + 1 ELSE dir["log"]
             fail == [proc[p] EXCEPT !.filesize = IF proc[p].tried THEN @ ELSE 0, !.tried = TRUE,
                        !.line = 0, !.pc = "idle"]
             size == IF f > Len(files) THEN 0 ELSE Size(f)
             open == [proc[p] EXCEPT !.fd = f, !.pc = "write", !.filesize = size]
  <2>1. gz' = gz
    BY <1>17 DEF write_open
  <2>2. proc[p] \in Log' /\ dir["log"] \in 0 .. Len(files) /\ Len(files) \in Nat
    BY <1>2, InoGrows DEF IndInv, DiskType, Fixed
  <2>3. fail \in Log'
    <3> DEFINE z == IF proc[p].tried THEN proc[p].filesize ELSE 0
    <3>1. z \in Nat
      BY <2>2 DEF Log
    <3> HIDE DEF z
    <3>2. [proc[p] EXCEPT !.filesize = z, !.tried = TRUE, !.line = 0, !.pc = "idle"] \in Log'
      BY <1>27, <2>2, <3>1 DEF Log, Labels
    <3>3. QED
      BY <3>2 DEF z
  <2>4. \/ proc' = [proc EXCEPT ![p] = fail]
        \/ /\ files' = (IF f > Len(files) THEN Append(files, NewFile) ELSE files)
           /\ proc' = [proc EXCEPT ![p] = open]
    BY <1>17 DEF write_open
  <2>5. ASSUME files' = (IF f > Len(files) THEN Append(files, NewFile) ELSE files)
        PROVE  f \in Ino'
    <3>1. CASE dir["log"] = 0
      BY <1>10, <2>2, <2>5, <3>1
    <3>2. CASE dir["log"] # 0
      BY <2>2, <3>2, InoGrows
    <3>3. QED
      BY <3>1, <3>2
  <2>6. size \in Nat
    <3>1. ~(f > Len(files)) => f \in 1 .. Len(files)
      BY <2>2
    <3>2. QED
      BY <3>1, SizeIsNat DEF IndInv
  <2>7. f \in Ino' => open \in Log'
    <3> HIDE DEF f, size
    <3>1. QED
      BY <1>1, <2>2, <2>6 DEF Log, Labels, Logging
  <2> HIDE DEF open, fail
  <2>8. QED
    BY <1>2, <1>6, <2>1, <2>3, <2>4, <2>5, <2>7
<1>18. ASSUME NEW p \in Procs, write_line(p)
       PROVE  proc' \in [Procs -> Log'] /\ gz' \in [Gzips -> Gzip']
  <2> DEFINE idle == [proc[p] EXCEPT !.line = 0, !.pc = "idle"]
  <2>1. proc[p] \in Log'
    BY <1>2
  <2>2. [idle EXCEPT !.filesize = @ + 1] \in Log' /\ \A fd \in {0, proc[p].fd} : [idle EXCEPT !.fd = fd] \in Log'
    <3>1. idle \in Log'
      BY <1>27, <2>1 DEF Log, Labels
    <3> HIDE DEF idle
    <3>2. [idle EXCEPT !.filesize = @ + 1] \in Log'
      BY <3>1 DEF Log
    <3>3. proc[p].fd \in Ino'
      BY <2>1 DEF Log
    <3>4. QED
      BY <1>1, <3>1, <3>2, <3>3 DEF Log
  <2>3. \/ proc' = [proc EXCEPT ![p] = [idle EXCEPT !.filesize = @ + 1]]
        \/ \E fd \in {0, proc[p].fd} : proc' = [proc EXCEPT ![p] = [idle EXCEPT !.fd = fd]]
    BY <1>18 DEF write_line
  <2>4. gz' = gz
    BY <1>18 DEF write_line
  <2> HIDE DEF idle
  <2>5. QED
    BY <1>2, <1>6, <2>2, <2>3, <2>4
<1>19. ASSUME NEW p \in Procs, wait_pids(p)
       PROVE  proc' \in [Procs -> Log'] /\ gz' \in [Gzips -> Gzip']
  <2>1. CASE Reap(p)
    BY <1>11, <2>1
  <2>2. CASE proc' = [proc EXCEPT ![p].waited = TRUE] /\ gz' = gz
    BY <1>2, <2>2 DEF Log
  <2>3. QED
    BY <1>19, <2>1, <2>2 DEF wait_pids
<1>20. ASSUME NEW p \in Procs, tlog_close(p) \/ tlog_init(p)
       PROVE  proc' \in [Procs -> Log'] /\ gz' \in [Gzips -> Gzip']
  BY <1>2, <1>4, <1>6, <1>11, <1>20 DEF tlog_close, tlog_init
<1>21. ASSUME NEW p \in Procs, tlog_exit(p)
       PROVE  proc' \in [Procs -> Log'] /\ gz' \in [Gzips -> Gzip']
  <2>1. proc[p] \in Log' /\ gz' = gz
    BY <1>2, <1>21 DEF tlog_exit
  <2>2. [proc[p] EXCEPT !.pc = "exit", !.quit = TRUE] \in Log'
    BY <2>1 DEF Log, Labels
  <2>3. proc' = [proc EXCEPT ![p] = [proc[p] EXCEPT !.pc = "exit", !.quit = TRUE]]
    BY <1>2, <1>21 DEF tlog_exit
  <2>4. QED
    BY <1>2, <1>6, <2>1, <2>2, <2>3
<1>22. ASSUME NEW p \in Procs, crash(p)
       PROVE  proc' \in [Procs -> Log'] /\ gz' \in [Gzips -> Gzip']
  BY <1>2, <1>3, <1>4, <1>6, <1>9, <1>22 DEF crash
<1>23. ASSUME NEW g \in Gzips, gzip(g) \/ gzip_fail(g)
       PROVE  proc' \in [Procs -> Log'] /\ gz' \in [Gzips -> Gzip']
  <2>1. proc' = proc
    BY <1>23 DEF gzip, gzip_open, gzip_copy, gzip_unlink, gzip_fail
  <2>2. CASE gzip_open(g)
    <3>1. dir["pending"] \in Ino'
      BY InoGrows DEF IndInv, DiskType, Fixed
    <3>2. Len(files) + 1 \in Ino' => [st |-> "copy", in |-> dir["pending"], out |-> Len(files) + 1] \in Gzip'
      BY <3>1 DEF Gzip
    <3>3. QED
      BY <1>2, <1>3, <1>8, <1>10, <2>1, <2>2, <3>2 DEF gzip_open
  <2>3. CASE gzip_copy(g)
    BY <1>2, <2>1, <2>3 DEF gzip_copy, Gzip
  <2>4. CASE gzip_unlink(g) \/ gzip_fail(g)
    BY <1>2, <1>3, <1>8, <2>1, <2>4 DEF gzip_unlink, gzip_fail
  <2>5. QED
    BY <1>23, <2>2, <2>3, <2>4 DEF gzip
<1>24. CASE tick
  <2>1. \A p \in Procs : [proc[p] EXCEPT !.tried = FALSE, !.waited = FALSE] \in Log'
    BY <1>2 DEF Log
  <2>2. QED
    BY <1>2, <1>24, <2>1 DEF tick
<1>25. CASE UNCHANGED vars
  BY <1>2, <1>25 DEF vars
<1>26. QED
  BY <1>12, <1>13, <1>14, <1>16, <1>17, <1>18, <1>19, <1>20, <1>21, <1>22, <1>23, <1>24, <1>25
  DEF Next, worker, archive_step


(* The latest last write among the archives removed.                       *)
LEMMA CutIs ==
  ASSUME CountType, DiskType, NEW gone, gone \subseteq File
  PROVE  LET S == {f.mtime : f \in {h \in gone : h.lines # {}}} \cup {cut}
         IN  Max(S) \in S /\ (\A y \in S : y <= Max(S)) /\ Max(S) \in 0 .. mode.seconds
<1> DEFINE S == {f.mtime : f \in {h \in gone : h.lines # {}}} \cup {cut}
<1>1. \A f \in gone : f.mtime \in 1 .. mode.seconds
  BY DEF File
<1>2. mode.seconds \in Nat /\ cut \in 0 .. mode.seconds
  BY Setup DEF CountType
<1>3. S \subseteq 0 .. mode.seconds /\ S # {}
  BY <1>1, <1>2
<1>4. QED
  <2> HIDE DEF S
  <2>1. Max(S) \in S /\ \A y \in S : y <= Max(S)
    BY <1>2, <1>3, GreatestExists
  <2>2. QED
    BY <1>3, <2>1 DEF S

(* Counters and history.                                                   *)
LEMMA CountStep ==
  ASSUME IndInv, [Next]_vars
  PROVE  CountType'
<1>1. /\ mode' = mode /\ Lines' = Lines /\ CountType
      /\ mode.seconds \in Nat \ {0} /\ mode.lines \in Nat /\ mode.crashes \in Nat
      /\ mode.exits \in Nat /\ mode.faults \in Nat
  BY SetupFixed, Setup DEF IndInv
<1>2. /\ mode \in Setups /\ now \in 1 .. mode.seconds /\ crashes \in 0 .. mode.crashes
      /\ exits \in 0 .. mode.exits /\ faults \in 0 .. mode.faults /\ lines \in 0 .. mode.lines
      /\ written \subseteq Lines /\ removed \subseteq Lines /\ late \subseteq Lines /\ replaced \subseteq Lines
      /\ cut \in 0 .. mode.seconds /\ alone \in BOOLEAN /\ shared \in BOOLEAN /\ overlap \in BOOLEAN
  BY <1>1 DEF CountType
<1>3. CASE UNCHANGED <<now, budget, lines, history>>
  BY <1>1, <1>2, <1>3 DEF CountType, budget, history, together
<1>4. Fault => faults' \in 0 .. mode.faults
  BY <1>1, <1>2 DEF Fault
<1>17. ASSUME NEW p \in Procs, Enter(p)
       PROVE  shared' \in BOOLEAN
  BY <1>17, Zenon DEF Enter
<1>18. ASSUME Disturbed
       PROVE  overlap' \in BOOLEAN
  BY <1>18, Zenon DEF Disturbed
<1>19. ASSUME NEW f \in Ino
       PROVE  LinesIn(f) \subseteq Lines
  <2>1. CASE f = 0
    BY <2>1 DEF LinesIn
  <2>2. CASE f # 0
    <3>1. f \in 1 .. Len(files) /\ files \in Seq(File)
      BY <2>2 DEF Ino, IndInv, DiskType
    <3>2. files[f] \in File
      BY <3>1
    <3>3. QED
      BY <2>2, <3>2 DEF LinesIn, File
  <2>3. QED
    BY <2>1, <2>2
<1>5. ASSUME NEW p \in Procs, archive_leftover(p) \/ archive_pending(p) \/ archive_name(p)
      PROVE  CountType'
  BY <1>3, <1>5 DEF archive_leftover, archive_pending, archive_name
<1>20. ASSUME NEW p \in Procs, log_lock(p) \/ log_lockf(p) \/ wait_pids(p) \/ tlog_close(p)
       PROVE  CountType'
  <2>1. shared' = shared \/ Enter(p)
    BY <1>20 DEF log_lock, log_lockf, wait_pids, tlog_close, Reap
  <2>2. /\ UNCHANGED <<now, crashes, exits, lines, written, removed, late, cut, alone, replaced, overlap>>
        /\ faults' \in 0 .. mode.faults
    BY <1>2, <1>4, <1>20 DEF log_lock, log_lockf, wait_pids, tlog_close, budget
  <2>3. shared' \in BOOLEAN
    BY <1>2, <1>17, <2>1
  <2>4. QED
    BY <1>1, <1>2, <2>2, <2>3 DEF CountType
<1>6. ASSUME NEW p \in Procs, archive_log(p) \/ archive_gzip(p) \/ getmtime(p) \/ rename_logfile(p)
      PROVE  CountType'
  <2>1. overlap' \in BOOLEAN
    <3>1. \/ Disturbed
          \/ overlap' = (overlap \/ \E g \in Gzips : gz[g] # NoGzip)
          \/ overlap' = overlap
      BY <1>6 DEF archive_log, archive_gzip, getmtime, rename_logfile, history, together
    <3>2. QED
      BY <1>2, <1>18, <3>1, Zenon
  <2>2. /\ UNCHANGED <<now, crashes, exits, lines, written, removed, late, cut, alone, shared>>
        /\ faults' \in 0 .. mode.faults
    BY <1>2, <1>4, <1>6 DEF archive_log, archive_gzip, getmtime, rename_logfile, history, together
  <2>3. dir["pending"] \in Ino /\ \A n \in DOMAIN archive : archive[n] \in Ino
    BY DEF IndInv, DiskType, Fixed
  <2>4. \/ replaced' = replaced
        \/ replaced' = replaced \cup LinesIn(dir["pending"])
        \/ replaced' = replaced \cup LinesIn(IF proc[p].name \in DOMAIN archive THEN archive[proc[p].name] ELSE 0)
    BY <1>6 DEF archive_log, archive_gzip, getmtime, rename_logfile, history, together
  <2>5. 0 \in Ino
    BY InoGrows
  <2>6. replaced' \subseteq Lines
    BY <1>2, <1>19, <2>3, <2>4, <2>5
  <2>7. QED
    BY <1>1, <1>2, <2>1, <2>2, <2>6 DEF CountType
<1>7. ASSUME NEW p \in Procs, remove_oldlog(p)
      PROVE  CountType'
  <2>7. PICK k \in 0 .. Excess : \E R \in Oldest(k) :
          LET gone == {files[archive[n]] : n \in R}
          IN  /\ faults' = faults \/ Fault
              /\ removed' = removed \cup ((UNION {f.lines : f \in gone}) \ Procs)
              /\ cut' = Max({f.mtime : f \in {h \in gone : h.lines # {}}} \cup {cut})
    BY <1>7 DEF remove_oldlog
  <2>1. PICK R \in Oldest(k) :
          LET gone == {files[archive[n]] : n \in R}
          IN  /\ faults' = faults \/ Fault
              /\ removed' = removed \cup ((UNION {f.lines : f \in gone}) \ Procs)
              /\ cut' = Max({f.mtime : f \in {h \in gone : h.lines # {}}} \cup {cut})
    BY <2>7
  <2> DEFINE gone == {files[archive[n]] : n \in R}
  <2>2. gone \subseteq File
    <3>1. \A n \in DOMAIN archive : archive[n] \in 1 .. Len(files)
      BY DEF IndInv, DiskType, Ino
    <3>2. R \subseteq DOMAIN archive
      BY DEF Oldest
    <3>3. QED
      BY <3>1, <3>2 DEF IndInv, DiskType
  <2>3. (UNION {f.lines : f \in gone}) \ Procs \subseteq Lines
    <3>1. \A f \in gone : f.lines \subseteq Lines \cup Procs
      BY <2>2 DEF File
    <3> HIDE DEF gone
    <3>2. ASSUME NEW x \in UNION {f.lines : f \in gone}
          PROVE  x \in Lines \cup Procs
      <4>1. PICK f \in gone : x \in f.lines
        OBVIOUS
      <4>2. QED
        BY <3>1, <4>1
    <3> DEFINE U == UNION {f.lines : f \in gone}
    <3>3. \A x \in U : x \in Lines \cup Procs
      BY <3>2
    <3> HIDE DEF U
    <3>4. U \ Procs \subseteq Lines
      BY <3>3
    <3>5. QED
      BY <3>4 DEF U
  <2>4. cut' \in 0 .. mode.seconds
    BY <2>1, <2>2, CutIs DEF IndInv
  <2>5. /\ UNCHANGED <<now, crashes, exits, lines, written, late, alone, replaced, shared, overlap>>
        /\ faults' \in 0 .. mode.faults
    BY <1>2, <1>4, <1>7, <2>1 DEF remove_oldlog, together
  <2>6. QED
    BY <1>1, <1>2, <2>1, <2>3, <2>4, <2>5 DEF CountType
<1>8. ASSUME NEW p \in Procs, write_begin(p)
      PROVE  CountType'
  <2>1. lines' \in 0 .. mode.lines /\ UNCHANGED <<now, budget, history>>
    BY <1>1, <1>2, <1>8 DEF write_begin
  <2>2. QED
    BY <1>1, <1>2, <2>1 DEF CountType, budget, history, together
<1>9. ASSUME NEW p \in Procs, write_open(p)
      PROVE  CountType'
  <2>1. faults' \in 0 .. mode.faults /\ UNCHANGED <<now, crashes, exits, lines, history>>
    BY <1>2, <1>4, <1>9 DEF write_open
  <2>2. QED
    BY <1>1, <1>2, <2>1 DEF CountType, history, together
<1>10. ASSUME NEW p \in Procs, write_line(p)
       PROVE  CountType'
  <2>1. proc[p].line \in Lines
    <3>1. proc[p].line \in 0 .. mode.lines /\ proc[p].line # 0
      BY <1>10 DEF IndInv, ProcType, Log, Flow, FlowOf, write_line, At, Logging
    <3>2. QED
      BY <1>1, <3>1 DEF Lines
  <2>2. /\ faults' \in 0 .. mode.faults /\ written' \subseteq Lines /\ late' \subseteq Lines
        /\ UNCHANGED <<now, crashes, exits, lines, removed, cut, alone, replaced, shared, overlap>>
    BY <1>2, <1>4, <1>10, <2>1 DEF write_line, together
  <2>3. QED
    BY <1>1, <1>2, <2>2 DEF CountType
<1>11. ASSUME NEW p \in Procs, tlog_init(p)
       PROVE  CountType'
  <2>1. alone' \in BOOLEAN
    <3>1. alone' = (alone /\ \A q \in Procs : At(q, "off"))
      BY <1>11 DEF tlog_init
    <3>2. QED
      BY <1>2, <3>1, Zenon
  <2>2. UNCHANGED <<now, budget, lines, written, removed, late, cut, replaced, shared, overlap>>
    BY <1>11 DEF tlog_init, together
  <2>3. QED
    BY <1>1, <1>2, <2>1, <2>2 DEF CountType, budget
<1>12. ASSUME NEW p \in Procs, tlog_exit(p) \/ crash(p)
       PROVE  CountType'
  <2>1. /\ exits' \in 0 .. mode.exits /\ crashes' \in 0 .. mode.crashes
        /\ UNCHANGED <<now, faults, lines, history>>
    BY <1>1, <1>2, <1>12 DEF tlog_exit, crash
  <2>2. QED
    BY <1>1, <1>2, <2>1 DEF CountType, history, together
<1>13. ASSUME NEW g \in Gzips, gzip(g) \/ gzip_fail(g)
       PROVE  CountType'
  <2>1. faults' \in 0 .. mode.faults /\ UNCHANGED <<now, crashes, exits, lines, history>>
    BY <1>2, <1>4, <1>13 DEF gzip, gzip_open, gzip_copy, gzip_unlink, gzip_fail, budget
  <2>2. QED
    BY <1>1, <1>2, <2>1 DEF CountType, history, together
<1>14. CASE tick
  <2>1. now' \in 1 .. mode.seconds /\ UNCHANGED <<budget, lines, history>>
    <3>1. UNCHANGED <<budget, lines, history>> /\ now' = IF now < mode.seconds THEN now + 1 ELSE now
      BY <1>14 DEF tick
    <3>2. QED
      BY <1>1, <1>2, <3>1
  <2>2. QED
    BY <1>1, <1>2, <2>1 DEF CountType, budget, history, together
<1>15. CASE UNCHANGED vars
  BY <1>3, <1>15 DEF vars
<1>16. QED
  BY <1>5, <1>6, <1>7, <1>8, <1>9, <1>10, <1>11, <1>12, <1>13, <1>14, <1>15, <1>20 DEF Next, worker, archive_step


-----------------------------------------------------------------------------
(* What a process holds.                                                   *)

(* The steps a process takes itself change what it knows, nothing of the   *)
(* others.                                                                 *)
LEMMA OwnStep ==
  ASSUME IndInv, [Next]_vars, NEW p \in Procs,
         worker(p) \/ write_begin(p) \/ tlog_init(p) \/ tlog_exit(p) \/ crash(p)
  PROVE  /\ \A q \in Procs \ {p} : proc'[q] = proc[q] /\ gz'[q] = gz[q]
         /\ proc' = [proc EXCEPT ![p] = proc'[p]]
<1>1. proc \in [Procs -> Log] /\ gz \in [Gzips -> Gzip] /\ \A q \in Procs : q \in Gzips
  BY DEF IndInv, ProcType, Gzips
<1>2. \E s : proc' = [proc EXCEPT ![p] = s]
  <2>1. CASE log_lock(p) \/ log_lockf(p)
    BY <1>1, <2>1 DEF log_lock, log_lockf, Goto
  <2>2. CASE \/ archive_leftover(p) \/ archive_pending(p) \/ archive_log(p) \/ archive_gzip(p) \/ getmtime(p)
             \/ archive_name(p) \/ rename_logfile(p) \/ remove_oldlog(p)
    BY <2>2, StepIs
  <2>3. CASE write_begin(p) \/ write_open(p)
    BY <2>3 DEF write_begin, write_open
  <2>4. CASE write_line(p)
    BY <2>4 DEF write_line
  <2>5. CASE wait_pids(p) \/ tlog_close(p)
    BY <1>1, <2>5 DEF wait_pids, tlog_close, Reap, Goto
  <2>6. CASE tlog_init(p) \/ tlog_exit(p) \/ crash(p)
    BY <1>1, <2>6 DEF tlog_init, tlog_exit, crash
  <2>7. QED
    BY <2>1, <2>2, <2>3, <2>4, <2>5, <2>6 DEF worker, archive_step
<1>3. ASSUME NEW q \in Procs \ {p}
      PROVE  gz'[q] = gz[q]
  <2>1. crash(p) => q # crashes + 1
    BY Setup DEF IndInv, CountType
  <2>2. CASE crash(p)
    BY <1>1, <2>1, <2>2 DEF crash
  <2>3. CASE archive_gzip(p) \/ wait_pids(p) \/ tlog_close(p)
    BY <1>1, <2>3 DEF archive_gzip, wait_pids, tlog_close, Reap
  <2>4. CASE \/ log_lock(p) \/ log_lockf(p) \/ archive_leftover(p) \/ archive_pending(p) \/ archive_log(p)
             \/ getmtime(p) \/ archive_name(p) \/ rename_logfile(p) \/ remove_oldlog(p)
             \/ write_begin(p) \/ write_open(p) \/ write_line(p) \/ tlog_init(p) \/ tlog_exit(p)
    BY <2>4 DEF log_lock, log_lockf, archive_leftover, archive_pending, archive_log, getmtime, archive_name,
                rename_logfile, remove_oldlog, write_begin, write_open, write_line, tlog_init, tlog_exit
  <2>5. QED
    BY <2>2, <2>3, <2>4 DEF worker, archive_step
<1>4. QED
  BY <1>1, <1>2, <1>3

(* So Flow is about the process that takes the step.                       *)
LEMMA FlowFrame ==
  ASSUME IndInv, [Next]_vars, NEW p \in Procs,
         worker(p) \/ write_begin(p) \/ tlog_init(p) \/ tlog_exit(p) \/ crash(p),
         FlowOf(p)'
  PROVE  Flow'
<1>1. mode' = mode
  BY SetupFixed
<1>2. ASSUME NEW q \in Procs \ {p}
      PROVE  FlowOf(q)'
  <2>1. proc'[q] = proc[q] /\ gz'[q] = gz[q] /\ NoGzip' = NoGzip
    BY OwnStep DEF NoGzip
  <2>2. QED
    BY <1>1, <2>1, SetupFixed DEF IndInv, Flow, FlowOf
<1>3. QED
  BY <1>2 DEF Flow


(* The log is opened, or made, or not.                                     *)
LEMMA OpenIs ==
  ASSUME IndInv, NEW p \in Procs, write_open(p)
  PROVE  /\ proc'[p].fd_lock = proc[p].fd_lock /\ proc'[p].lockfd = proc[p].lockfd
         /\ \/ /\ UNCHANGED disk
               /\ proc'[p].pc = "idle" /\ proc'[p].fd = proc[p].fd /\ proc'[p].line = 0
            \/ LET f == IF dir["log"] = 0 THEN Len(files) + 1 ELSE dir["log"]
               IN  /\ files' = IF f > Len(files) THEN Append(files, NewFile) ELSE files
                   /\ dir' = [dir EXCEPT !["log"] = f] /\ archive' = archive
                   /\ proc'[p].pc = "write" /\ proc'[p].fd = f /\ proc'[p].line = proc[p].line
<1> DEFINE f    == IF dir["log"] = 0 THEN Len(files) + 1 ELSE dir["log"]
           z    == IF proc[p].tried THEN proc[p].filesize ELSE 0
           fail == [proc[p] EXCEPT !.filesize = z, !.tried = TRUE, !.line = 0, !.pc = "idle"]
           size == IF f > Len(files) THEN 0 ELSE Size(f)
           open == [proc[p] EXCEPT !.fd = f, !.pc = "write", !.filesize = size]
<1>1. proc \in [Procs -> Log] /\ proc[p] \in Log
  BY DEF IndInv, ProcType
<1>2. \/ UNCHANGED disk /\ proc' = [proc EXCEPT ![p] = fail]
      \/ /\ files' = IF f > Len(files) THEN Append(files, NewFile) ELSE files
         /\ dir' = [dir EXCEPT !["log"] = f] /\ archive' = archive
         /\ proc' = [proc EXCEPT ![p] = open]
  BY DEF write_open
<1> HIDE DEF f, z, size
<1>3. /\ fail.fd_lock = proc[p].fd_lock /\ fail.lockfd = proc[p].lockfd
      /\ fail.pc = "idle" /\ fail.fd = proc[p].fd /\ fail.line = 0
  BY <1>1 DEF Log
<1>4. /\ open.fd_lock = proc[p].fd_lock /\ open.lockfd = proc[p].lockfd
      /\ open.pc = "write" /\ open.fd = f /\ open.line = proc[p].line
  BY <1>1 DEF Log
<1> HIDE DEF fail, open
<1>5. QED
  BY <1>1, <1>2, <1>3, <1>4 DEF f

(* The line is written, or not.                                            *)
LEMMA WriteIs ==
  ASSUME IndInv, NEW p \in Procs, write_line(p)
  PROVE  LET s == proc[p]
         IN  /\ s.pc = "write" /\ s.fd \in 1 .. Len(files) /\ s.line \in Lines
             /\ proc'[p].pc = "idle" /\ proc'[p].line = 0
             /\ proc'[p].fd_lock = s.fd_lock /\ proc'[p].lockfd = s.lockfd
             /\ \/ /\ files' = [files EXCEPT ![s.fd] = [lines |-> @.lines \cup {s.line}, mtime |-> now]]
                   /\ proc'[p].fd = s.fd
                   /\ written' = written \cup {s.line}
                   /\ late' = IF dir["log"] = s.fd THEN late ELSE late \cup {s.line}
                   /\ faults' = faults
                \/ /\ UNCHANGED <<files, written, late>>
                   /\ proc'[p].fd \in {0, s.fd}
                   /\ Fault
<1> DEFINE idle == [proc[p] EXCEPT !.line = 0, !.pc = "idle"]
           ok   == [idle EXCEPT !.filesize = @ + 1]
<1>1. proc \in [Procs -> Log] /\ proc[p] \in Log
  BY DEF IndInv, ProcType
<1>2. proc[p].pc = "write" /\ proc[p].fd # 0 /\ proc[p].line # 0
  BY DEF IndInv, Flow, FlowOf, write_line, At, Logging
<1>3. proc[p].fd \in 1 .. Len(files) /\ proc[p].line \in Lines
  <2>1. mode.lines \in Nat /\ Len(files) \in Nat
    BY Setup DEF IndInv, DiskType
  <2>2. proc[p].fd \in 0 .. Len(files) /\ proc[p].line \in 0 .. mode.lines
    BY <1>1 DEF Log, Ino
  <2>3. QED
    BY <1>2, <2>1, <2>2 DEF Lines
<1>4. /\ idle.pc = "idle" /\ idle.line = 0 /\ idle.fd_lock = proc[p].fd_lock
      /\ idle.lockfd = proc[p].lockfd /\ idle.fd = proc[p].fd /\ idle \in Log
  <2>1. 0 \in 0 .. mode.lines
    BY Setup DEF IndInv
  <2>2. QED
    BY <1>1, <2>1 DEF Log, Labels
<1>5. \/ /\ files' = [files EXCEPT ![proc[p].fd] = [lines |-> @.lines \cup {proc[p].line}, mtime |-> now]]
         /\ proc' = [proc EXCEPT ![p] = ok]
         /\ written' = written \cup {proc[p].line}
         /\ late' = IF dir["log"] = proc[p].fd THEN late ELSE late \cup {proc[p].line}
         /\ faults' = faults
      \/ /\ UNCHANGED <<files, written, late>>
         /\ \E fd \in {0, proc[p].fd} : proc' = [proc EXCEPT ![p] = [idle EXCEPT !.fd = fd]]
         /\ Fault
  BY DEF write_line
<1> HIDE DEF idle
<1>6. /\ ok.pc = "idle" /\ ok.line = 0 /\ ok.fd_lock = proc[p].fd_lock
      /\ ok.lockfd = proc[p].lockfd /\ ok.fd = proc[p].fd
  BY <1>4 DEF Log
<1>7. ASSUME NEW fd, proc' = [proc EXCEPT ![p] = [idle EXCEPT !.fd = fd]]
      PROVE  /\ proc'[p].pc = "idle" /\ proc'[p].line = 0 /\ proc'[p].fd_lock = proc[p].fd_lock
             /\ proc'[p].lockfd = proc[p].lockfd /\ proc'[p].fd = fd
  BY <1>1, <1>4, <1>7 DEF Log
<1> HIDE DEF ok
<1>8. QED
  BY <1>1, <1>2, <1>3, <1>5, <1>6, <1>7

(* A line is begun, the size is looked at.                                 *)
LEMMA BeginIs ==
  ASSUME IndInv, NEW p \in Procs, write_begin(p)
  PROVE  LET s == proc[p]
         IN  /\ s.pc = "idle" /\ lines < mode.lines /\ lines' = lines + 1
             /\ proc'[p].line = lines + 1
             /\ proc'[p].fd_lock = s.fd_lock /\ proc'[p].lockfd = s.lockfd
             /\ \/ proc'[p].pc = "lock" /\ proc'[p].fd = 0 /\ gz[p] = NoGzip
                \/ proc'[p].pc \in {"open", "write"} /\ proc'[p].fd = s.fd
             /\ \/ files' = files
                \/ /\ s.fd \in 1 .. Len(files)
                   /\ files' = [files EXCEPT ![s.fd] = [lines |-> @.lines \cup {p}, mtime |-> now]]
<1> DEFINE s      == proc[p]
           end    == IF s.fd = 0 THEN -1 ELSE Size(s.fd)
           size   == IF s.multi_log /\ s.fd # 0 THEN end ELSE s.filesize
           rotate == size > LogSize /\ gz[p] = NoGzip
           auto   == rotate /\ size < end /\ ~s.multi_log
           lock   == [s EXCEPT !.line = lines + 1, !.multi_log = s.multi_log \/ auto,
                               !.fd = 0, !.filesize = 0, !.pc = "lock"]
           to     == IF s.fd = 0 THEN "open" ELSE "write"
           go     == [s EXCEPT !.line = lines + 1, !.filesize = size, !.pc = to]
<1>1. proc \in [Procs -> Log] /\ proc[p] \in Log
  BY DEF IndInv, ProcType
<1>2. /\ s.pc = "idle" /\ lines < mode.lines /\ lines' = lines + 1
      /\ files' = IF auto
                  THEN [files EXCEPT ![s.fd] = [lines |-> @.lines \cup {p}, mtime |-> now]]
                  ELSE files
      /\ proc' = [proc EXCEPT ![p] = IF rotate THEN lock ELSE go]
  BY DEF write_begin, At
<1>3. auto => s.fd \in 1 .. Len(files)
  <2>1. s.fd \in 0 .. Len(files) /\ s.filesize \in Nat /\ Len(files) \in Nat
    BY <1>1 DEF Log, Ino, IndInv, DiskType
  <2>2. s.fd = 0 => ~(s.filesize < -1)
    BY <2>1
  <2>3. s.fd = 0 => ~auto
    BY <2>2
  <2>4. QED
    BY <2>1, <2>3
<1> HIDE DEF end, size, rotate, auto
<1>4. /\ lock.line = lines + 1 /\ lock.fd_lock = s.fd_lock /\ lock.lockfd = s.lockfd
      /\ lock.pc = "lock" /\ lock.fd = 0
  BY <1>1 DEF Log
<1>5. /\ go.line = lines + 1 /\ go.fd_lock = s.fd_lock /\ go.lockfd = s.lockfd
      /\ go.pc = to /\ go.fd = s.fd
  BY <1>1 DEF Log
<1>6. rotate => gz[p] = NoGzip
  BY DEF rotate
<1> HIDE DEF lock, go
<1>7. QED
  BY <1>1, <1>2, <1>3, <1>4, <1>5, <1>6

(* The labels, the open file, the line and the gzip go together.           *)
LEMMA FlowStep ==
  ASSUME IndInv, [Next]_vars
  PROVE  Flow'
<1>1. mode' = mode /\ mode.nocompress \in BOOLEAN
  BY SetupFixed, Setup DEF IndInv
<1>2. proc \in [Procs -> Log] /\ gz \in [Gzips -> Gzip] /\ Flow /\ \A q \in Procs : q \in Gzips
  BY DEF IndInv, ProcType, Gzips
<1>3. ASSUME NEW p \in Procs
      PROVE  proc[p] \in Log /\ FlowOf(p)
  BY <1>2 DEF Flow
<1>4. /\ Name' = Name /\ NoGzip' = NoGzip
      /\ FirstStep = (IF mode.nocompress THEN "pend" ELSE "gz")
      /\ FirstStep \in Labels /\ "open" \in Labels
  BY SetupFixed DEF NoGzip, FirstStep, Labels, Logging
<1>5. ASSUME NEW p \in Procs, gz'[p] = gz[p] \/ proc'[p].pc = "open",
             proc'[p].line = proc[p].line, proc'[p].fd = proc[p].fd,
             proc[p].pc \in {"lock", "lockf", "gz", "pend", "topend", "zip"},
             \/ proc'[p].pc \in {"open", "pend", "topend", "lockf"}
             \/ ~mode.nocompress /\ proc'[p].pc \in {"gz", "zip", "stat"}
             \/ mode.nocompress /\ proc'[p].pc = "stat"
      PROVE  FlowOf(p)'
  BY <1>1, <1>3, <1>4, <1>5 DEF FlowOf, Logging, Archiving, Archive, Naming
<1>6. ASSUME NEW p \in Procs, log_lock(p)
      PROVE  FlowOf(p)'
  <2>1. /\ proc[p].pc = "lock" /\ gz' = gz /\ proc'[p].line = proc[p].line /\ proc'[p].fd = proc[p].fd
        /\ proc'[p].pc \in {"lockf", "open", IF mode.nocompress THEN "pend" ELSE "gz"}
    BY <1>2, <1>4, <1>6 DEF log_lock, At, Log, Goto
  <2>2. QED
    BY <1>1, <1>5, <2>1
<1>7. ASSUME NEW p \in Procs, log_lockf(p)
      PROVE  FlowOf(p)'
  <2>1. /\ proc[p].pc = "lockf" /\ gz' = gz /\ proc'[p].line = proc[p].line /\ proc'[p].fd = proc[p].fd
        /\ proc'[p].pc \in {"open", IF mode.nocompress THEN "pend" ELSE "gz"}
    <3>1. \/ proc' = [proc EXCEPT ![p] = [proc[p] EXCEPT !.lockfd = 0, !.pc = "open"]]
          \/ proc' = [proc EXCEPT ![p] = [proc[p] EXCEPT !.lockfd = 0, !.fd_lock = proc[p].lockfd, !.pc = FirstStep]]
      BY <1>7 DEF log_lockf
    <3>2. proc'[p].line = proc[p].line /\ proc'[p].fd = proc[p].fd /\ proc'[p].pc \in {"open", FirstStep}
      BY <1>2, <3>1 DEF Log
    <3>3. QED
      BY <1>4, <1>7, <3>2 DEF log_lockf, At
  <2>2. QED
    BY <1>1, <1>5, <2>1
<1>8. ASSUME NEW p \in Procs,
             \/ archive_leftover(p) \/ archive_pending(p) \/ archive_log(p) \/ archive_gzip(p) \/ getmtime(p)
             \/ archive_name(p) \/ rename_logfile(p) \/ remove_oldlog(p)
      PROVE  FlowOf(p)'
  <2> DEFINE s == proc[p]
             t == proc'[p]
  <2>1. t.fd = s.fd /\ t.line = s.line /\ s.pc \in Archive
    BY <1>8, StepIs
  <2>2. \/ t.pc = IF s.line # 0 THEN "open" ELSE IF s.quit THEN "exit" ELSE "idle"
        \/ s.pc = "gz" /\ t.pc \in {"stat", "pend"}
        \/ s.pc = "pend" /\ t.pc \in {"topend", IF mode.nocompress THEN "stat" ELSE "zip"}
        \/ s.pc = "topend" /\ t.pc = IF mode.nocompress THEN "stat" ELSE "zip"
        \/ s.pc = "zip" /\ t.pc = "open"
        \/ s.pc = "stat" /\ t.pc = "free" /\ t.name \in Name
        \/ s.pc = "free" /\ t.pc \in {"free", "rename"} /\ t.name \in Name
        \/ s.pc = "rename" /\ t.pc = IF mode.nocompress \/ s.line = 0 THEN "remove" ELSE "pend"
    BY <1>8, StepIs
  <2>3. gz'[p] = gz[p] \/ t.pc = "open"
    <3>1. CASE gz' = gz
      BY <3>1
    <3>2. CASE archive_gzip(p) /\ Goto(p, "open")
      BY <1>4, <3>2, GotoIs
    <3>3. QED
      BY <1>8, <3>1, <3>2 DEF archive_leftover, archive_pending, archive_log, archive_gzip, getmtime, archive_name,
                              rename_logfile, remove_oldlog
  <2>4. FlowOf(p) /\ s.pc \in Archiving
    BY <1>3, <2>1 DEF Archiving
  <2>5. CASE t.pc \in {"open", "exit", "idle"} /\ (t.pc = "open" <=> s.line # 0)
    BY <1>1, <1>4, <2>1, <2>3, <2>4, <2>5 DEF FlowOf, Logging, Archiving, Archive, Naming
  <2>6. CASE s.pc \in {"gz", "pend", "topend", "zip"} /\ t.pc \in {"open", "pend", "topend", "zip", "stat"}
    BY <1>1, <1>5, <2>1, <2>2, <2>3, <2>6
  <2>7. CASE /\ s.pc \in {"stat", "free", "rename"} /\ t.pc \in {"free", "rename", "remove", "pend"}
             /\ t.pc \in {"free", "rename"} => t.name \in Name
             /\ t.pc = "pend" => ~mode.nocompress /\ s.line # 0
    BY <1>1, <1>4, <2>1, <2>3, <2>4, <2>7 DEF FlowOf, Logging, Archiving, Archive, Naming
  <2>8. QED
    BY <2>2, <2>5, <2>6, <2>7
<1>11. ASSUME NEW p \in Procs, write_begin(p)
       PROVE  FlowOf(p)'
  <2>1. /\ gz' = gz /\ proc'[p].line = lines + 1 /\ proc[p].pc = "idle"
        /\ \/ proc'[p].pc = "lock" /\ proc'[p].fd = 0 /\ gz[p] = NoGzip
           \/ proc'[p].pc = "open" /\ proc'[p].fd = proc[p].fd /\ proc[p].fd = 0
           \/ proc'[p].pc = "write" /\ proc'[p].fd = proc[p].fd /\ proc[p].fd # 0
    BY <1>2, <1>11 DEF write_begin, At, Log
  <2>2. lines + 1 # 0
    BY Setup DEF IndInv, CountType
  <2>3. QED
    BY <1>1, <1>4, <2>1, <2>2 DEF FlowOf, Logging, Archiving, Archive, Naming
<1>12. ASSUME NEW p \in Procs, write_open(p)
       PROVE  FlowOf(p)'
  <2>1. gz' = gz /\ proc[p].pc = "open"
    BY <1>12 DEF write_open, At
  <2>2. \/ proc'[p].pc = "idle" /\ proc'[p].line = 0
        \/ /\ proc'[p].pc = "write" /\ proc'[p].line = proc[p].line
           /\ proc'[p].fd = IF dir["log"] = 0 THEN Len(files) + 1 ELSE dir["log"]
    BY <1>12, OpenIs
  <2>3. Len(files) + 1 # 0
    BY InoGrows
  <2>4. CASE proc'[p].pc = "idle" /\ proc'[p].line = 0
    BY <1>1, <2>4 DEF FlowOf, Logging, Archiving, Archive, Naming
  <2>5. ASSUME proc'[p].pc = "write"
        PROVE  proc'[p].fd # 0 /\ proc'[p].line # 0
    <3>1. proc[p].line # 0
      BY <1>3, <2>1 DEF FlowOf, Logging
    <3>2. QED
      BY <2>2, <2>3, <2>5, <3>1
  <2>6. CASE proc'[p].pc = "write"
    BY <1>1, <2>5, <2>6 DEF FlowOf, Logging, Archiving, Archive, Naming
  <2>7. QED
    BY <2>2, <2>4, <2>6
<1>13. ASSUME NEW p \in Procs, write_line(p)
       PROVE  FlowOf(p)'
  <2>1. proc'[p].pc = "idle" /\ proc'[p].line = 0
    BY <1>13, WriteIs
  <2>2. QED
    BY <1>1, <2>1 DEF FlowOf, Logging, Archiving, Archive, Naming
<1>14. ASSUME NEW p \in Procs, wait_pids(p) \/ tlog_close(p)
       PROVE  FlowOf(p)'
  <2>1. ASSUME Reap(p), gz[p].st = "done", proc[p].pc \in {"idle", "exit"}
        PROVE  FlowOf(p)'
    <3>1. ~mode.nocompress /\ proc[p].line = 0
      BY <1>2, <1>3, <2>1 DEF IndInv, GzipFlow, NoGzip, FlowOf
    <3>2. proc'[p].pc = "stat" /\ proc'[p].line = proc[p].line /\ gz'[p] = NoGzip
      BY <1>2, <2>1 DEF Reap, Goto, Log
    <3>3. QED
      BY <1>1, <1>4, <3>1, <3>2 DEF FlowOf, Logging, Archiving, Archive, Naming
  <2>2. CASE proc' = [proc EXCEPT ![p].waited = TRUE] /\ proc[p].pc = "idle"
    <3>1. proc'[p].pc = "idle" /\ proc'[p].line = 0
      BY <1>2, <1>3, <2>2 DEF Log, FlowOf
    <3>2. QED
      BY <1>1, <3>1 DEF FlowOf, Logging, Archiving, Archive, Naming
  <2>3. CASE proc' = [proc EXCEPT ![p] = Closed] /\ gz[p] = NoGzip /\ gz' = gz
    <3>1. proc'[p].pc = "off" /\ proc'[p].fd = 0
      BY <1>2, <2>3 DEF Closed
    <3>2. QED
      BY <1>1, <1>4, <2>3, <3>1 DEF FlowOf, Logging, Archiving, Archive, Naming
  <2>4. QED
    BY <1>14, <2>1, <2>2, <2>3 DEF wait_pids, tlog_close, At
<1>15. ASSUME NEW p \in Procs, tlog_init(p) \/ tlog_exit(p)
       PROVE  FlowOf(p)'
  <2>1. proc'[p].pc \in {"idle", "exit"} /\ proc'[p].line = 0
    <3>1. CASE tlog_init(p)
      BY <1>2, <3>1 DEF tlog_init, Opened, Closed
    <3>2. CASE tlog_exit(p)
      BY <1>2, <1>3, <3>2 DEF tlog_exit, At, Log, FlowOf
    <3>3. QED
      BY <1>15, <3>1, <3>2
  <2>2. QED
    BY <1>1, <2>1 DEF FlowOf, Logging, Archiving, Archive, Naming
<1>16. ASSUME NEW p \in Procs, crash(p)
       PROVE  FlowOf(p)'
  <2>1. proc'[p].pc = "off" /\ proc'[p].fd = 0
    BY <1>2, <1>16 DEF crash, Closed
  <2>2. p # crashes + 1
    BY Setup DEF IndInv, CountType
  <2>3. gz'[p] = NoGzip
    BY <1>2, <1>16, <2>2 DEF crash
  <2>4. QED
    BY <1>1, <1>4, <2>1, <2>3 DEF FlowOf, Logging, Archiving, Archive, Naming
<1>17. ASSUME NEW p \in Procs, worker(p) \/ write_begin(p) \/ tlog_init(p) \/ tlog_exit(p) \/ crash(p)
       PROVE  Flow'
  <2>1. FlowOf(p)'
    BY <1>6, <1>7, <1>8, <1>11, <1>12, <1>13, <1>14, <1>15, <1>16, <1>17 DEF worker, archive_step
  <2>2. QED
    BY <1>17, <2>1, FlowFrame
<1>18. ASSUME NEW g \in Gzips, gzip(g) \/ gzip_fail(g)
       PROVE  Flow'
  <2>1. proc' = proc /\ gz[g] # NoGzip /\ \A h \in Gzips \ {g} : gz'[h] = gz[h]
    BY <1>2, <1>18 DEF gzip, gzip_open, gzip_copy, gzip_unlink, gzip_fail, NoGzip
  <2>2. ASSUME NEW p \in Procs
        PROVE  FlowOf(p)'
    BY <1>1, <1>2, <1>3, <1>4, <2>1 DEF FlowOf
  <2>3. QED
    BY <2>2 DEF Flow
<1>19. CASE tick \/ UNCHANGED vars
  <2>1. gz' = gz /\ \A p \in Procs : /\ proc'[p].pc = proc[p].pc /\ proc'[p].fd = proc[p].fd
                                     /\ proc'[p].line = proc[p].line /\ proc'[p].name = proc[p].name
    <3>1. CASE tick
      BY <1>2, <3>1 DEF tick, Log
    <3>2. CASE UNCHANGED vars
      BY <3>2 DEF vars
    <3>3. QED
      BY <1>19, <3>1, <3>2
  <2>2. ASSUME NEW p \in Procs
        PROVE  FlowOf(p)'
    BY <1>1, <1>3, <1>4, <2>1 DEF FlowOf
  <2>3. QED
    BY <2>2 DEF Flow
<1>20. QED
  BY <1>17, <1>18, <1>19 DEF Next


(* Gzips come from compressing processes, orphans from crashes.            *)
LEMMA GzipFlowStep ==
  ASSUME IndInv, [Next]_vars
  PROVE  GzipFlow'
<1>1. mode' = mode /\ mode.nocompress \in BOOLEAN /\ NoGzip' = NoGzip /\ MaxCrashes \in Nat /\ crashes \in Nat
  BY SetupFixed, Setup DEF IndInv, CountType, NoGzip
<1>2. gz \in [Gzips -> Gzip] /\ GzipFlow /\ \A q \in Procs : q \in Gzips /\ q \notin Nat
  BY Setup DEF IndInv, ProcType, Gzips
<1>3. \A i \in 1 .. MaxCrashes : i \in Gzips /\ i \notin Procs
  BY <1>1, <1>2 DEF Gzips
<1>4. CASE gz' = gz /\ crashes' = crashes
  BY <1>1, <1>2, <1>4 DEF GzipFlow, Busy
<1>5. ASSUME NEW g \in Gzips, NEW z, gz' = [gz EXCEPT ![g] = z], crashes' = crashes,
             z.st \notin {"copy", "unlink"} \/ (z.in # 0 /\ z.out # 0),
             mode.nocompress => z = NoGzip, g \in 1 .. MaxCrashes /\ g > crashes => z = NoGzip
      PROVE  GzipFlow'
  BY <1>1, <1>2, <1>5 DEF GzipFlow, Busy
<1>6. NoGzip.st \notin {"copy", "unlink"} /\ NewGzip.st \notin {"copy", "unlink"}
  BY DEF NoGzip, NewGzip
<1>7. \A g \in Gzips : Ended(g).st \notin {"copy", "unlink"}
  BY DEF NoGzip, Ended
<1>8. ASSUME NEW p \in Procs, archive_gzip(p)
      PROVE  GzipFlow'
  <2>1. ~mode.nocompress /\ crashes' = crashes
    BY <1>8 DEF archive_gzip, At, IndInv, Flow, FlowOf
  <2>2. QED
    BY <1>2, <1>3, <1>4, <1>5, <1>6, <1>8, <2>1 DEF archive_gzip
<1>9. ASSUME NEW p \in Procs, wait_pids(p) \/ tlog_close(p)
      PROVE  GzipFlow'
  <2>1. crashes' = crashes /\ (gz' = gz \/ gz' = [gz EXCEPT ![p] = NoGzip])
    BY <1>9 DEF wait_pids, tlog_close, Reap, budget
  <2>2. QED
    BY <1>2, <1>4, <1>5, <1>6, <2>1
<1>10. ASSUME NEW p \in Procs, crash(p)
       PROVE  GzipFlow'
  <2> DEFINE z == IF gz[p].st = "done" THEN NoGzip ELSE gz[p]
  <2>1. /\ crashes' = crashes + 1 /\ crashes + 1 \in 1 .. MaxCrashes /\ p # crashes + 1
        /\ gz' = [gz EXCEPT ![p] = NoGzip, ![crashes + 1] = z]
    BY <1>1, <1>2, <1>10, Setup DEF crash, IndInv, CountType
  <2>2. z.st \in {"copy", "unlink"} => z.in # 0 /\ z.out # 0
    BY <1>2, <1>6 DEF GzipFlow, Busy
  <2>3. mode.nocompress => z = NoGzip
    BY <1>2 DEF GzipFlow
  <2> HIDE DEF z
  <2>4. \A h \in Gzips : gz'[h] = IF h = p THEN NoGzip ELSE IF h = crashes + 1 THEN z ELSE gz[h]
    BY <1>2, <1>3, <2>1
  <2>5. (\A g \in Gzips : Busy(g) => gz[g].in # 0 /\ gz[g].out # 0)'
    BY <1>2, <1>6, <2>2, <2>4 DEF GzipFlow, Busy
  <2>6. (mode.nocompress => \A g \in Gzips : gz[g] = NoGzip)'
    BY <1>1, <1>2, <2>3, <2>4 DEF GzipFlow
  <2>7. ASSUME NEW i \in 1 .. MaxCrashes, i > crashes'
        PROVE  gz'[i] = NoGzip
    <3>1. i \in Gzips /\ i # p /\ i # crashes + 1 /\ i > crashes
      BY <1>1, <1>2, <1>3, <2>1, <2>7
    <3>2. QED
      BY <1>2, <2>4, <3>1 DEF GzipFlow
  <2>8. QED
    BY <1>1, <2>5, <2>6, <2>7 DEF GzipFlow
<1>11. ASSUME NEW g \in Gzips, gzip(g) \/ gzip_fail(g)
       PROVE  GzipFlow'
  <2>1. /\ crashes' = crashes /\ gz[g] # NoGzip /\ ~mode.nocompress
        /\ ~(g \in 1 .. MaxCrashes /\ g > crashes)
    <3>1. crashes' = crashes /\ gz[g] # NoGzip
      BY <1>11 DEF gzip, gzip_open, gzip_copy, gzip_unlink, gzip_fail, budget, NoGzip
    <3>2. QED
      BY <1>2, <3>1 DEF GzipFlow
  <2>2. CASE gzip_open(g)
    <3>1. CASE gz' = [gz EXCEPT ![g] = Ended(g)]
      BY <1>5, <1>7, <2>1, <3>1
    <3>2. CASE dir["pending"] # 0 /\ gz' = [gz EXCEPT ![g] = [st |-> "copy", in |-> dir["pending"], out |-> Len(files) + 1]]
      <4>1. Len(files) + 1 # 0
        BY InoGrows
      <4>2. QED
        BY <1>5, <2>1, <3>2, <4>1
    <3>3. QED
      BY <2>2, <3>1, <3>2 DEF gzip_open
  <2>3. CASE gzip_copy(g)
    <3>1. gz[g].in # 0 /\ gz[g].out # 0
      BY <1>2, <2>3 DEF gzip_copy, GzipFlow, Busy
    <3>2. gz' = [gz EXCEPT ![g] = [gz[g] EXCEPT !.st = "unlink"]]
      BY <1>2, <2>3 DEF gzip_copy
    <3>3. [gz[g] EXCEPT !.st = "unlink"].in = gz[g].in /\ [gz[g] EXCEPT !.st = "unlink"].out = gz[g].out
      BY <1>2 DEF Gzip
    <3>4. QED
      BY <1>5, <2>1, <3>1, <3>2, <3>3
  <2>4. CASE gzip_unlink(g) \/ gzip_fail(g)
    BY <1>5, <1>7, <2>1, <2>4 DEF gzip_unlink, gzip_fail
  <2>5. QED
    BY <1>11, <2>2, <2>3, <2>4 DEF gzip
<1>12. ASSUME NEW p \in Procs,
              \/ log_lock(p) \/ log_lockf(p) \/ archive_leftover(p) \/ archive_pending(p) \/ archive_log(p)
              \/ getmtime(p) \/ archive_name(p) \/ rename_logfile(p) \/ remove_oldlog(p)
              \/ write_begin(p) \/ write_open(p) \/ write_line(p) \/ tlog_init(p) \/ tlog_exit(p)
       PROVE  GzipFlow'
  BY <1>4, <1>12 DEF log_lock, log_lockf, archive_leftover, archive_pending, archive_log, getmtime, archive_name,
                     rename_logfile, remove_oldlog, write_begin, write_open, write_line, tlog_init, tlog_exit, budget
<1>13. CASE tick \/ UNCHANGED vars
  BY <1>4, <1>13 DEF tick, vars, budget
<1>14. QED
  BY <1>8, <1>9, <1>10, <1>11, <1>12, <1>13 DEF Next, worker, archive_step


-----------------------------------------------------------------------------
(* What a file is used for.                                                *)

(* A process opens a file only in write_open, a gzip makes one only in     *)
(* gzip_open.                                                              *)
LEMMA HandlesStep ==
  ASSUME IndInv, [Next]_vars
  PROVE  /\ (\A p \in Procs : ~write_open(p)) => \A p \in Procs : proc'[p].fd \in {0, proc[p].fd}
         /\ (\A g \in Gzips : ~gzip_open(g)) => \A g \in Gzips : gz'[g].out \in {0} \cup {gz[h].out : h \in Gzips}
<1>1. proc \in [Procs -> Log] /\ gz \in [Gzips -> Gzip] /\ \A q \in Procs : q \in Gzips
  BY DEF IndInv, ProcType, Gzips
<1>2. NoGzip.out = 0 /\ NewGzip.out = 0 /\ \A g \in Gzips : Ended(g).out = 0
  BY DEF NoGzip, NewGzip, Ended
<1>3. Closed.fd = 0 /\ Opened.fd = 0
  BY DEF Closed, Opened
<1>4. ASSUME NEW p \in Procs, worker(p) \/ write_begin(p) \/ tlog_init(p) \/ tlog_exit(p) \/ crash(p), ~write_open(p)
      PROVE  \A q \in Procs : proc'[q].fd \in {0, proc[q].fd}
  <2>1. proc'[p].fd \in {0, proc[p].fd}
    <3>1. CASE log_lock(p)
      BY <1>1, <3>1 DEF log_lock, Goto, Log
    <3>2. CASE log_lockf(p)
      BY <1>1, <3>2 DEF log_lockf, Log
    <3>3. ASSUME NEW to, Goto(p, to)
          PROVE  proc'[p].fd = proc[p].fd
      BY <1>1, <3>3 DEF Goto, Log
    <3>4. CASE \/ archive_leftover(p) \/ archive_pending(p) \/ archive_log(p) \/ archive_gzip(p) \/ getmtime(p)
               \/ archive_name(p) \/ rename_logfile(p) \/ remove_oldlog(p)
      BY <3>4, StepIs
    <3>5. CASE write_begin(p)
      BY <1>1, <3>5 DEF write_begin, Log
    <3>6. CASE write_line(p)
      BY <3>6, WriteIs
    <3>7. CASE wait_pids(p)
      BY <1>1, <3>3, <3>7 DEF wait_pids, Reap, Log
    <3>8. CASE tlog_close(p)
      BY <1>1, <1>3, <3>3, <3>8 DEF tlog_close, Reap
    <3>9. CASE tlog_init(p) \/ tlog_exit(p) \/ crash(p)
      BY <1>1, <1>3, <3>9 DEF tlog_init, tlog_exit, crash, Log
    <3>10. QED
      BY <1>4, <3>1, <3>2, <3>4, <3>5, <3>6, <3>7, <3>8, <3>9 DEF worker, archive_step
  <2>2. QED
    BY <1>4, <2>1, OwnStep
<1>5. CASE tick
  BY <1>1, <1>5 DEF tick, Log
<1>6. CASE UNCHANGED vars
  BY <1>6 DEF vars
<1>7. ASSUME NEW g \in Gzips, gzip(g) \/ gzip_fail(g)
      PROVE  proc' = proc
  BY <1>7 DEF gzip, gzip_open, gzip_copy, gzip_unlink, gzip_fail
<1>8. (\A p \in Procs : ~write_open(p)) => \A p \in Procs : proc'[p].fd \in {0, proc[p].fd}
  BY <1>4, <1>5, <1>6, <1>7 DEF Next
<1>9. ASSUME gz' = gz
      PROVE  \A g \in Gzips : gz'[g].out \in {0, gz[g].out}
  BY <1>9
<1>10. ASSUME NEW g \in Gzips, NEW z, gz' = [gz EXCEPT ![g] = z], z.out \in {0, gz[g].out}
       PROVE  \A h \in Gzips : gz'[h].out \in {0, gz[h].out}
  BY <1>1, <1>10
<1>11. ASSUME NEW p \in Procs, worker(p) \/ write_begin(p) \/ tlog_init(p) \/ tlog_exit(p)
       PROVE  gz' = gz \/ gz' = [gz EXCEPT ![p] = NoGzip] \/ gz' = [gz EXCEPT ![p] = NewGzip]
  BY <1>11 DEF worker, archive_step, log_lock, log_lockf, archive_leftover, archive_pending, archive_log,
               archive_gzip, getmtime, archive_name, rename_logfile, remove_oldlog, write_begin, write_open, write_line, wait_pids, tlog_init, tlog_exit,
               tlog_close, Reap
<1>12. ASSUME NEW p \in Procs, crash(p)
       PROVE  \A g \in Gzips : gz'[g].out \in {0} \cup {gz[h].out : h \in Gzips}
  <2> DEFINE z == IF gz[p].st = "done" THEN NoGzip ELSE gz[p]
  <2>1. gz' = [gz EXCEPT ![p] = NoGzip, ![crashes + 1] = z] /\ z.out \in {0, gz[p].out}
    BY <1>2, <1>12 DEF crash
  <2> HIDE DEF z
  <2>2. \A h \in Gzips : gz'[h] \in {NoGzip, z, gz[h]}
    BY <1>1, <2>1
  <2>3. QED
    BY <1>1, <1>2, <2>1, <2>2
<1>13. ASSUME NEW g \in Gzips, gzip(g) \/ gzip_fail(g), ~gzip_open(g)
       PROVE  \A h \in Gzips : gz'[h].out \in {0, gz[h].out}
  <2>1. CASE gz' = [gz EXCEPT ![g] = Ended(g)]
    BY <1>2, <1>10, <2>1
  <2>2. CASE gzip_copy(g)
    BY <1>1, <2>2 DEF gzip_copy, Gzip
  <2>3. QED
    BY <1>13, <2>1, <2>2 DEF gzip, gzip_unlink, gzip_fail
<1>14. ASSUME tick \/ UNCHANGED vars
       PROVE  \A g \in Gzips : gz'[g].out \in {0, gz[g].out}
  BY <1>9, <1>14 DEF tick, vars
<1>15. (\A g \in Gzips : ~gzip_open(g)) => \A g \in Gzips : gz'[g].out \in {0} \cup {gz[h].out : h \in Gzips}
  <2>1. ASSUME NEW p \in Procs, worker(p) \/ write_begin(p) \/ tlog_init(p) \/ tlog_exit(p)
        PROVE  \A g \in Gzips : gz'[g].out \in {0, gz[g].out}
    BY <1>1, <1>2, <1>10, <1>11, <2>1
  <2>2. QED
    BY <1>12, <1>13, <1>14, <2>1 DEF Next
<1>16. QED
  BY <1>8, <1>15

(* A step that opens nothing keeps the uses apart.                         *)
LEMMA UsesFrame ==
  ASSUME IndInv,
         dir'["log"] \in {0, dir["log"]}, dir'["lock"] \in {0, dir["lock"]},
         dir'["log"] # 0 => dir'["pending"] \in {0, dir["pending"]},
         \A p \in Procs : proc'[p].fd \in {0, proc[p].fd},
         \A g \in Gzips : gz'[g].out \in {0} \cup {gz[h].out : h \in Gzips},
         dir["lock"] # 0 => files'[dir["lock"]].lines = files[dir["lock"]].lines
  PROVE  Uses'
<1>1. Uses /\ \A g \in Gzips : gz'[g].out = 0 \/ \E h \in Gzips : gz'[g].out = gz[h].out
  BY DEF IndInv
<1>2. (dir["log"] # 0 =>
       /\ dir["log"] \notin {dir["pending"], dir["lock"]}
       /\ \A g \in Gzips : gz[g].out # dir["log"])'
  BY <1>1 DEF Uses
<1>3. (\A p \in Procs : proc[p].fd # 0 =>
       /\ proc[p].fd # dir["lock"]
       /\ \A g \in Gzips : gz[g].out # proc[p].fd)'
  BY <1>1 DEF Uses
<1>4. (dir["lock"] # 0 =>
       /\ files[dir["lock"]].lines = {}
       /\ \A g \in Gzips : gz[g].out # dir["lock"])'
  BY <1>1 DEF Uses
<1>5. QED
  BY <1>2, <1>3, <1>4 DEF Uses


(* A line never goes to a lock file, nor a log or a lock file to gzip.     *)
LEMMA UsesStep ==
  ASSUME IndInv, [Next]_vars
  PROVE  Uses'
<1>1. /\ dir \in [Fixed -> Ino] /\ Len(files) \in Nat /\ Ino = 0 .. Len(files) /\ files \in Seq(File)
      /\ proc \in [Procs -> Log] /\ gz \in [Gzips -> Gzip] /\ \A q \in Procs : q \in Gzips
  BY InoGrows DEF IndInv, DiskType, ProcType, Gzips
<1>2. /\ "log" \in Fixed /\ "pending" \in Fixed /\ "pending.gz" \in Fixed /\ "lock" \in Fixed
      /\ dir["log"] \in 0 .. Len(files) /\ dir["pending"] \in 0 .. Len(files) /\ dir["lock"] \in 0 .. Len(files)
  BY <1>1 DEF Fixed
<1>3. /\ \A p \in Procs : proc[p].fd \in 0 .. Len(files)
      /\ \A g \in Gzips : gz[g].out \in 0 .. Len(files)
  BY <1>1 DEF Log, Gzip
<1>4. Uses
  BY DEF IndInv
<1>5. ASSUME NEW f \in 1 .. Len(files), f # dir["lock"], NEW r, files' = [files EXCEPT ![f] = r]
      PROVE  dir["lock"] # 0 => files'[dir["lock"]].lines = files[dir["lock"]].lines
  BY <1>1, <1>2, <1>5
<1>6. ASSUME \A p \in Procs : ~write_open(p), \A g \in Gzips : ~gzip_open(g),
             dir'["log"] \in {0, dir["log"]}, dir'["lock"] \in {0, dir["lock"]},
             dir'["log"] # 0 => dir'["pending"] \in {0, dir["pending"]},
             dir["lock"] # 0 => files'[dir["lock"]].lines = files[dir["lock"]].lines
      PROVE  Uses'
  BY <1>6, HandlesStep, UsesFrame
<1>7. ASSUME NEW p \in Procs, write_open(p)
      PROVE  Uses'
  <2>1. /\ \A q \in Procs \ {p} : proc'[q] = proc[q]
        /\ gz' = gz
    BY <1>7, OwnStep DEF worker, write_open
  <2>2. CASE UNCHANGED disk /\ proc'[p].fd = proc[p].fd
    BY <2>1, <2>2, UsesFrame DEF disk
  <2>3. ASSUME NEW f, f = IF dir["log"] = 0 THEN Len(files) + 1 ELSE dir["log"],
               files' = IF f > Len(files) THEN Append(files, NewFile) ELSE files,
               dir' = [dir EXCEPT !["log"] = f], proc'[p].fd = f
        PROVE  Uses'
    <3>1. /\ dir'["log"] = f /\ dir'["pending"] = dir["pending"] /\ dir'["lock"] = dir["lock"] /\ f # 0
      BY <1>1, <1>2, <2>3
    <3>2. f \notin {dir["pending"], dir["lock"]} /\ \A g \in Gzips : gz[g].out # f
      BY <1>1, <1>2, <1>3, <1>4, <2>3 DEF Uses
    <3>3. dir["lock"] # 0 => files'[dir["lock"]].lines = files[dir["lock"]].lines
      BY <1>1, <1>2, <2>3
    <3>4. (\A q \in Procs : proc[q].fd # 0 =>
            /\ proc[q].fd # dir["lock"]
            /\ \A g \in Gzips : gz[g].out # proc[q].fd)'
      BY <1>4, <2>1, <2>3, <3>1, <3>2 DEF Uses
    <3>5. QED
      BY <1>4, <2>1, <3>1, <3>2, <3>3, <3>4 DEF Uses
  <2>4. QED
    BY <1>7, <2>2, <2>3, OpenIs
<1>8. ASSUME NEW g \in Gzips, gzip_open(g)
      PROVE  Uses'
  <2>1. proc' = proc
    BY <1>8 DEF gzip_open
  <2>2. CASE gz' = [gz EXCEPT ![g] = Ended(g)] /\ UNCHANGED <<files, dir>>
    <3>1. \A h \in Gzips : gz'[h].out \in {0, gz[h].out}
      BY <1>1, <2>2 DEF Ended, NoGzip
    <3>2. \A h \in Gzips : gz'[h].out \in {0} \cup {gz[k].out : k \in Gzips}
      BY <3>1
    <3>3. QED
      BY <2>1, <2>2, <3>2, UsesFrame
  <2>3. CASE /\ gz' = [gz EXCEPT ![g] = [st |-> "copy", in |-> dir["pending"], out |-> Len(files) + 1]]
             /\ files' = Append(files, NewFile) /\ dir' = [dir EXCEPT !["pending.gz"] = Len(files) + 1]
    <3>1. dir'["log"] = dir["log"] /\ dir'["pending"] = dir["pending"] /\ dir'["lock"] = dir["lock"]
      BY <1>1, <1>2, <2>3
    <3>2. \A h \in Gzips : gz'[h].out \in {gz[h].out, Len(files) + 1}
      BY <1>1, <2>3
    <3>3. dir["lock"] # 0 => files'[dir["lock"]].lines = files[dir["lock"]].lines
      BY <1>1, <1>2, <2>3
    <3>4. /\ dir["log"] # Len(files) + 1 /\ dir["lock"] # Len(files) + 1
          /\ \A q \in Procs : proc[q].fd # Len(files) + 1
      BY <1>1, <1>2, <1>3
    <3>5. QED
      BY <1>4, <2>1, <3>1, <3>2, <3>3, <3>4 DEF Uses
  <2>4. QED
    BY <1>8, <2>2, <2>3 DEF gzip_open
<1>9. ASSUME NEW p \in Procs, log_lock(p)
      PROVE  Uses'
  <2>1. gz' = gz /\ \A q \in Procs : proc'[q].fd = proc[q].fd
    <3>1. gz' = gz /\ \A q \in Procs \ {p} : proc'[q] = proc[q]
      BY <1>9, OwnStep DEF log_lock, worker, archive_step
    <3>2. proc'[p].fd = proc[p].fd
      <4>1. CASE Goto(p, FirstStep) \/ Goto(p, "open")
        BY <1>1, <4>1 DEF Goto, Log
      <4>2. ASSUME NEW f, proc' = [proc EXCEPT ![p].pc = "lockf", ![p].lockfd = f]
            PROVE  proc'[p].fd = proc[p].fd
        BY <1>1, <4>2 DEF Log
      <4>3. QED
        BY <1>9, <4>1, <4>2 DEF log_lock
    <3>3. QED
      BY <3>1, <3>2
  <2>2. CASE UNCHANGED <<files, dir>>
    BY <2>1, <2>2, UsesFrame
  <2>3. ASSUME NEW f, f = IF dir["lock"] = 0 THEN Len(files) + 1 ELSE dir["lock"],
               files' = IF f > Len(files) THEN Append(files, NewFile) ELSE files,
               dir' = [dir EXCEPT !["lock"] = f]
        PROVE  Uses'
    <3>1. /\ dir'["log"] = dir["log"] /\ dir'["pending"] = dir["pending"] /\ dir'["lock"] = f
      BY <1>1, <1>2, <2>3
    <3>2. (dir["log"] # 0 => dir["log"] # f) /\ \A g \in Gzips : gz[g].out # f
      BY <1>1, <1>2, <1>3, <1>4, <2>3 DEF Uses
    <3>3. \A q \in Procs : proc[q].fd # 0 => proc[q].fd # f
      BY <1>1, <1>2, <1>3, <1>4, <2>3 DEF Uses
    <3>4. files'[f].lines = {}
      BY <1>1, <1>2, <1>4, <2>3 DEF Uses, NewFile
    <3>5. QED
      BY <1>4, <2>1, <3>1, <3>2, <3>3, <3>4 DEF Uses
  <2>4. QED
    BY <1>9, <2>2, <2>3 DEF log_lock
<1>10. CASE /\ \A p \in Procs : ~write_open(p) /\ ~log_lock(p)
            /\ \A g \in Gzips : ~gzip_open(g)
  <2>1. dir["lock"] # 0 => files'[dir["lock"]].lines = files[dir["lock"]].lines
    <3>1. ASSUME NEW p \in Procs, write_begin(p)
          PROVE  dir["lock"] # 0 => files'[dir["lock"]].lines = files[dir["lock"]].lines
      <4>1. \/ files' = files
            \/ /\ proc[p].fd \in 1 .. Len(files)
               /\ \E r : files' = [files EXCEPT ![proc[p].fd] = r]
        BY <3>1, BeginIs
      <4>2. proc[p].fd # 0 => proc[p].fd # dir["lock"]
        BY <1>4 DEF Uses
      <4>3. QED
        BY <1>5, <4>1, <4>2
    <3>2. ASSUME NEW p \in Procs, write_line(p)
          PROVE  dir["lock"] # 0 => files'[dir["lock"]].lines = files[dir["lock"]].lines
      <4>1. proc[p].fd \in 1 .. Len(files) /\ proc[p].fd # dir["lock"]
        <5>1. proc[p].fd \in 1 .. Len(files)
          BY <3>2, WriteIs
        <5>2. QED
          BY <1>1, <1>4, <5>1 DEF Uses
      <4>2. files' = files \/ \E r : files' = [files EXCEPT ![proc[p].fd] = r]
        BY <3>2, WriteIs
      <4>3. QED
        BY <1>5, <4>1, <4>2
    <3>3. ASSUME NEW g \in Gzips, gzip_copy(g)
          PROVE  dir["lock"] # 0 => files'[dir["lock"]].lines = files[dir["lock"]].lines
      <4>1. gz[g].out # 0
        BY <3>3 DEF gzip_copy, IndInv, GzipFlow, Busy
      <4>2. gz[g].out \in 1 .. Len(files) /\ (dir["lock"] # 0 => gz[g].out # dir["lock"])
        BY <1>1, <1>3, <1>4, <4>1 DEF Uses
      <4>3. QED
        BY <1>5, <3>3, <4>2 DEF gzip_copy
    <3>4. \/ files' = files \/ \E p \in Procs : write_begin(p) \/ write_line(p)
          \/ \E g \in Gzips : gzip_copy(g)
      BY <1>10 DEF Next, worker, archive_step, gzip, vars, disk, log_lockf, archive_leftover, archive_pending,
         archive_log, archive_gzip, getmtime, archive_name, rename_logfile, remove_oldlog, wait_pids, tlog_init, tlog_exit, tlog_close, crash,
         gzip_fail, gzip_unlink, tick
    <3>5. QED
      BY <3>1, <3>2, <3>3, <3>4
  <2>2. /\ dir'["log"] \in {0, dir["log"]} /\ dir'["lock"] \in {0, dir["lock"]}
        /\ dir'["log"] # 0 => dir'["pending"] \in {0, dir["pending"]}
    <3>1. CASE dir' = dir
      BY <3>1
    <3>2. ASSUME NEW n \in Fixed, NEW v, dir' = [dir EXCEPT ![n] = v], n # "pending.gz" => v = 0
          PROVE  /\ dir'["log"] \in {0, dir["log"]} /\ dir'["lock"] \in {0, dir["lock"]}
                 /\ dir'["pending"] \in {0, dir["pending"]}
      BY <1>1, <1>2, <3>2
    <3>3. CASE dir' = [dir EXCEPT !["pending"] = dir["log"], !["log"] = 0]
      BY <1>1, <1>2, <3>3
    <3>4. ASSUME NEW p \in Procs, worker(p)
          PROVE  \/ dir' = dir
                 \/ dir' = [dir EXCEPT !["pending"] = dir["log"], !["log"] = 0]
                 \/ \E n \in Fixed : dir' = [dir EXCEPT ![n] = 0]
      <4>1. Target \in Fixed
        BY <1>2 DEF Target
      <4>2. dir' = Unlocked(p, dir) => dir' = dir \/ dir' = [dir EXCEPT !["lock"] = 0]
        BY DEF Unlocked
      <4>3. \/ dir' = dir \/ dir' = Unlocked(p, dir)
            \/ dir' = [dir EXCEPT !["pending"] = dir["log"], !["log"] = 0] \/ dir' = [dir EXCEPT ![Target] = 0]
        BY <1>10, <3>4 DEF worker, archive_step, log_lockf, archive_leftover, archive_pending, archive_log,
           archive_gzip, getmtime, archive_name, rename_logfile, remove_oldlog, write_line, wait_pids, tlog_close,
           Leave, disk
      <4>4. QED
        BY <1>2, <4>1, <4>2, <4>3
    <3>5. ASSUME NEW p \in Procs, write_begin(p) \/ tlog_init(p) \/ tlog_exit(p) \/ crash(p)
          PROVE  dir' = dir
      BY <3>5 DEF write_begin, tlog_init, tlog_exit, crash, disk
    <3>6. ASSUME NEW g \in Gzips, gzip(g) \/ gzip_fail(g)
          PROVE  \/ dir' = dir \/ \E v : dir' = [dir EXCEPT !["pending.gz"] = v]
                 \/ dir' = [dir EXCEPT !["pending"] = 0]
      BY <1>10, <3>6 DEF gzip, gzip_copy, gzip_unlink, gzip_fail
    <3>7. CASE tick \/ UNCHANGED vars
      BY <3>1, <3>7 DEF tick, vars, disk
    <3>8. QED
      BY <1>2, <3>1, <3>2, <3>3, <3>4, <3>5, <3>6, <3>7 DEF Next
  <2>3. QED
    BY <1>6, <1>10, <2>1, <2>2
<1>11. QED
  BY <1>7, <1>8, <1>9, <1>10


-----------------------------------------------------------------------------
(* One gzip at a time.                                                     *)

(* Once gzips have overlapped they have.                                   *)
LEMMA OverlapStays ==
  ASSUME IndInv, [Next]_vars, ~overlap'
  PROVE  ~overlap
<1>1. ASSUME NEW p \in Procs,
             \/ log_lock(p) \/ log_lockf(p) \/ archive_leftover(p) \/ archive_pending(p) \/ getmtime(p)
             \/ archive_name(p) \/ remove_oldlog(p)
      PROVE  overlap' = overlap
  BY <1>1 DEF history, together, log_lock, log_lockf, archive_leftover, archive_pending, getmtime, archive_name,
              remove_oldlog
<1>2. ASSUME NEW p \in Procs, archive_log(p) \/ archive_gzip(p) \/ rename_logfile(p)
      PROVE  ~overlap
  <2>1. \/ overlap' = overlap
        \/ overlap' = (overlap \/ \E g \in Gzips : gz[g].st \in {"copy", "unlink"})
        \/ overlap' = (overlap \/ \E g \in Gzips : gz[g] # NoGzip)
    BY <1>2 DEF archive_log, archive_gzip, rename_logfile, Disturbed
  <2>2. QED
    BY <2>1, Zenon
<1>3. ASSUME NEW p \in Procs, write_open(p) \/ write_line(p) \/ wait_pids(p) \/ tlog_close(p)
      PROVE  overlap' = overlap
  BY <1>3 DEF history, together, write_open, write_line, wait_pids, tlog_close
<1>4. ASSUME NEW p \in Procs, write_begin(p) \/ tlog_init(p) \/ tlog_exit(p) \/ crash(p)
      PROVE  overlap' = overlap
  BY <1>4 DEF history, together, write_begin, tlog_init, tlog_exit, crash
<1>5. ASSUME NEW g \in Gzips, gzip(g) \/ gzip_fail(g)
      PROVE  overlap' = overlap
  BY <1>5 DEF history, together, gzip, gzip_open, gzip_copy, gzip_unlink, gzip_fail
<1>6. CASE tick \/ UNCHANGED vars
  BY <1>6 DEF history, together, tick, vars
<1>7. QED
  BY <1>1, <1>2, <1>3, <1>4, <1>5, <1>6 DEF Next, worker, archive_step

(* A step that leaves the gzips and the names they work on alone.          *)
LEMMA OneGzipFrame ==
  ASSUME IndInv, overlap' = overlap, gz' = gz,
         dir'["pending"] = dir["pending"], dir'["pending.gz"] = dir["pending.gz"],
         late \subseteq late',
         \A g \in Gzips : ~overlap /\ Busy(g) =>
           /\ files'[gz[g].out].lines = files[gz[g].out].lines
           /\ files'[gz[g].in].lines \ Procs \subseteq (files[gz[g].in].lines \ Procs) \cup late'
  PROVE  OneGzip'
<1>1. SUFFICES ASSUME ~overlap PROVE OneGzip'
  BY DEF OneGzip
<1>2. /\ \A g, h \in Gzips : gz[g] # NoGzip /\ gz[h] # NoGzip => g = h
      /\ \A g \in Gzips : Busy(g) => dir["pending"] = gz[g].in /\ dir["pending.gz"] = gz[g].out
      /\ \A g \in Gzips : gz[g].st = "copy" => files[gz[g].out].lines = {}
      /\ \A g \in Gzips : gz[g].st = "unlink" => LinesIn(gz[g].in) \subseteq LinesIn(gz[g].out) \cup late
  BY <1>1 DEF IndInv, OneGzip
<1>3. NoGzip' = NoGzip /\ \A g \in Gzips : Busy(g)' = Busy(g)
  BY DEF NoGzip, Busy
<1>4. \A g \in Gzips : gz[g].st = "copy" => files'[gz[g].out].lines = {}
  BY <1>1, <1>2 DEF Busy
<1>5. ASSUME NEW g \in Gzips, gz[g].st = "unlink"
      PROVE  LinesIn(gz[g].in)' \subseteq LinesIn(gz[g].out)' \cup late'
  <2>1. /\ files'[gz[g].out].lines = files[gz[g].out].lines
        /\ files'[gz[g].in].lines \ Procs \subseteq (files[gz[g].in].lines \ Procs) \cup late'
    BY <1>1, <1>5 DEF Busy
  <2>2. gz[g].in # 0 /\ gz[g].out # 0
    BY <1>5 DEF IndInv, GzipFlow, Busy
  <2>3. files[gz[g].in].lines \ Procs \subseteq (files[gz[g].out].lines \ Procs) \cup late
    BY <1>2, <1>5, <2>2 DEF LinesIn
  <2>4. QED
    BY <2>1, <2>2, <2>3 DEF LinesIn
<1>6. QED
  BY <1>2, <1>3, <1>4, <1>5 DEF OneGzip

(* Without a gzip at work there is only one to look for.                   *)
LEMMA OneGzipIdle ==
  ASSUME \A g \in Gzips : ~Busy(g)',
         \A g, h \in Gzips : gz'[g] # NoGzip /\ gz'[h] # NoGzip => g = h
  PROVE  OneGzip'
<1>1. \A g \in Gzips : gz'[g].st \notin {"copy", "unlink"}
  BY DEF Busy
<1>2. NoGzip' = NoGzip
  BY DEF NoGzip
<1>3. QED
  BY <1>1, <1>2 DEF OneGzip, Busy

(* What is between .pending and .pending.gz stays between them.            *)
LEMMA OneGzipStep ==
  ASSUME IndInv, [Next]_vars
  PROVE  OneGzip'
<1>1. SUFFICES ASSUME ~overlap' PROVE OneGzip'
  BY DEF OneGzip
<1>2. /\ ~overlap
      /\ \A g, h \in Gzips : gz[g] # NoGzip /\ gz[h] # NoGzip => g = h
      /\ \A g \in Gzips : Busy(g) => dir["pending"] = gz[g].in /\ dir["pending.gz"] = gz[g].out
      /\ \A g \in Gzips : Busy(g) => gz[g].in # 0 /\ gz[g].out # 0
      /\ \A g \in Gzips : gz[g].st = "copy" => files[gz[g].out].lines = {}
  BY <1>1, OverlapStays DEF IndInv, OneGzip, GzipFlow
<1>3. /\ dir \in [Fixed -> Ino] /\ Len(files) \in Nat /\ Ino = 0 .. Len(files) /\ files \in Seq(File)
      /\ gz \in [Gzips -> Gzip] /\ (\A q \in Procs : q \in Gzips) /\ Uses
      /\ "log" \in Fixed /\ "pending" \in Fixed /\ "pending.gz" \in Fixed /\ "lock" \in Fixed
  BY InoGrows DEF IndInv, DiskType, ProcType, Gzips, Fixed
<1>4. \A g \in Gzips : Busy(g) => gz[g].in \in 1 .. Len(files) /\ gz[g].out \in 1 .. Len(files) /\ gz[g] # NoGzip
  BY <1>2, <1>3 DEF Gzip, Busy, NoGzip
<1>5. ASSUME gz' = gz, overlap' = overlap, dir'["pending"] = dir["pending"],
             dir'["pending.gz"] = dir["pending.gz"], late' = late,
             files' = files \/ files' = Append(files, NewFile)
      PROVE  OneGzip'
  <2>1. \A f \in 1 .. Len(files) : files'[f] = files[f]
    BY <1>3, <1>5
  <2>2. QED
    BY <1>4, <1>5, <2>1, OneGzipFrame
<1>6. ASSUME NEW p \in Procs, dir' = Unlocked(p, dir)
      PROVE  dir'["pending"] = dir["pending"] /\ dir'["pending.gz"] = dir["pending.gz"]
  BY <1>3, <1>6 DEF Unlocked
<1>7. ASSUME NEW p \in Procs, log_lock(p) \/ log_lockf(p)
      PROVE  OneGzip'
  BY <1>3, <1>5, <1>7 DEF log_lock, log_lockf, disk
<1>8. ASSUME NEW p \in Procs, write_open(p)
      PROVE  OneGzip'
  BY <1>3, <1>5, <1>8, OpenIs DEF write_open, disk, history, together
<1>9. ASSUME NEW p \in Procs,
             \/ archive_leftover(p) \/ archive_pending(p) \/ getmtime(p) \/ archive_name(p) \/ remove_oldlog(p)
             \/ tlog_init(p) \/ tlog_exit(p)
      PROVE  OneGzip'
  <2>1. gz' = gz /\ overlap' = overlap /\ late' = late /\ files' = files
    BY <1>9 DEF archive_leftover, archive_pending, getmtime, archive_name, remove_oldlog, tlog_init, tlog_exit,
                disk, history, together
  <2>2. dir' = dir \/ dir' = Unlocked(p, dir)
    BY <1>9 DEF archive_leftover, archive_pending, getmtime, archive_name, remove_oldlog, tlog_init, tlog_exit,
                disk, Leave
  <2>3. QED
    BY <1>5, <1>6, <2>1, <2>2
<1>10. ASSUME NEW p \in Procs, write_begin(p)
       PROVE  OneGzip'
  <2>1. gz' = gz /\ UNCHANGED <<dir, history>>
    BY <1>10 DEF write_begin
  <2>2. CASE files' = files
    BY <1>5, <2>1, <2>2 DEF history, together
  <2>3. CASE /\ proc[p].fd \in 1 .. Len(files)
             /\ files' = [files EXCEPT ![proc[p].fd] = [lines |-> @.lines \cup {p}, mtime |-> now]]
    <3>1. \A g \in Gzips : gz[g].out # proc[p].fd
      BY <1>3, <2>3 DEF Uses
    <3>2. \A f \in 1 .. Len(files) : f # proc[p].fd => files'[f] = files[f]
      BY <1>3, <2>3
    <3>3. files'[proc[p].fd].lines = files[proc[p].fd].lines \cup {p}
      BY <1>3, <2>3
    <3>4. \A f \in 1 .. Len(files) : files'[f].lines \ Procs = files[f].lines \ Procs
      BY <3>2, <3>3
    <3>5. QED
      BY <1>4, <2>1, <3>1, <3>2, <3>4, OneGzipFrame DEF history, together
  <2>4. QED
    BY <1>10, <2>2, <2>3, BeginIs
<1>11. ASSUME NEW p \in Procs, write_line(p)
       PROVE  OneGzip'
  <2>1. gz' = gz /\ dir' = dir /\ overlap' = overlap
    BY <1>11 DEF write_line, together
  <2>2. proc[p].fd \in 1 .. Len(files)
    BY <1>11, WriteIs
  <2>3. CASE UNCHANGED <<files, late>>
    BY <1>5, <2>1, <2>3
  <2>4. CASE /\ files' = [files EXCEPT ![proc[p].fd] = [lines |-> @.lines \cup {proc[p].line}, mtime |-> now]]
             /\ late' = IF dir["log"] = proc[p].fd THEN late ELSE late \cup {proc[p].line}
    <3>1. \A g \in Gzips : gz[g].out # proc[p].fd
      BY <1>3, <2>2 DEF Uses
    <3>2. \A f \in 1 .. Len(files) : f # proc[p].fd => files'[f] = files[f]
      BY <1>3, <2>2, <2>4
    <3>3. files'[proc[p].fd].lines = files[proc[p].fd].lines \cup {proc[p].line}
      BY <1>3, <2>2, <2>4
    <3>4. ASSUME NEW g \in Gzips, Busy(g)
          PROVE  files'[gz[g].in].lines \ Procs \subseteq (files[gz[g].in].lines \ Procs) \cup late'
      <4>1. CASE gz[g].in # proc[p].fd
        BY <1>4, <3>2, <3>4, <4>1
      <4>2. CASE gz[g].in = proc[p].fd
        <5>1. dir["log"] # proc[p].fd
          BY <1>2, <1>3, <2>2, <3>4, <4>2 DEF Uses
        <5>2. QED
          BY <2>4, <3>3, <4>2, <5>1
      <4>3. QED
        BY <4>1, <4>2
    <3>5. late \subseteq late'
      BY <2>4
    <3>6. QED
      BY <1>4, <2>1, <3>1, <3>2, <3>4, <3>5, OneGzipFrame
  <2>5. QED
    BY <1>11, <2>3, <2>4, WriteIs
<1>12. ASSUME \A g \in Gzips : ~Busy(g), gz' = gz
       PROVE  OneGzip'
  <2>1. \A g \in Gzips : Busy(g)' = Busy(g)
    BY <1>12 DEF Busy
  <2>2. QED
    BY <1>2, <1>12, <2>1, OneGzipIdle
<1>13. ASSUME NEW p \in Procs, archive_log(p) \/ rename_logfile(p)
       PROVE  OneGzip'
  <2>1. gz' = gz /\ files' = files /\ late' = late
    BY <1>13 DEF archive_log, rename_logfile
  <2>2. CASE Disturbed
    <3>1. \A g \in Gzips : ~Busy(g)
      BY <1>1, <2>2, Zenon DEF Disturbed, Busy
    <3>2. QED
      BY <1>12, <2>1, <3>1
  <2>3. CASE dir' = Unlocked(p, dir) /\ overlap' = overlap
    BY <1>5, <1>6, <2>1, <2>3
  <2>4. QED
    BY <1>13, <2>2, <2>3 DEF archive_log, rename_logfile, Leave
<1>15. ASSUME NEW p \in Procs, archive_gzip(p)
       PROVE  OneGzip'
  <2>1. CASE gz' = [gz EXCEPT ![p] = NewGzip] /\ overlap' = (overlap \/ \E g \in Gzips : gz[g] # NoGzip)
    <3>1. \A g \in Gzips : gz[g] = NoGzip
      BY <1>1, <2>1
    <3>2. \A g \in Gzips : gz'[g] = IF g = p THEN NewGzip ELSE NoGzip
      BY <1>3, <2>1, <3>1
    <3>3. \A g \in Gzips : ~Busy(g)'
      BY <3>2 DEF Busy, NewGzip, NoGzip
    <3>4. QED
      BY <3>2, <3>3, OneGzipIdle
  <2>2. CASE dir' = Unlocked(p, dir) /\ UNCHANGED <<gz, overlap>>
    <3>1. files' = files /\ late' = late
      BY <1>15 DEF archive_gzip
    <3>2. QED
      BY <1>5, <1>6, <2>2, <3>1
  <2>3. QED
    BY <1>15, <2>1, <2>2 DEF archive_gzip, Leave
<1>17. ASSUME NEW p \in Procs, wait_pids(p) \/ tlog_close(p)
       PROVE  OneGzip'
  <2>1. files' = files /\ late' = late /\ overlap' = overlap
    BY <1>17 DEF wait_pids, tlog_close, disk
  <2>2. CASE gz' = [gz EXCEPT ![p] = NoGzip] /\ gz[p].st = "done"
    <3>1. \A g \in Gzips : g # p => gz[g] = NoGzip
      BY <1>2, <1>3, <2>2 DEF NoGzip
    <3>2. \A g \in Gzips : gz'[g] = NoGzip
      BY <1>3, <2>2, <3>1
    <3>3. \A g \in Gzips : ~Busy(g)'
      BY <3>2 DEF Busy, NoGzip
    <3>4. QED
      BY <3>2, <3>3, OneGzipIdle
  <2>3. CASE gz' = gz /\ (dir' = dir \/ dir' = Unlocked(p, dir))
    BY <1>5, <1>6, <2>1, <2>3
  <2>4. QED
    BY <1>17, <2>2, <2>3 DEF wait_pids, tlog_close, Reap, disk
<1>18. ASSUME NEW p \in Procs, crash(p)
       PROVE  OneGzip'
  <2> DEFINE z == IF gz[p].st = "done" THEN NoGzip ELSE gz[p]
  <2>1. /\ gz' = [gz EXCEPT ![p] = NoGzip, ![crashes + 1] = z] /\ UNCHANGED <<disk, history>>
        /\ crashes + 1 \in 1 .. MaxCrashes /\ p # crashes + 1
    BY <1>18, Setup DEF crash, IndInv, CountType
  <2>2. crashes + 1 \in Gzips /\ gz[crashes + 1] = NoGzip
    <3>1. crashes + 1 > crashes
      BY Setup DEF IndInv, CountType
    <3>2. QED
      BY <2>1, <3>1 DEF IndInv, GzipFlow, Gzips
  <2>3. \A g \in Gzips : gz'[g] = IF g = p THEN NoGzip ELSE IF g = crashes + 1 THEN z ELSE gz[g]
    BY <1>3, <2>1
  <2>4. \A g \in Gzips : gz'[g] # NoGzip /\ g # crashes + 1 => g # p /\ gz'[g] = gz[g] /\ gz[p] = NoGzip /\ z = NoGzip
    BY <1>2, <1>3, <2>3
  <2>5. \A g, h \in Gzips : gz'[g] # NoGzip /\ gz'[h] # NoGzip => g = h
    BY <1>2, <1>3, <2>2, <2>3, <2>4
  <2>6. \A g \in Gzips : Busy(g)' => \E h \in Gzips : gz'[g] = gz[h]
    BY <1>3, <2>3 DEF Busy, NoGzip
  <2>7. NoGzip' = NoGzip /\ files' = files /\ dir' = dir /\ late' = late
    BY <2>1 DEF NoGzip, disk, history, together
  <2>8. \A g \in Gzips : gz[g].st = "unlink" => LinesIn(gz[g].in) \subseteq LinesIn(gz[g].out) \cup late
    BY <1>2 DEF IndInv, OneGzip
  <2>9. QED
    BY <1>2, <2>5, <2>6, <2>7, <2>8 DEF OneGzip, Busy, LinesIn
<1>19. ASSUME NEW g \in Gzips, gzip(g) \/ gzip_fail(g)
       PROVE  OneGzip'
  <2>1. /\ gz[g] # NoGzip /\ UNCHANGED history
    BY <1>19 DEF gzip, gzip_open, gzip_copy, gzip_unlink, gzip_fail, NoGzip
  <2>2. \A h \in Gzips : h # g => gz[h] = NoGzip
    BY <1>2, <2>1
  <2>3. ASSUME NEW z, gz' = [gz EXCEPT ![g] = z]
        PROVE  \A h \in Gzips : gz'[h] = IF h = g THEN z ELSE NoGzip
    BY <1>3, <2>2, <2>3
  <2>4. CASE gz' = [gz EXCEPT ![g] = Ended(g)]
    <3>1. \A h \in Gzips : gz'[h] = IF h = g THEN Ended(g) ELSE NoGzip
      BY <2>3, <2>4
    <3>2. \A h \in Gzips : ~Busy(h)'
      BY <3>1 DEF Busy, Ended, NoGzip
    <3>3. QED
      BY <3>1, <3>2, OneGzipIdle
  <2>5. CASE /\ gz' = [gz EXCEPT ![g] = [st |-> "copy", in |-> dir["pending"], out |-> Len(files) + 1]]
             /\ files' = Append(files, NewFile) /\ dir' = [dir EXCEPT !["pending.gz"] = Len(files) + 1]
    <3>1. \A h \in Gzips : gz'[h] = IF h = g THEN [st |-> "copy", in |-> dir["pending"], out |-> Len(files) + 1]
                                    ELSE NoGzip
      BY <2>3, <2>5
    <3>2. dir'["pending"] = dir["pending"] /\ dir'["pending.gz"] = Len(files) + 1
      BY <1>3, <2>5
    <3>3. files'[Len(files) + 1].lines = {}
      BY <1>3, <2>5 DEF NewFile
    <3>4. NoGzip.st = "none" /\ NoGzip' = NoGzip
      BY DEF NoGzip
    <3>5. QED
      BY <3>1, <3>2, <3>3, <3>4 DEF OneGzip, Busy
  <2>6. CASE gzip_copy(g)
    <3>1. Busy(g) /\ gz[g].in \in 1 .. Len(files) /\ gz[g].out \in 1 .. Len(files)
      BY <1>4, <2>6 DEF gzip_copy, Busy
    <3>2. files'[gz[g].out] = files[gz[g].in] /\ (gz[g].in # gz[g].out => files'[gz[g].in] = files[gz[g].in])
      BY <1>3, <2>6, <3>1 DEF gzip_copy
    <3>3. gz' = [gz EXCEPT ![g] = [gz[g] EXCEPT !.st = "unlink"]] /\ dir' = dir
      BY <1>3, <2>6 DEF gzip_copy
    <3>4. \A h \in Gzips : gz'[h] = IF h = g THEN [gz[g] EXCEPT !.st = "unlink"] ELSE NoGzip
      BY <2>3, <3>3
    <3>5. gz'[g].st = "unlink" /\ gz'[g].in = gz[g].in /\ gz'[g].out = gz[g].out
      BY <1>3, <3>4 DEF Gzip
    <3>6. NoGzip.st = "none" /\ NoGzip' = NoGzip
      BY DEF NoGzip
    <3>7. dir["pending"] = gz[g].in /\ dir["pending.gz"] = gz[g].out
      BY <1>2, <3>1
    <3>8. files'[gz[g].in].lines \ Procs = files'[gz[g].out].lines \ Procs
      BY <3>2
    <3>9. QED
      BY <3>1, <3>3, <3>4, <3>5, <3>6, <3>7, <3>8 DEF OneGzip, Busy, LinesIn
  <2>7. QED
    BY <1>19, <2>4, <2>5, <2>6 DEF gzip, gzip_open, gzip_unlink, gzip_fail
<1>20. CASE tick \/ UNCHANGED vars
  BY <1>5, <1>20 DEF tick, vars, disk, history, together
<1>21. QED
  BY <1>7, <1>8, <1>9, <1>10, <1>11, <1>13, <1>15, <1>17, <1>18, <1>19, <1>20
  DEF Next, worker, archive_step

-----------------------------------------------------------------------------
(* Lines that have been written.                                           *)

(* x is in a file fs has under a name of d or of a.                        *)
Holds(fs, d, a, x) ==
  \/ \E n \in Fixed : d[n] # 0 /\ x \in fs[d[n]].lines
  \/ \E n \in DOMAIN a : x \in fs[a[n]].lines

(* LossExplained, line by line.                                            *)
LEMMA LossByLine ==
  ASSUME CountType, DiskType
  PROVE  LossExplained <=>
           (~overlap => \A x \in written : Holds(files, dir, archive, x) \/ x \in removed \/ x \in late \/ x \in replaced)
<1>1. \A x \in written : x \notin Procs
  BY Setup DEF CountType, Lines
<1>2. \A x : x \notin Procs => (x \in OnDisk <=> Holds(files, dir, archive, x))
  <2>1. \A n \in DOMAIN archive : archive[n] # 0
    BY DEF DiskType
  <2>2. QED
    BY <2>1 DEF OnDisk, LinesIn, Holds
<1>3. QED
  BY <1>1, <1>2 DEF LossExplained

(* Lines are lost from the disk only by the removal of an archive or by a  *)
(* rename over a file, unless two gzips have overlapped; what gzip removes *)
(* it has copied, but for the lines that came late.                        *)
LEMMA LossStep ==
  ASSUME IndInv, LossExplained, [Next]_vars
  PROVE  LossExplained'
<1>1. CountType /\ CountType' /\ removed \subseteq Lines /\ late \subseteq Lines
  BY CountStep DEF IndInv, CountType
<1>2. SUFFICES ASSUME ~overlap', NEW x \in written'
               PROVE  Holds(files', dir', archive', x) \/ x \in removed' \/ x \in late' \/ x \in replaced'
  <2>1. \A x \in written' : x \notin Procs
    <3>1. written' \subseteq Lines
      BY <1>1, SetupFixed DEF CountType
    <3>2. Lines \subseteq Nat /\ \A p \in Procs : p \notin Nat
      BY <1>1, Setup DEF Lines
    <3>3. QED
      BY <3>1, <3>2
  <2>2. \A x : x \notin Procs => (x \in OnDisk' <=> Holds(files', dir', archive', x))
    <3>1. \A n \in DOMAIN archive' : archive'[n] # 0
      BY ArchiveStep
    <3>2. QED
      BY <3>1 DEF OnDisk, LinesIn, Holds
  <2>3. QED
    BY <2>1, <2>2 DEF LossExplained
<1>3. /\ ~overlap
      /\ x \in written => Holds(files, dir, archive, x) \/ x \in removed \/ x \in late \/ x \in replaced
  BY <1>1, <1>2, OverlapStays, LossByLine DEF IndInv
<1>4. /\ dir \in [Fixed -> Ino] /\ Len(files) \in Nat /\ Ino = 0 .. Len(files) /\ files \in Seq(File)
      /\ archive \in [DOMAIN archive -> Ino \ {0}]
      /\ gz \in [Gzips -> Gzip] /\ (\A q \in Procs : q \in Gzips) /\ Uses
      /\ "log" \in Fixed /\ "pending" \in Fixed /\ "pending.gz" \in Fixed /\ "lock" \in Fixed
  BY InoGrows DEF IndInv, DiskType, ProcType, Gzips, Fixed
<1>5. /\ \A n \in Fixed : dir[n] # 0 => dir[n] \in 1 .. Len(files)
      /\ \A n \in DOMAIN archive : archive[n] \in 1 .. Len(files)
  BY <1>4
<1>6. ASSUME removed' = removed, late \subseteq late', replaced \subseteq replaced', x \in written,
             Holds(files, dir, archive, x) => Holds(files', dir', archive', x)
      PROVE  Holds(files', dir', archive', x) \/ x \in removed' \/ x \in late' \/ x \in replaced'
  BY <1>3, <1>6
<1>7. ASSUME dir' = dir, archive' = archive, \A f \in 1 .. Len(files) : files[f].lines \subseteq files'[f].lines
      PROVE  Holds(files, dir, archive, x) => Holds(files', dir', archive', x)
  BY <1>5, <1>7 DEF Holds
<1>8. ASSUME NEW n \in Fixed, dir[n] = 0, files' = Append(files, NewFile),
             dir' = [dir EXCEPT ![n] = Len(files) + 1], archive' = archive
      PROVE  Holds(files, dir, archive, x) => Holds(files', dir', archive', x)
  <2>1. \A f \in 1 .. Len(files) : files'[f] = files[f]
    BY <1>4, <1>8
  <2>2. \A m \in Fixed : dir[m] # 0 => dir'[m] = dir[m]
    BY <1>4, <1>8
  <2>3. QED
    BY <1>5, <1>8, <2>1, <2>2 DEF Holds
<1>9. ASSUME NEW p \in Procs, dir' = Unlocked(p, dir), files' = files, archive' = archive
      PROVE  Holds(files, dir, archive, x) => Holds(files', dir', archive', x)
  <2>1. dir["lock"] # 0 => files[dir["lock"]].lines = {}
    BY <1>4 DEF Uses
  <2>2. \A m \in Fixed : dir'[m] = dir[m] \/ m = "lock"
    BY <1>4, <1>9 DEF Unlocked
  <2>3. QED
    BY <1>9, <2>1, <2>2 DEF Holds
<1>11. ASSUME UNCHANGED disk
       PROVE  Holds(files, dir, archive, x) => Holds(files', dir', archive', x)
  BY <1>7, <1>11 DEF disk
<1>12. ASSUME NEW p \in Procs, log_lock(p)
       PROVE  Holds(files', dir', archive', x) \/ x \in removed' \/ x \in late' \/ x \in replaced'
  <2>1. archive' = archive /\ UNCHANGED <<written, removed, late, replaced>>
    BY <1>12 DEF log_lock
  <2>2. CASE dir' = dir /\ files' = files
    BY <1>2, <1>6, <1>11, <2>1, <2>2 DEF disk
  <2>3. CASE files' = Append(files, NewFile) /\ dir' = [dir EXCEPT !["lock"] = Len(files) + 1] /\ dir["lock"] = 0
    BY <1>2, <1>4, <1>6, <1>8, <2>1, <2>3
  <2>4. \/ dir' = dir /\ files' = files
        \/ files' = Append(files, NewFile) /\ dir' = [dir EXCEPT !["lock"] = Len(files) + 1] /\ dir["lock"] = 0
    <3>1. dir["lock"] # 0 => ~(dir["lock"] > Len(files)) /\ [dir EXCEPT !["lock"] = dir["lock"]] = dir
      BY <1>4, <1>5
    <3>2. Len(files) + 1 > Len(files)
      BY <1>4
    <3>3. QED
      BY <1>12, <3>1, <3>2 DEF log_lock
  <2>5. QED
    BY <2>2, <2>3, <2>4
<1>13. ASSUME NEW p \in Procs, write_open(p)
       PROVE  Holds(files', dir', archive', x) \/ x \in removed' \/ x \in late' \/ x \in replaced'
  <2>1. UNCHANGED history
    BY <1>13 DEF write_open
  <2>2. CASE UNCHANGED disk
    BY <1>2, <1>6, <1>11, <2>1, <2>2 DEF history, together
  <2>3. CASE files' = Append(files, NewFile) /\ dir' = [dir EXCEPT !["log"] = Len(files) + 1] /\ dir["log"] = 0
             /\ archive' = archive
    BY <1>2, <1>4, <1>6, <1>8, <2>1, <2>3 DEF history, together
  <2>4. \/ UNCHANGED disk
        \/ /\ files' = Append(files, NewFile) /\ dir' = [dir EXCEPT !["log"] = Len(files) + 1] /\ dir["log"] = 0
           /\ archive' = archive
    <3>1. dir["log"] # 0 => ~(dir["log"] > Len(files)) /\ [dir EXCEPT !["log"] = dir["log"]] = dir
      BY <1>4, <1>5
    <3>2. Len(files) + 1 > Len(files)
      BY <1>4
    <3>3. QED
      BY <1>13, <3>1, <3>2, OpenIs DEF disk
  <2>5. QED
    BY <2>2, <2>3, <2>4
<1>14. ASSUME NEW p \in Procs, write_begin(p)
       PROVE  Holds(files', dir', archive', x) \/ x \in removed' \/ x \in late' \/ x \in replaced'
  <2>1. UNCHANGED <<dir, archive, history>>
    BY <1>14 DEF write_begin
  <2>2. CASE /\ proc[p].fd \in 1 .. Len(files)
             /\ files' = [files EXCEPT ![proc[p].fd] = [lines |-> @.lines \cup {p}, mtime |-> now]]
    <3>1. \A f \in 1 .. Len(files) : f # proc[p].fd => files'[f] = files[f]
      BY <1>4, <2>2
    <3>2. files'[proc[p].fd].lines = files[proc[p].fd].lines \cup {p}
      BY <1>4, <2>2
    <3>3. \A f \in 1 .. Len(files) : files[f].lines \subseteq files'[f].lines
      BY <3>1, <3>2
    <3>4. QED
      BY <1>2, <1>6, <1>7, <2>1, <3>3 DEF history, together
  <2>3. CASE files' = files
    BY <1>2, <1>6, <1>11, <2>1, <2>3 DEF history, together, disk
  <2>4. QED
    BY <1>14, <2>2, <2>3, BeginIs
<1>15. ASSUME NEW p \in Procs, write_line(p)
       PROVE  Holds(files', dir', archive', x) \/ x \in removed' \/ x \in late' \/ x \in replaced'
  <2>1. UNCHANGED <<dir, archive, removed, replaced>> /\ proc[p].fd \in 1 .. Len(files)
    BY <1>15, WriteIs DEF write_line, together
  <2>2. CASE UNCHANGED <<files, written, late>>
    BY <1>2, <1>6, <1>11, <2>1, <2>2 DEF disk
  <2>3. CASE /\ files' = [files EXCEPT ![proc[p].fd] = [lines |-> @.lines \cup {proc[p].line}, mtime |-> now]]
             /\ written' = written \cup {proc[p].line}
             /\ late' = IF dir["log"] = proc[p].fd THEN late ELSE late \cup {proc[p].line}
    <3>1. \A f \in 1 .. Len(files) : f # proc[p].fd => files'[f] = files[f]
      BY <1>4, <2>1, <2>3
    <3>2. files'[proc[p].fd].lines = files[proc[p].fd].lines \cup {proc[p].line}
      BY <1>4, <2>1, <2>3
    <3>3. \A f \in 1 .. Len(files) : files[f].lines \subseteq files'[f].lines
      BY <3>1, <3>2
    <3>4. CASE x \in written
      BY <1>6, <1>7, <2>1, <2>3, <3>3, <3>4
    <3>5. CASE x = proc[p].line /\ dir["log"] # proc[p].fd
      BY <2>3, <3>5
    <3>6. CASE x = proc[p].line /\ dir["log"] = proc[p].fd
      <4>1. dir'["log"] = proc[p].fd /\ dir'["log"] # 0 /\ x \in files'[dir'["log"]].lines
        BY <1>4, <2>1, <3>2, <3>6
      <4>2. QED
        BY <1>4, <4>1 DEF Holds
    <3>7. QED
      BY <1>2, <2>3, <3>4, <3>5, <3>6
  <2>4. QED
    BY <1>15, <2>2, <2>3, WriteIs
<1>16. ASSUME NEW p \in Procs,
              \/ archive_leftover(p) \/ archive_pending(p) \/ archive_gzip(p) \/ getmtime(p) \/ archive_name(p)
              \/ wait_pids(p) \/ tlog_close(p)
       PROVE  Holds(files', dir', archive', x) \/ x \in removed' \/ x \in late' \/ x \in replaced'
  <2>1. files' = files /\ archive' = archive /\ UNCHANGED <<written, removed, late, replaced>>
    BY <1>16 DEF archive_leftover, archive_pending, archive_gzip, getmtime, archive_name, wait_pids, tlog_close, disk,
                 history, together
  <2>2. dir' = dir \/ dir' = Unlocked(p, dir)
    BY <1>16 DEF archive_leftover, archive_pending, archive_gzip, getmtime, archive_name, wait_pids, tlog_close, disk,
                 Leave
  <2>3. Holds(files, dir, archive, x) => Holds(files', dir', archive', x)
    BY <1>9, <1>11, <2>1, <2>2 DEF disk
  <2>4. QED
    BY <1>2, <1>6, <2>1, <2>3
<1>10. ASSUME NEW p \in Procs, Leave(p), UNCHANGED <<files, archive, written, removed, late, replaced>>
       PROVE  Holds(files', dir', archive', x) \/ x \in removed' \/ x \in late' \/ x \in replaced'
  BY <1>2, <1>6, <1>9, <1>10 DEF Leave
<1>17. ASSUME NEW p \in Procs, archive_log(p)
       PROVE  Holds(files', dir', archive', x) \/ x \in removed' \/ x \in late' \/ x \in replaced'
  <2>1. UNCHANGED <<files, archive, written, removed, late>>
    BY <1>17 DEF archive_log
  <2>2. CASE Leave(p) /\ replaced' = replaced
    BY <1>10, <2>1, <2>2
  <2>3. CASE /\ dir' = [dir EXCEPT !["pending"] = dir["log"], !["log"] = 0]
             /\ replaced' = replaced \cup LinesIn(dir["pending"])
    <3>1. dir'["pending"] = dir["log"] /\ \A m \in Fixed : m \notin {"log", "pending"} => dir'[m] = dir[m]
      BY <1>4, <2>3
    <3>2. x \notin Procs
      BY <1>1, <1>2, <2>1, Setup DEF CountType, Lines
    <3>3. dir["pending"] # 0 /\ x \in files[dir["pending"]].lines => x \in replaced'
      BY <2>3, <3>2 DEF LinesIn
    <3>4. Holds(files, dir, archive, x) => Holds(files', dir', archive', x) \/ x \in replaced'
      BY <1>4, <2>1, <3>1, <3>3 DEF Holds
    <3>5. QED
      BY <1>2, <1>3, <2>1, <2>3, <3>4
  <2>4. QED
    BY <1>17, <2>2, <2>3 DEF archive_log
<1>29. ASSUME NEW p \in Procs, rename_logfile(p)
       PROVE  Holds(files', dir', archive', x) \/ x \in removed' \/ x \in late' \/ x \in replaced'
  <2> DEFINE n == proc[p].name
             old == IF n \in DOMAIN archive THEN archive[n] ELSE 0
  <2>1. UNCHANGED <<files, written, removed, late>>
    BY <1>29 DEF rename_logfile
  <2>2. CASE Leave(p) /\ archive' = archive /\ replaced' = replaced
    BY <1>10, <2>1, <2>2
  <2>3. CASE /\ dir[Target] # 0 /\ dir' = [dir EXCEPT ![Target] = 0]
             /\ archive' = [m \in DOMAIN archive \cup {n} |-> IF m = n THEN dir[Target] ELSE archive[m]]
             /\ replaced' = replaced \cup LinesIn(old)
    <3>1. Target \in Fixed
      BY <1>4 DEF Target
    <3>2. /\ DOMAIN archive' = DOMAIN archive \cup {n} /\ archive'[n] = dir[Target]
          /\ \A m \in DOMAIN archive : m # n => archive'[m] = archive[m]
          /\ \A m \in Fixed : m # Target => dir'[m] = dir[m]
      BY <1>4, <2>3, <3>1
    <3>3. x \notin Procs
      BY <1>1, <1>2, <2>1, Setup DEF CountType, Lines
    <3>4. n \in DOMAIN archive /\ x \in files[archive[n]].lines => x \in replaced'
      <4>1. n \in DOMAIN archive => old = archive[n] /\ old # 0
        BY <1>4
      <4> HIDE DEF old
      <4>2. QED
        BY <2>3, <3>3, <4>1 DEF LinesIn
    <3> HIDE DEF n, old
    <3>5. Holds(files, dir, archive, x) => Holds(files', dir', archive', x) \/ x \in replaced'
      <4>1. ASSUME NEW m \in Fixed, dir[m] # 0, x \in files[dir[m]].lines
            PROVE  Holds(files', dir', archive', x)
        BY <2>1, <3>2, <4>1 DEF Holds
      <4>2. ASSUME NEW m \in DOMAIN archive, x \in files[archive[m]].lines
            PROVE  Holds(files', dir', archive', x) \/ x \in replaced'
        BY <2>1, <3>2, <3>4, <4>2 DEF Holds
      <4>3. QED
        BY <4>1, <4>2 DEF Holds
    <3>6. QED
      BY <1>2, <1>3, <2>1, <2>3, <3>5
  <2>4. QED
    BY <1>29, <2>2, <2>3 DEF rename_logfile
<1>18. ASSUME NEW p \in Procs, remove_oldlog(p)
       PROVE  Holds(files', dir', archive', x) \/ x \in removed' \/ x \in late' \/ x \in replaced'
  <2>9. PICK k \in 0 .. Excess : \E R \in Oldest(k) :
          /\ archive' = Restrict(archive, DOMAIN archive \ R)
          /\ removed' = removed \cup ((UNION {f.lines : f \in {files[archive[n]] : n \in R}}) \ Procs)
    BY <1>18 DEF remove_oldlog
  <2>1. PICK R \in Oldest(k) :
          /\ archive' = Restrict(archive, DOMAIN archive \ R)
          /\ removed' = removed \cup ((UNION {f.lines : f \in {files[archive[n]] : n \in R}}) \ Procs)
    BY <2>9
  <2>2. dir' = Unlocked(p, dir) /\ UNCHANGED <<files, written, late, replaced>>
    BY <1>18 DEF remove_oldlog, Leave, together
  <2>3. /\ DOMAIN archive' = DOMAIN archive \ R
        /\ \A n \in DOMAIN archive : n \notin R => archive'[n] = archive[n]
    BY <2>1 DEF Restrict
  <2>4. x \notin Procs
    BY <1>1, <1>2, <2>2, Setup DEF CountType, Lines
  <2>5. \A n \in R : x \in files[archive[n]].lines => x \in removed'
    BY <2>1, <2>4
  <2>6. Holds(files, dir, archive, x) => Holds(files, dir', archive, x)
    <3>1. dir["lock"] # 0 => files[dir["lock"]].lines = {}
      BY <1>4 DEF Uses
    <3>2. \A m \in Fixed : dir'[m] = dir[m] \/ m = "lock"
      BY <1>4, <2>2 DEF Unlocked
    <3>3. QED
      BY <3>1, <3>2 DEF Holds
  <2>7. Holds(files, dir', archive, x) => Holds(files', dir', archive', x) \/ x \in removed'
    BY <2>2, <2>3, <2>5 DEF Holds
  <2>8. QED
    BY <1>2, <1>3, <2>1, <2>2, <2>6, <2>7
<1>19. ASSUME NEW g \in Gzips, gzip_open(g)
       PROVE  Holds(files', dir', archive', x) \/ x \in removed' \/ x \in late' \/ x \in replaced'
  <2>1. archive' = archive /\ UNCHANGED history
    BY <1>19 DEF gzip_open
  <2>2. \/ dir' = dir /\ files' = files
        \/ /\ dir["pending.gz"] = 0 /\ files' = Append(files, NewFile)
           /\ dir' = [dir EXCEPT !["pending.gz"] = Len(files) + 1]
    BY <1>19 DEF gzip_open
  <2>3. Holds(files, dir, archive, x) => Holds(files', dir', archive', x)
    BY <1>4, <1>8, <1>11, <2>1, <2>2 DEF disk
  <2>4. QED
    BY <1>2, <1>6, <2>1, <2>3 DEF history, together
<1>20. ASSUME NEW g \in Gzips, Busy(g)
       PROVE  /\ gz[g].in \in 1 .. Len(files) /\ gz[g].out \in 1 .. Len(files)
              /\ dir["pending"] = gz[g].in /\ dir["pending.gz"] = gz[g].out
  <2>1. gz[g].in # 0 /\ gz[g].out # 0
    BY <1>20 DEF IndInv, GzipFlow
  <2>2. gz[g].in \in 1 .. Len(files) /\ gz[g].out \in 1 .. Len(files)
    BY <1>4, <2>1 DEF Gzip
  <2>3. QED
    BY <1>3, <1>20, <2>2 DEF IndInv, OneGzip
<1>21. ASSUME NEW g \in Gzips, gz[g].st = "copy"
       PROVE  files[gz[g].out].lines = {}
  BY <1>3, <1>21 DEF IndInv, OneGzip
<1>22. ASSUME NEW g \in Gzips, gzip_copy(g)
       PROVE  Holds(files', dir', archive', x) \/ x \in removed' \/ x \in late' \/ x \in replaced'
  <2>1. dir' = dir /\ archive' = archive /\ UNCHANGED history
    BY <1>22 DEF gzip_copy
  <2>2. gz[g].st = "copy" /\ Busy(g) /\ files' = [files EXCEPT ![gz[g].out] = files[gz[g].in]]
    BY <1>22 DEF gzip_copy, Busy
  <2>3. \A f \in 1 .. Len(files) : f # gz[g].out => files'[f] = files[f]
    BY <1>4, <2>2
  <2>4. \A f \in 1 .. Len(files) : files[f].lines \subseteq files'[f].lines
    BY <1>21, <2>2, <2>3
  <2>5. QED
    BY <1>2, <1>6, <1>7, <2>1, <2>4 DEF history, together
<1>23. ASSUME NEW g \in Gzips, gzip_fail(g)
       PROVE  Holds(files', dir', archive', x) \/ x \in removed' \/ x \in late' \/ x \in replaced'
  <2>1. files' = files /\ archive' = archive /\ UNCHANGED history
    BY <1>23 DEF gzip_fail
  <2>2. \A n \in Fixed : dir'[n] = dir[n] \/ n = "pending.gz"
    BY <1>4, <1>23 DEF gzip_fail
  <2>3. files[dir["pending.gz"]].lines = {}
    BY <1>20, <1>21, <1>23 DEF gzip_fail, Busy
  <2>4. Holds(files, dir, archive, x) => Holds(files', dir', archive', x)
    BY <2>1, <2>2, <2>3 DEF Holds
  <2>5. QED
    BY <1>2, <1>6, <2>1, <2>4 DEF history, together
<1>24. ASSUME NEW g \in Gzips, gzip_unlink(g)
       PROVE  Holds(files', dir', archive', x) \/ x \in removed' \/ x \in late' \/ x \in replaced'
  <2>1. files' = files /\ archive' = archive /\ UNCHANGED history
    BY <1>24 DEF gzip_unlink
  <2>2. \A n \in Fixed : dir'[n] = dir[n] \/ n = "pending"
    BY <1>4, <1>24 DEF gzip_unlink
  <2>3. Busy(g) /\ gz[g].st = "unlink"
    BY <1>24 DEF gzip_unlink, Busy
  <2>4. files[dir["pending"]].lines \ Procs \subseteq (files[dir["pending.gz"]].lines \ Procs) \cup late
    <3>1. gz[g].in # 0 /\ gz[g].out # 0
      BY <1>20, <2>3
    <3>2. LinesIn(gz[g].in) \subseteq LinesIn(gz[g].out) \cup late
      BY <1>3, <2>3 DEF IndInv, OneGzip
    <3>3. QED
      BY <1>20, <2>3, <3>1, <3>2 DEF LinesIn
  <2>5. dir["pending.gz"] # 0 /\ dir'["pending.gz"] = dir["pending.gz"]
    BY <1>4, <1>20, <2>2, <2>3
  <2>6. x \notin Procs
    BY <1>1, <1>2, <2>1, Setup DEF CountType, Lines, history, together
  <2>7. Holds(files, dir, archive, x) => Holds(files', dir', archive', x) \/ x \in late
    BY <1>4, <2>1, <2>2, <2>4, <2>5, <2>6 DEF Holds
  <2>8. QED
    BY <1>2, <1>3, <2>1, <2>7 DEF history, together
<1>25. ASSUME NEW p \in Procs, log_lockf(p) \/ tlog_init(p) \/ tlog_exit(p) \/ crash(p)
       PROVE  UNCHANGED <<disk, written, removed, late, replaced>>
  BY <1>25 DEF log_lockf, tlog_init, tlog_exit, crash, history, together
<1>26. ASSUME tick \/ UNCHANGED vars
       PROVE  UNCHANGED <<disk, written, removed, late, replaced>>
  BY <1>26 DEF tick, vars, history, together
<1>27. CASE UNCHANGED <<disk, written, removed, late, replaced>>
  BY <1>2, <1>6, <1>11, <1>27
<1>28. QED
  BY <1>12, <1>13, <1>14, <1>15, <1>16, <1>17, <1>18, <1>19, <1>22, <1>23, <1>24, <1>25, <1>26, <1>27, <1>29
  DEF Next, worker, archive_step, gzip

-----------------------------------------------------------------------------
(* Two in the archive at once.                                             *)

(* Once they have been together they have.                                 *)
LEMMA SharedStays ==
  ASSUME IndInv, [Next]_vars, ~shared'
  PROVE  ~shared
<1>1. ASSUME NEW p \in Procs, log_lock(p) \/ log_lockf(p) \/ wait_pids(p) \/ tlog_close(p)
      PROVE  ~shared
  <2>1. \/ shared' = shared
        \/ shared' = (shared \/ \E q \in Procs \ {p} : proc[q].pc \in Archive)
    BY <1>1 DEF log_lock, log_lockf, wait_pids, tlog_close, Reap, Enter
  <2>2. QED
    BY <2>1, Zenon
<1>2. ASSUME NEW p \in Procs,
             \/ archive_leftover(p) \/ archive_pending(p) \/ archive_log(p) \/ archive_gzip(p) \/ getmtime(p)
             \/ archive_name(p) \/ rename_logfile(p) \/ remove_oldlog(p)
      PROVE  shared' = shared
  BY <1>2 DEF archive_leftover, archive_pending, archive_log, archive_gzip, getmtime, archive_name, rename_logfile,
              remove_oldlog, history, together
<1>3. ASSUME NEW p \in Procs, \/ write_open(p) \/ write_line(p) \/ write_begin(p)
                              \/ tlog_init(p) \/ tlog_exit(p) \/ crash(p)
      PROVE  shared' = shared
  BY <1>3 DEF history, together, write_open, write_line, write_begin, tlog_init, tlog_exit, crash
<1>4. CASE tick \/ UNCHANGED vars \/ \E g \in Gzips : gzip(g) \/ gzip_fail(g)
  BY <1>4 DEF history, together, tick, vars, gzip, gzip_open, gzip_copy, gzip_unlink, gzip_fail
<1>5. QED
  BY <1>1, <1>2, <1>3, <1>4 DEF Next, worker, archive_step

(* Who looks for a name finds it free when nobody else is there.           *)
LEMMA TogetherStep ==
  ASSUME IndInv, [Next]_vars
  PROVE  Together'
<1> DEFINE Alones == \A p, q \in Procs : proc[p].pc \in Archive /\ proc[q].pc \in Archive => p = q
           ToPend == \A p \in Procs : At(p, "topend") => dir["pending"] = 0
           ToName == \A p \in Procs : At(p, "rename") => proc[p].name \notin DOMAIN archive
<1>1. (~shared => Alones /\ ToPend /\ ToName) /\ (replaced # {} => shared)
  BY DEF IndInv, Together
<1>2. ~shared' => ~shared
  BY SharedStays
<1>3. SUFFICES ASSUME ~shared' PROVE Alones' /\ ToPend' /\ ToName' /\ replaced' = {}
  <2>1. shared' => Together'
    BY DEF Together
  <2>2. QED
    BY <1>3, <2>1 DEF Together
<1>4. ~shared /\ Alones /\ ToPend /\ ToName /\ replaced = {}
  BY <1>1, <1>2, <1>3
<1>5. proc \in [Procs -> Log] /\ dir \in [Fixed -> Ino] /\ "pending" \in Fixed /\ "lock" \in Fixed /\ Target \in Fixed
  BY DEF IndInv, ProcType, DiskType, Fixed, Target
<1>6. ASSUME NEW p \in Procs, worker(p) \/ write_begin(p) \/ tlog_init(p) \/ tlog_exit(p) \/ crash(p)
      PROVE  \A q \in Procs \ {p} : proc'[q] = proc[q]
  BY <1>6, OwnStep
(* A process that is in the archive moves on in it, or out of it.          *)
<1>7. ASSUME NEW p \in Procs,
             \/ archive_leftover(p) \/ archive_pending(p) \/ archive_log(p) \/ archive_gzip(p) \/ getmtime(p)
             \/ archive_name(p) \/ rename_logfile(p) \/ remove_oldlog(p)
      PROVE  Alones' /\ ToPend' /\ ToName' /\ replaced' = {}
  <2>1. proc[p].pc \in Archive /\ \A q \in Procs \ {p} : proc'[q] = proc[q] /\ proc[q].pc \notin Archive
    BY <1>4, <1>6, <1>7, StepIs DEF worker, archive_step
  <2>2. Alones'
    BY <2>1
  <2>3. \A q \in Procs \ {p} : ~At(q, "topend")' /\ ~At(q, "rename")'
    BY <2>1 DEF At, Archive
  <2>4. At(p, "topend")' => archive_pending(p)
    BY <1>7, StepIs DEF At, archive_leftover, archive_pending, archive_log, archive_gzip, getmtime, archive_name,
                        rename_logfile, remove_oldlog
  <2>5. At(p, "topend")' => dir'["pending"] = 0
    <3>1. SUFFICES ASSUME archive_pending(p), At(p, "topend")' PROVE dir'["pending"] = 0
      BY <2>4
    <3>2. dir' = dir /\ Goto(p, IF dir["pending"] = 0 THEN "topend" ELSE IF mode.nocompress THEN "stat" ELSE "zip")
      BY <3>1 DEF archive_pending, disk
    <3>3. dir["pending"] # 0 => proc'[p].pc \in {"stat", "zip"}
      BY <1>5, <3>2 DEF Goto, Log
    <3>4. QED
      BY <3>1, <3>2, <3>3 DEF At
  <2>6. At(p, "rename")' => archive_name(p)
    BY <1>7, StepIs DEF At, archive_leftover, archive_pending, archive_log, archive_gzip, getmtime, archive_name,
                        rename_logfile, remove_oldlog
  <2>7. At(p, "rename")' => proc'[p].name \notin DOMAIN archive'
    <3>1. SUFFICES ASSUME archive_name(p), At(p, "rename")' PROVE proc'[p].name \notin DOMAIN archive'
      BY <2>6
    <3>2. archive' = archive /\ At(p, "free")
      BY <3>1 DEF archive_name, disk
    <3>3. proc[p].name \in DOMAIN archive => proc'[p].pc = "free"
      BY <1>5, <3>1, <3>2 DEF archive_name, At, Log
    <3>4. proc[p].name \notin DOMAIN archive
      BY <3>1, <3>3 DEF At
    <3>5. proc'[p].name = proc[p].name
      BY <1>5, <3>1, <3>4 DEF archive_name, Goto, Log
    <3>6. QED
      BY <3>2, <3>4, <3>5
  <2>8. replaced' = {}
    <3>1. CASE replaced' = replaced
      BY <1>4, <3>1
    <3>2. CASE archive_log(p) /\ replaced' = replaced \cup LinesIn(dir["pending"])
      <4>1. dir["pending"] = 0
        BY <1>4, <3>2 DEF archive_log
      <4>2. QED
        BY <1>4, <3>2, <4>1 DEF LinesIn
    <3>3. CASE rename_logfile(p) /\ replaced' = replaced \cup LinesIn(IF proc[p].name \in DOMAIN archive THEN archive[proc[p].name] ELSE 0)
      <4>1. proc[p].name \notin DOMAIN archive
        BY <1>4, <3>3 DEF rename_logfile
      <4>2. QED
        BY <1>4, <3>3, <4>1 DEF LinesIn
    <3>4. QED
      BY <1>7, <3>1, <3>2, <3>3 DEF archive_leftover, archive_pending, archive_log, archive_gzip, getmtime,
         archive_name, rename_logfile, remove_oldlog, history, together
  <2>9. QED
    BY <2>2, <2>3, <2>5, <2>7, <2>8
(* One that comes in finds nobody there.                                   *)
<1>8. ASSUME dir'["pending"] = dir["pending"], archive' = archive, replaced' = replaced,
             \A p \in Procs : /\ At(p, "topend")' => At(p, "topend")
                              /\ At(p, "rename")' => At(p, "rename") /\ proc'[p].name = proc[p].name
      PROVE  ToPend' /\ ToName' /\ replaced' = {}
  BY <1>4, <1>8
<1>9. ASSUME NEW p \in Procs, proc'[p].pc \in {"gz", "pend", "stat"}, Enter(p),
             \A q \in Procs \ {p} : proc'[q] = proc[q],
             dir'["pending"] = dir["pending"], archive' = archive, replaced' = replaced
      PROVE  Alones' /\ ToPend' /\ ToName' /\ replaced' = {}
  <2>1. \A q \in Procs \ {p} : proc[q].pc \notin Archive
    BY <1>3, <1>9, Zenon DEF Enter
  <2>2. Alones'
    BY <1>9, <2>1
  <2>3. \A q \in Procs : /\ At(q, "topend")' => At(q, "topend")
                         /\ At(q, "rename")' => At(q, "rename") /\ proc'[q].name = proc[q].name
    BY <1>9 DEF At
  <2>4. QED
    BY <1>8, <1>9, <2>2, <2>3
<1>10. ASSUME NEW p \in Procs, proc'[p].pc \notin Archive, \A q \in Procs \ {p} : proc'[q] = proc[q],
              dir'["pending"] = dir["pending"], archive' = archive, replaced' = replaced
       PROVE  Alones' /\ ToPend' /\ ToName' /\ replaced' = {}
  <2>1. Alones'
    BY <1>4, <1>10
  <2>2. \A q \in Procs : /\ At(q, "topend")' => At(q, "topend")
                         /\ At(q, "rename")' => At(q, "rename") /\ proc'[q].name = proc[q].name
    BY <1>10 DEF At, Archive
  <2>3. QED
    BY <1>8, <1>10, <2>1, <2>2
<1>11. ASSUME NEW p \in Procs, log_lock(p) \/ log_lockf(p)
       PROVE  Alones' /\ ToPend' /\ ToName' /\ replaced' = {}
  <2>1. /\ dir'["pending"] = dir["pending"] /\ archive' = archive /\ replaced' = replaced
        /\ \A q \in Procs \ {p} : proc'[q] = proc[q]
    BY <1>5, <1>6, <1>11 DEF log_lock, log_lockf, disk, worker, archive_step
  <2>2. \/ proc'[p].pc \in {"lockf", "open"}
        \/ proc'[p].pc = FirstStep /\ Enter(p)
    <3>1. CASE log_lock(p)
      BY <1>5, <3>1 DEF log_lock, Goto, Log
    <3>2. CASE log_lockf(p)
      <4>1. \/ proc' = [proc EXCEPT ![p] = [proc[p] EXCEPT !.lockfd = 0, !.pc = "open"]]
            \/ /\ proc' = [proc EXCEPT ![p] = [proc[p] EXCEPT !.lockfd = 0, !.fd_lock = proc[p].lockfd, !.pc = FirstStep]]
               /\ Enter(p)
        BY <3>2 DEF log_lockf
      <4>2. QED
        BY <1>5, <4>1 DEF Log
    <3>3. QED
      BY <1>11, <3>1, <3>2
  <2>3. FirstStep \in {"gz", "pend"}
    BY DEF FirstStep
  <2>4. QED
    BY <1>9, <1>10, <2>1, <2>2, <2>3 DEF Archive
<1>12. ASSUME NEW p \in Procs, wait_pids(p) \/ tlog_close(p)
       PROVE  Alones' /\ ToPend' /\ ToName' /\ replaced' = {}
  <2>1. /\ dir'["pending"] = dir["pending"] /\ archive' = archive /\ replaced' = replaced
        /\ \A q \in Procs \ {p} : proc'[q] = proc[q]
    BY <1>5, <1>6, <1>12 DEF wait_pids, tlog_close, disk, worker, Unlocked
  <2>2. \/ proc'[p].pc = "stat" /\ Enter(p)
        \/ proc'[p].pc \in {"idle", "off"}
    BY <1>5, <1>12 DEF wait_pids, tlog_close, Reap, Goto, Log, Closed, At
  <2>3. QED
    BY <1>9, <1>10, <2>1, <2>2 DEF Archive
<1>13. ASSUME NEW p \in Procs, \/ write_open(p) \/ write_line(p) \/ write_begin(p)
                               \/ tlog_init(p) \/ tlog_exit(p) \/ crash(p)
       PROVE  Alones' /\ ToPend' /\ ToName' /\ replaced' = {}
  <2>1. \A q \in Procs \ {p} : proc'[q] = proc[q]
    BY <1>6, <1>13 DEF worker
  <2>2. archive' = archive /\ replaced' = replaced
    BY <1>13 DEF write_open, write_line, write_begin, tlog_init, tlog_exit, crash, disk, history, together
  <2>3. dir'["pending"] = dir["pending"]
    <3>1. CASE write_open(p)
      BY <1>5, <3>1, OpenIs DEF disk
    <3>2. QED
      BY <1>13, <3>1 DEF write_line, write_begin, tlog_init, tlog_exit, crash, disk
  <2>4. proc'[p].pc \notin Archive
    <3>1. CASE write_open(p)
      BY <3>1, OpenIs DEF Archive
    <3>2. CASE write_line(p)
      BY <3>2, WriteIs DEF Archive
    <3>3. CASE write_begin(p)
      BY <3>3, BeginIs DEF Archive
    <3>4. CASE tlog_init(p) \/ tlog_exit(p) \/ crash(p)
      BY <1>5, <3>4 DEF tlog_init, tlog_exit, crash, Opened, Closed, Archive, Log
    <3>5. QED
      BY <1>13, <3>1, <3>2, <3>3, <3>4
  <2>5. QED
    BY <1>10, <2>1, <2>2, <2>3, <2>4
<1>14. CASE tick \/ UNCHANGED vars \/ \E g \in Gzips : gzip(g) \/ gzip_fail(g)
  <2>1. \A p \in Procs : proc'[p].pc = proc[p].pc /\ proc'[p].name = proc[p].name
    <3>1. CASE tick
      BY <1>5, <3>1 DEF tick, Log
    <3>2. QED
      BY <1>14, <3>1 DEF vars, gzip, gzip_open, gzip_copy, gzip_unlink, gzip_fail
  <2>2. archive' = archive /\ replaced' = replaced /\ dir'["pending"] \in {0, dir["pending"]}
    BY <1>5, <1>14 DEF tick, vars, disk, history, together, gzip, gzip_open, gzip_copy, gzip_unlink, gzip_fail
  <2>3. QED
    BY <1>4, <2>1, <2>2 DEF At
<1>15. QED
  BY <1>7, <1>11, <1>12, <1>13, <1>14 DEF Next, worker, archive_step

-----------------------------------------------------------------------------
(* The theorems.                                                           *)

(* A log that is not there, or one with lines in it.                       *)
LEMMA InitIsFine ==
  ASSUME Init
  PROVE  IndInv /\ LossExplained
<1>1. CountType
  <2>1. mode.old \in 0 .. mode.lines /\ mode.lines \in Nat /\ mode.seconds \in Nat \ {0}
        /\ mode.crashes \in Nat /\ mode.exits \in Nat /\ mode.faults \in Nat
    BY FilesAssumption DEF Init
  <2>2. /\ now \in 1 .. mode.seconds /\ crashes \in 0 .. mode.crashes
        /\ exits \in 0 .. mode.exits /\ faults \in 0 .. mode.faults
        /\ lines \in 0 .. mode.lines /\ cut \in 0 .. mode.seconds
    BY <2>1 DEF Init
  <2>3. written \subseteq Lines /\ removed \subseteq Lines /\ late \subseteq Lines /\ replaced \subseteq Lines
    BY <2>1 DEF Init, Lines
  <2>4. mode \in Setups /\ alone \in BOOLEAN /\ shared \in BOOLEAN /\ overlap \in BOOLEAN
    BY Zenon DEF Init
  <2>5. QED
    BY <2>2, <2>3, <2>4 DEF CountType
<1>2. /\ mode.old \in 0 .. mode.lines /\ mode.lines \in Nat /\ mode.seconds \in Nat \ {0}
      /\ mode.multi \in BOOLEAN /\ \A p \in Procs : p \notin Nat
  BY <1>1, Setup
<1>3. files \in Seq(File) /\ Len(files) = (IF mode.old = 0 THEN 0 ELSE 1)
  <2>1. CASE mode.old = 0
    BY <2>1 DEF Init
  <2>2. CASE mode.old # 0
    <3> DEFINE r == [lines |-> 1 .. mode.old, mtime |-> 1]
    <3>1. r \in File /\ files = <<r>>
      BY <1>2, <2>2 DEF Init, File, Lines
    <3> HIDE DEF r
    <3>2. QED
      BY <2>2, <3>1
  <2>3. QED
    BY <2>1, <2>2
<1>4. /\ dir \in [Fixed -> Ino] /\ dir["pending"] = 0 /\ dir["pending.gz"] = 0 /\ dir["lock"] = 0
      /\ dir["log"] = (IF mode.old = 0 THEN 0 ELSE 1) /\ 0 \in Ino /\ \A n \in Fixed : n # "log" => dir[n] = 0
  BY <1>2, <1>3 DEF Init, Ino, Fixed
<1>5. DiskType
  <2>1. archive = << >> /\ DOMAIN archive = {}
    BY DEF Init
  <2>2. QED
    BY <1>3, <1>4, <2>1, FS_EmptySet DEF DiskType
<1>6. /\ gz = [g \in Gzips |-> NoGzip] /\ NoGzip \in Gzip /\ NoGzip.st = "none" /\ NoGzip.out = 0
  BY <1>4 DEF Init, NoGzip, Gzip
<1>7. proc = [p \in Procs |-> Closed] /\ Closed \in Log /\ Closed.pc = "off" /\ Closed.fd = 0
  <2>1. 0 \in 0 .. mode.lines
    BY <1>2
  <2>2. QED
    BY <1>2, <1>4, <2>1 DEF Init, Closed, Log, Labels
<1>8. ProcType
  BY <1>6, <1>7 DEF ProcType
<1>9. Flow
  BY <1>6, <1>7 DEF Flow, FlowOf, Logging, Archiving, Archive, Naming, Gzips
<1>10. GzipFlow
  BY <1>6 DEF GzipFlow, Busy, Gzips
<1>11. Uses
  BY <1>4, <1>6, <1>7 DEF Uses
<1>12. OneGzip
  BY <1>6 DEF OneGzip, Busy
<1>13. LossExplained
  <2>1. \A x \in written : dir["log"] # 0 /\ x \in files[dir["log"]].lines
    BY <1>2, <1>4 DEF Init
  <2>2. \A x \in written : Holds(files, dir, archive, x)
    BY <2>1 DEF Holds, Fixed
  <2>3. QED
    BY <1>1, <1>5, <2>2, LossByLine
<1>15. Together
  BY <1>7 DEF Together, At, Archive, Init
<1>14. QED
  BY <1>1, <1>5, <1>8, <1>9, <1>10, <1>11, <1>12, <1>13, <1>15 DEF IndInv

(* The invariant is inductive.                                             *)
LEMMA IndInvStep ==
  ASSUME IndInv, [Next]_vars
  PROVE  IndInv'
<1>1. DiskType'
  BY FilesStep, DirStep, ArchiveStep, SetupFixed DEF DiskType
<1>2. ProcType'
  BY ProcStep DEF ProcType
<1>3. QED
  BY <1>1, <1>2, CountStep, FlowStep, GzipFlowStep, UsesStep, OneGzipStep, TogetherStep DEF IndInv

(* It holds of every state of the log.                                     *)
LEMMA Invariant == Spec => [](IndInv /\ LossExplained)
<1>1. Init => IndInv /\ LossExplained
  BY InitIsFine
<1>2. IndInv /\ LossExplained /\ [Next]_vars => (IndInv /\ LossExplained)'
  BY IndInvStep, LossStep
<1>3. QED
  BY <1>1, <1>2, PTL DEF Spec

(* Names lead to files that were made, handles to files that were opened,  *)
(* counters stay in their ranges.                                          *)
THEOREM TypeCorrect == Spec => []TypeOK
<1>1. IndInv => TypeOK
  <2>1. SUFFICES ASSUME IndInv PROVE TypeOK
    OBVIOUS
  <2>2. /\ files \in Seq([lines : SUBSET (Lines \cup Procs), mtime : 1 .. mode.seconds])
        /\ dir \in [Fixed -> Ino]
        /\ DOMAIN archive \subseteq (1 .. mode.seconds) \X Nat
    BY <2>1 DEF IndInv, DiskType, File
  <2>3. Range(archive) \subseteq Ino \ {0}
    BY <2>1 DEF IndInv, DiskType, Range
  <2>4. gz \in [Gzips -> [st : {"none", "start", "copy", "unlink", "done"}, in : Ino, out : Ino]]
    BY <2>1 DEF IndInv, ProcType, Gzip
  <2>5. ASSUME NEW p \in Procs
        PROVE  /\ proc[p].pc \in Archive \cup {"off", "idle", "lock", "lockf", "open", "write", "exit"}
               /\ proc[p].name \in {NoName} \cup ((1 .. mode.seconds) \X Nat)
               /\ proc[p].fd \in Ino /\ proc[p].fd_lock \in Ino /\ proc[p].lockfd \in Ino
               /\ proc[p].filesize \in Nat /\ proc[p].line \in 0 .. mode.lines
               /\ {proc[p].multi_log, proc[p].tried, proc[p].waited, proc[p].quit} \subseteq BOOLEAN
    <3>1. proc[p] \in Log
      BY <2>1 DEF IndInv, ProcType
    <3>2. QED
      BY <3>1 DEF Log, Labels, Logging, Archiving, Archive, Name
  <2>6. QED
    BY <2>1, <2>2, <2>3, <2>4, <2>5 DEF IndInv, CountType, TypeOK
<1>2. QED
  BY <1>1, Invariant, PTL

(* A written line is in a file with a name, was removed with an old        *)
(* archive, came to a file that another process had moved or was in a file *)
(* another one was renamed over, unless somebody started on .pending or    *)
(* .pending.gz before the gzip at work on it had ended: for any number of  *)
(* processes, lines, crashes and failures, and with any step of another    *)
(* process between access and rename.                                      *)
THEOREM LossIsExplained == Spec => []LossExplained
BY Invariant, PTL

(* A rename of _tlog_rename_logfile, or of the log to .pending, replaces a *)
(* file with lines only after two processes were in the archive at once:   *)
(* for any number of processes, with or without the lock.                  *)
THEOREM RenamesReplaceTogether == Spec => []ReplacedTogether
<1>1. IndInv => ReplacedTogether
  BY DEF IndInv, Together, ReplacedTogether
<1>2. QED
  BY <1>1, Invariant, PTL

================================================================================
