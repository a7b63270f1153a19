------------------------------- MODULE TLogFiles -------------------------------
(***************************************************************************)
(* The files of the logger of useapp/tlog.c: _tlog_write appends to the    *)
(* log file and, when it has grown past logsize, moves it out of the way   *)
(* (.pending), has a gzip process compress it (.pending.gz), gives the     *)
(* result a name made of the second of its last write and removes the      *)
(* oldest archives.                                                        *)
(*                                                                         *)
(* A file is what an inode is to the kernel: it lives on under another     *)
(* name, or none, while somebody has it open.  A step is one system call   *)
(* on the directory (only _tlog_remove_oldlog and _tlog_log_unlock are one *)
(* step with several): between looking for a name and using it another     *)
(* process may come.  access is taken to find a file that is there.        *)
(* Several processes may log to one file (TLOG_MULTI_WRITE); a process may *)
(* be killed, or replaced by execlp as the daemon is on SIGHUP, at any     *)
(* step, and the gzip it has started goes on without it.                   *)
(***************************************************************************)
EXTENDS Integers, Sequences, FiniteSets, FiniteSetsExt, Functions

CONSTANTS
  Procs,       \* processes that log to the same file
  LogSize,     \* log->logsize, in lines
  LogCount,    \* log->logcount
  Setups,      \* how the log is used, see below
  MaxCrashes   \* bound: crashes in any setup

(* A setup says which processes log (procs), with which flags (nocompress, *)
(* multi), how many lines the log file holds to begin with (old), and the  *)
(* bounds: lines in all (lines), crashes, calls of tlog_exit (exits),      *)
(* failed system calls and gzips (faults), seconds told apart (seconds).   *)

(* A size of 0 turns logging off; tlog_open replaces a count of 0.         *)
ASSUME FilesAssumption ==
  /\ IsFiniteSet(Procs) /\ Procs \cap Nat = {}
  /\ LogSize \in Nat \ {0} /\ LogCount \in Nat \ {0}
  /\ IsFiniteSet(Setups)
  /\ \A s \in Setups :
       /\ s.procs \subseteq Procs /\ {s.nocompress, s.multi} \subseteq BOOLEAN
       /\ {s.lines, s.exits, s.faults} \subseteq Nat
       /\ s.old \in 0 .. s.lines /\ s.crashes \in 0 .. MaxCrashes
       /\ s.seconds \in Nat \ {0}
  /\ MaxCrashes \in Nat

VARIABLES
  mode,      \* the setup
  files,     \* every file there ever was: its lines and the second of the last write
  dir,       \* the file under each fixed name, 0 when there is none
  archive,   \* the files under archive names <<second, number>>
  gz,        \* gzip processes: one child per process, and the orphans of crashes
  proc,      \* struct tlog_log and the program counter, per process
  now,       \* the current second
  crashes, exits, faults,
  (* history: lines given to _tlog_write, lines written, lines in removed  *)
  (* archives, lines written to a file that was no longer the log, the     *)
  (* latest last write among the removed archives                          *)
  lines, written, removed, late, cut,
  replaced,  \* history: lines of files another was renamed over
  alone,     \* history: no two processes have had the log open at once
  shared,    \* history: two processes have been in the archive at once
  overlap    \* history: a gzip was started before an earlier one was waited for or, if an
             \* orphan, over; or what it had not finished was archived

disk    == <<files, dir, archive>>
together == <<replaced, shared, overlap>>
history == <<written, removed, late, cut, alone, together>>
budget  == <<crashes, exits, faults>>
vars    == <<mode, disk, gz, proc, now, budget, lines, history>>

Fixed  == {"log", "pending", "pending.gz", "lock"}
Lines  == 1 .. mode.lines
Gzips  == Procs \cup (1 .. MaxCrashes)

NoGzip  == [st |-> "none", in |-> 0, out |-> 0]
NewGzip == [NoGzip EXCEPT !.st = "start"]

NoName  == <<0, 0>>

Closed == [pc |-> "off", fd |-> 0, filesize |-> 0, fd_lock |-> 0, lockfd |-> 0, name |-> NoName,
           multi_log |-> mode.multi, tried |-> FALSE, waited |-> FALSE, quit |-> FALSE, line |-> 0]
Opened == [Closed EXCEPT !.pc = "idle"]

Ino == 0 .. Len(files)
Archive == {"gz", "pend", "topend", "stat", "free", "rename", "zip", "remove"}

TypeOK ==
  /\ mode \in Setups
  /\ files \in Seq([lines : SUBSET (Lines \cup Procs), mtime : 1 .. mode.seconds])
  /\ dir \in [Fixed -> Ino]
  /\ DOMAIN archive \subseteq (1 .. mode.seconds) \X Nat /\ Range(archive) \subseteq Ino \ {0}
  /\ gz \in [Gzips -> [st : {"none", "start", "copy", "unlink", "done"}, in : Ino, out : Ino]]
  /\ \A p \in Procs :
       /\ proc[p].pc \in Archive \cup {"off", "idle", "lock", "lockf", "open", "write", "exit"}
       /\ proc[p].name \in {NoName} \cup ((1 .. mode.seconds) \X Nat)
       /\ proc[p].fd \in Ino /\ proc[p].fd_lock \in Ino /\ proc[p].lockfd \in Ino
       /\ proc[p].filesize \in Nat /\ proc[p].line \in 0 .. mode.lines
       /\ {proc[p].multi_log, proc[p].tried, proc[p].waited, proc[p].quit} \subseteq BOOLEAN
  /\ now \in 1 .. mode.seconds /\ crashes \in 0 .. mode.crashes
  /\ exits \in 0 .. mode.exits /\ faults \in 0 .. mode.faults
  /\ lines \in 0 .. mode.lines
  /\ written \cup removed \cup late \cup replaced \subseteq Lines /\ cut \in 0 .. mode.seconds
  /\ alone \in BOOLEAN /\ shared \in BOOLEAN /\ overlap \in BOOLEAN

Init ==
  /\ mode \in Setups
  /\ files = IF mode.old = 0 THEN <<>> ELSE <<[lines |-> 1 .. mode.old, mtime |-> 1]>>
  /\ dir = [n \in Fixed |-> IF n = "log" /\ mode.old > 0 THEN 1 ELSE 0]
  /\ archive = << >>
  /\ gz = [g \in Gzips |-> NoGzip]
  /\ proc = [p \in Procs |-> Closed]
  /\ now = 1
  /\ crashes = 0 /\ exits = 0 /\ faults = 0
  /\ lines = mode.old
  /\ written = 1 .. mode.old /\ removed = {} /\ late = {} /\ cut = 0 /\ replaced = {}
  /\ alone = TRUE /\ shared = FALSE /\ overlap = FALSE

Size(f)     == Cardinality(files[f].lines)
NewFile     == [lines |-> {}, mtime |-> now]
At(p, pc)   == proc[p].pc = pc
Goto(p, pc) == proc' = [proc EXCEPT ![p].pc = pc]

LinesIn(f)  == IF f = 0 THEN {} ELSE files[f].lines \ Procs

(* A system call, a fork or a gzip fails.                                  *)
Fault == faults < mode.faults /\ faults' = faults + 1

-----------------------------------------------------------------------------
(* The steps of the archive.                                               *)

(* _tlog_log_unlock: the lock file is removed, then closed.                *)
Unlocked(p, d) == IF proc[p].fd_lock = 0 THEN d ELSE [d EXCEPT !["lock"] = 0]

(* The archive ends, with or without success, and is unlocked: it was part *)
(* of _tlog_write, of _tlog_close or of the worker's round.                *)
Leave(p) ==
  LET s == proc[p]
  IN  /\ dir' = Unlocked(p, dir)
      /\ proc' = [proc EXCEPT ![p] =
           [s EXCEPT !.fd_lock = 0, !.name = NoName,
                     !.pc = IF s.line # 0 THEN "open" ELSE IF s.quit THEN "exit" ELSE "idle"]]

(* The file to be archived.                                                *)
Target == IF mode.nocompress THEN "pending" ELSE "pending.gz"

(* Mutant: one archive too few is removed.                                 *)
Excess_few ==
  LET n == Cardinality(DOMAIN archive) - LogCount - 1
  IN  IF n > 0 THEN n ELSE 0

Excess ==
  LET n == Cardinality(DOMAIN archive) - LogCount
  IN  IF n > 0 THEN n ELSE 0

(* Mutant: the newest archives.                                            *)
Oldest_newest(k) ==
  LET mtime(n) == files[archive[n]].mtime
  IN  {R \in SUBSET DOMAIN archive :
         Cardinality(R) = k /\ \A r \in R, n \in DOMAIN archive \ R : mtime(r) >= mtime(n)}

(* What _tlog_remove_oldestlog may remove when it is called k times: one   *)
(* after the other the archive with the oldest last write; among those of  *)
(* one second the order of readdir decides.                                *)
Oldest(k) ==
  LET mtime(n) == files[archive[n]].mtime
  IN  {R \in SUBSET DOMAIN archive :
         Cardinality(R) = k /\ \A r \in R, n \in DOMAIN archive \ R : mtime(r) <= mtime(n)}

FirstStep == IF mode.nocompress THEN "pend" ELSE "gz"
Enter(p)  == shared' = (shared \/ \E q \in Procs \ {p} : proc[q].pc \in Archive)

(* _tlog_log_lock, first half: only processes that know of others lock.    *)
(* When the lock file cannot be made there is no archive.                  *)
log_lock(p) ==
  LET f == IF dir["lock"] = 0 THEN Len(files) + 1 ELSE dir["lock"]
  IN
  /\ At(p, "lock")
  /\ \/ ~proc[p].multi_log /\ Goto(p, FirstStep) /\ Enter(p) /\ UNCHANGED <<files, dir, faults>>
     \/ /\ proc[p].multi_log
        /\ files' = IF f > Len(files) THEN Append(files, NewFile) ELSE files
        /\ dir' = [dir EXCEPT !["lock"] = f]
        /\ proc' = [proc EXCEPT ![p].pc = "lockf", ![p].lockfd = f]
        /\ UNCHANGED <<faults, shared>>
     \/ proc[p].multi_log /\ Fault /\ Goto(p, "open") /\ UNCHANGED <<files, dir, shared>>
  /\ UNCHANGED <<mode, archive, gz, now, crashes, exits, lines, written, removed, late, cut, alone,
                 replaced, overlap>>

(* _tlog_log_lock, second half: lockf on the file that was opened, whether *)
(* or not it is still the one under the name.                              *)
log_lockf(p) ==
  LET s == proc[p]
      held == \E q \in Procs \ {p} : proc[q].fd_lock = s.lockfd
  IN
  /\ At(p, "lockf")
  /\ \/ /\ held
        /\ proc' = [proc EXCEPT ![p] = [s EXCEPT !.lockfd = 0, !.pc = "open"]]
        /\ UNCHANGED shared
     \/ /\ ~held
        /\ proc' = [proc EXCEPT ![p] = [s EXCEPT !.lockfd = 0, !.fd_lock = s.lockfd, !.pc = FirstStep]]
        /\ Enter(p)
  /\ UNCHANGED <<mode, disk, gz, now, budget, lines, written, removed, late, cut, alone, replaced, overlap>>

(* _tlog_archive_log_compressed: a .pending.gz left by a gzip nobody       *)
(* waited for, or that could not be archived, is archived first.           *)
archive_leftover(p) ==
  /\ At(p, "gz")
  /\ Goto(p, IF dir["pending.gz"] # 0 THEN "stat" ELSE "pend")
  /\ UNCHANGED <<mode, disk, gz, now, budget, lines, history>>

(* Mutant: nobody looks for an earlier .pending.                           *)
archive_pending_blind(p) ==
  /\ At(p, "pend")
  /\ Goto(p, "topend")
  /\ UNCHANGED <<mode, disk, gz, now, budget, lines, history>>

(* An earlier .pending is to be archived before the log.                   *)
archive_pending(p) ==
  /\ At(p, "pend")
  /\ Goto(p, IF dir["pending"] = 0 THEN "topend" ELSE IF mode.nocompress THEN "stat" ELSE "zip")
  /\ UNCHANGED <<mode, disk, gz, now, budget, lines, history>>

(* gzip removes .pending by its name when it is done with a file: a new    *)
(* file must not get this name, nor .pending.gz another, under its hands.  *)
Disturbed == overlap' = (overlap \/ \E g \in Gzips : gz[g].st \in {"copy", "unlink"})

(* The log becomes .pending.                                               *)
archive_log(p) ==
  /\ At(p, "topend")
  /\ \/ /\ dir["log"] # 0
        /\ dir' = [dir EXCEPT !["pending"] = dir["log"], !["log"] = 0]
        /\ replaced' = replaced \cup LinesIn(dir["pending"])
        /\ Disturbed
        /\ Goto(p, IF mode.nocompress THEN "stat" ELSE "zip")
        /\ UNCHANGED faults
     \/ /\ \/ dir["log"] = 0 /\ UNCHANGED faults
           \/ Fault
        /\ Leave(p) /\ UNCHANGED <<replaced, overlap>>
  /\ UNCHANGED <<mode, files, archive, gz, now, crashes, exits, lines, written, removed, late, cut,
                 alone, shared>>

(* A gzip is started; the lock is kept until it has been waited for.       *)
archive_gzip(p) ==
  /\ At(p, "zip")
  /\ \/ /\ gz' = [gz EXCEPT ![p] = NewGzip] /\ Goto(p, "open")
        /\ overlap' = (overlap \/ \E g \in Gzips : gz[g] # NoGzip)
        /\ UNCHANGED <<dir, faults>>
     \/ Fault /\ Leave(p) /\ UNCHANGED <<gz, overlap>>
  /\ UNCHANGED <<mode, files, archive, now, crashes, exits, lines, written, removed, late, cut, alone,
                 replaced, shared>>

(* _tlog_rename_logfile: the name is made of the second of the last write. *)
getmtime(p) ==
  LET f == dir[Target]
  IN
  /\ At(p, "stat")
  /\ \/ /\ f # 0
        /\ proc' = [proc EXCEPT ![p].name = <<files[f].mtime, 0>>, ![p].pc = "free"]
        /\ UNCHANGED <<dir, faults>>
     \/ /\ \/ f = 0 /\ UNCHANGED faults
           \/ Fault
        /\ Leave(p)
  /\ UNCHANGED <<mode, files, archive, gz, now, crashes, exits, lines, history>>

(* Mutant: the name is not looked for.                                     *)
archive_name_blind(p) ==
  /\ At(p, "free")
  /\ Goto(p, "rename")
  /\ UNCHANGED <<mode, disk, gz, now, budget, lines, history>>

(* A number tells the files of one second apart: the next one is tried     *)
(* while the name is taken.                                                *)
archive_name(p) ==
  /\ At(p, "free")
  /\ IF proc[p].name \in DOMAIN archive
     THEN proc' = [proc EXCEPT ![p].name = <<@[1], @[2] + 1>>]
     ELSE Goto(p, "rename")
  /\ UNCHANGED <<mode, disk, gz, now, budget, lines, history>>

(* Mutant: .pending.gz is removed.                                         *)
rename_logfile_unlink(p) ==
  /\ At(p, "rename") /\ dir[Target] # 0
  /\ dir' = [dir EXCEPT ![Target] = 0]
  /\ proc' = [proc EXCEPT ![p].name = NoName,
                          ![p].pc = IF mode.nocompress \/ proc[p].line = 0 THEN "remove" ELSE "pend"]
  /\ UNCHANGED <<mode, files, archive, gz, now, budget, lines, history>>

(* The file gets the name, whoever has it by now.  The removal of old      *)
(* archives follows, but not after a leftover.                             *)
rename_logfile(p) ==
  LET f == dir[Target]
      name == proc[p].name
  IN
  /\ At(p, "rename")
  /\ \/ /\ f # 0
        /\ archive' = [n \in DOMAIN archive \cup {name} |-> IF n = name THEN f ELSE archive[n]]
        /\ dir' = [dir EXCEPT ![Target] = 0]
        /\ replaced' = replaced \cup LinesIn(IF name \in DOMAIN archive THEN archive[name] ELSE 0)
        /\ Disturbed
        /\ proc' = [proc EXCEPT ![p].name = NoName,
                                ![p].pc = IF mode.nocompress \/ proc[p].line = 0 THEN "remove" ELSE "pend"]
        /\ UNCHANGED faults
     \/ /\ \/ f = 0 /\ UNCHANGED faults
           \/ Fault
        /\ Leave(p) /\ UNCHANGED <<archive, replaced, overlap>>
  /\ UNCHANGED <<mode, files, gz, now, crashes, exits, lines, written, removed, late, cut, alone, shared>>

(* _tlog_remove_oldlog and _tlog_log_unlock, at the end of an archive.     *)
(* When a directory cannot be read, or a file not be looked at or removed, *)
(* fewer are removed; nobody looks at the result.                          *)
remove_oldlog(p) ==
  /\ At(p, "remove")
  /\ \E k \in 0 .. Excess : \E R \in Oldest(k) :
       LET gone == {files[archive[n]] : n \in R}
       IN  /\ IF k = Excess THEN UNCHANGED faults ELSE Fault
           /\ archive' = Restrict(archive, DOMAIN archive \ R)
           /\ removed' = removed \cup ((UNION {f.lines : f \in gone}) \ Procs)
           /\ cut' = Max({f.mtime : f \in {h \in gone : h.lines # {}}} \cup {cut})
  /\ Leave(p)
  /\ UNCHANGED <<mode, files, gz, now, crashes, exits, lines, written, late, alone, together>>

-----------------------------------------------------------------------------
(* _tlog_write.                                                            *)

(* The size is tested before the line is written, and only while no gzip   *)
(* of this process runs.  One that sees that others have made the file     *)
(* grow says so in it and locks from now on.                               *)
write_begin(p) ==
  LET s      == proc[p]
      end    == IF s.fd = 0 THEN -1 ELSE Size(s.fd)
      size   == IF s.multi_log /\ s.fd # 0 THEN end ELSE s.filesize
      rotate == size > LogSize /\ gz[p] = NoGzip
      auto   == rotate /\ size < end /\ ~s.multi_log
  IN
  /\ At(p, "idle") /\ lines < mode.lines
  /\ lines' = lines + 1
  /\ files' = IF auto
              THEN [files EXCEPT ![s.fd] = [lines |-> @.lines \cup {p}, mtime |-> now]]
              ELSE files
  /\ proc' = [proc EXCEPT ![p] =
       IF rotate
       THEN [s EXCEPT !.line = lines + 1, !.multi_log = s.multi_log \/ auto,
                      !.fd = 0, !.filesize = 0, !.pc = "lock"]
       ELSE [s EXCEPT !.line = lines + 1, !.filesize = size,
                      !.pc = IF s.fd = 0 THEN "open" ELSE "write"]]
  /\ UNCHANGED <<mode, dir, archive, gz, now, budget, history>>

(* The log file is opened for appending, or made.  After a failure nothing *)
(* is tried for the rest of the second; the line is lost either way, the   *)
(* worker does not look at the result of the output function.              *)
write_open(p) ==
  LET s == proc[p]
      f == IF dir["log"] = 0 THEN Len(files) + 1 ELSE dir["log"]
      fail == [s EXCEPT !.filesize = IF s.tried THEN @ ELSE 0, !.tried = TRUE,
                        !.line = 0, !.pc = "idle"]
  IN
  /\ At(p, "open")
  /\ \/ s.tried /\ proc' = [proc EXCEPT ![p] = fail] /\ UNCHANGED <<disk, faults>>
     \/ ~s.tried /\ Fault /\ proc' = [proc EXCEPT ![p] = fail] /\ UNCHANGED disk
     \/ /\ ~s.tried
        /\ files' = IF f > Len(files) THEN Append(files, NewFile) ELSE files
        /\ dir' = [dir EXCEPT !["log"] = f]
        /\ proc' = [proc EXCEPT ![p] = [s EXCEPT !.fd = f, !.pc = "write",
                      !.filesize = IF f > Len(files) THEN 0 ELSE Size(f)]]
        /\ UNCHANGED <<archive, faults>>
  /\ UNCHANGED <<mode, gz, now, crashes, exits, lines, history>>

(* Mutant: the result of write is added to the size even when it is -1.    *)
write_line_size(p) ==
  LET s == proc[p]
      idle == [s EXCEPT !.line = 0, !.pc = "idle"]
  IN
  /\ At(p, "write")
  /\ \/ /\ files' = [files EXCEPT ![s.fd] = [lines |-> @.lines \cup {s.line}, mtime |-> now]]
        /\ proc' = [proc EXCEPT ![p] = [idle EXCEPT !.filesize = @ + 1]]
        /\ written' = written \cup {s.line}
        /\ UNCHANGED faults
     \/ /\ Fault
        /\ proc' = [proc EXCEPT ![p] = [idle EXCEPT !.filesize = @ - 1]]
        /\ UNCHANGED <<files, written>>
  /\ UNCHANGED <<mode, dir, archive, gz, now, crashes, exits, lines, removed, late, cut, alone,
                 together>>

(* The line is appended to the file that is open, whatever its name is by  *)
(* now; a full disk closes the file, another error does not.               *)
write_line(p) ==
  LET s == proc[p]
      idle == [s EXCEPT !.line = 0, !.pc = "idle"]
  IN
  /\ At(p, "write")
  /\ \/ /\ files' = [files EXCEPT ![s.fd] = [lines |-> @.lines \cup {s.line}, mtime |-> now]]
        /\ proc' = [proc EXCEPT ![p] = [idle EXCEPT !.filesize = @ + 1]]
        /\ written' = written \cup {s.line}
        /\ late' = IF dir["log"] = s.fd THEN late ELSE late \cup {s.line}
        /\ UNCHANGED faults
     \/ /\ Fault
        /\ \E fd \in {0, s.fd} : proc' = [proc EXCEPT ![p] = [idle EXCEPT !.fd = fd]]
        /\ UNCHANGED <<files, written, late>>
  /\ UNCHANGED <<mode, dir, archive, gz, now, crashes, exits, lines, removed, cut, alone, together>>

-----------------------------------------------------------------------------
(* Waiting for gzip, start and end.                                        *)

(* _tlog_wait_pid once waitpid has returned the child: the compressed file *)
(* is archived, if there is one.                                           *)
Reap(p) ==
  /\ gz' = [gz EXCEPT ![p] = NoGzip]
  /\ Goto(p, "stat")
  /\ Enter(p)

(* Mutant: the test of waitpid's result is the wrong way round.            *)
wait_pids_inverted(p) ==
  /\ At(p, "idle") /\ gz[p] # NoGzip /\ ~proc[p].waited /\ gz[p].st # "done"
  /\ proc' = [proc EXCEPT ![p].waited = TRUE]
  /\ UNCHANGED <<mode, disk, gz, now, budget, lines, history>>

(* _tlog_wait_pids: the worker asks once a second.                         *)
wait_pids(p) ==
  /\ At(p, "idle") /\ gz[p] # NoGzip /\ ~proc[p].waited
  /\ IF gz[p].st = "done"
     THEN Reap(p)
     ELSE proc' = [proc EXCEPT ![p].waited = TRUE] /\ UNCHANGED <<gz, shared>>
  /\ UNCHANGED <<mode, disk, now, budget, lines, written, removed, late, cut, alone, replaced, overlap>>

(* tlog_init in a process that starts.                                     *)
tlog_init(p) ==
  /\ At(p, "off") /\ p \in mode.procs /\ lines < mode.lines
  /\ proc' = [proc EXCEPT ![p] = Opened]
  /\ alone' = (alone /\ \A q \in Procs : At(q, "off"))
  /\ UNCHANGED <<mode, disk, gz, now, budget, lines, written, removed, late, cut, together>>

(* tlog_exit: the worker has ended.                                        *)
tlog_exit(p) ==
  /\ At(p, "idle") /\ exits < mode.exits
  /\ exits' = exits + 1
  /\ proc' = [proc EXCEPT ![p].pc = "exit", ![p].quit = TRUE]
  /\ UNCHANGED <<mode, disk, gz, now, crashes, faults, lines, history>>

(* Mutant: gzip is not waited for.                                         *)
tlog_close_nowait(p) ==
  /\ At(p, "exit")
  /\ dir' = Unlocked(p, dir)
  /\ proc' = [proc EXCEPT ![p] = Closed]
  /\ UNCHANGED <<mode, files, gz, archive, now, budget, lines, history>>

(* _tlog_close with wait_hang: gzip is waited for before the log is freed. *)
tlog_close(p) ==
  /\ At(p, "exit")
  /\ \/ gz[p].st = "done" /\ Reap(p) /\ UNCHANGED dir
     \/ /\ gz[p] = NoGzip
        /\ dir' = Unlocked(p, dir)
        /\ proc' = [proc EXCEPT ![p] = Closed]
        /\ UNCHANGED <<gz, shared>>
  /\ UNCHANGED <<mode, files, archive, now, budget, lines, written, removed, late, cut, alone, replaced,
                 overlap>>

(* The process dies, or is replaced on SIGHUP: what it had open is closed, *)
(* its lock file stays, its gzip goes on.                                  *)
crash(p) ==
  /\ ~At(p, "off") /\ crashes < mode.crashes
  /\ crashes' = crashes + 1
  /\ proc' = [proc EXCEPT ![p] = Closed]
  /\ gz' = [gz EXCEPT ![p] = NoGzip, ![crashes + 1] = IF gz[p].st = "done" THEN NoGzip ELSE gz[p]]
  /\ UNCHANGED <<mode, disk, now, exits, faults, lines, history>>

-----------------------------------------------------------------------------
(* gzip -1 <name>.pending: external.                                       *)

(* A child is to be waited for, an orphan is gone.                         *)
Ended(g) == IF g \in Procs THEN [NoGzip EXCEPT !.st = "done"] ELSE NoGzip

(* It reads .pending and makes .pending.gz, which it does not replace.     *)
gzip_open(g) ==
  /\ gz[g].st = "start"
  /\ IF dir["pending"] = 0 \/ dir["pending.gz"] # 0
     THEN gz' = [gz EXCEPT ![g] = Ended(g)] /\ UNCHANGED <<files, dir>>
     ELSE /\ gz' = [gz EXCEPT ![g] = [st |-> "copy", in |-> dir["pending"],
                                      out |-> Len(files) + 1]]
          /\ files' = Append(files, NewFile)
          /\ dir' = [dir EXCEPT !["pending.gz"] = Len(files) + 1]
  /\ UNCHANGED <<mode, archive, proc, now, budget, lines, history>>

(* It copies what it can read, and the time of the last write.             *)
gzip_copy(g) ==
  /\ gz[g].st = "copy"
  /\ files' = [files EXCEPT ![gz[g].out] = files[gz[g].in]]
  /\ gz' = [gz EXCEPT ![g].st = "unlink"]
  /\ UNCHANGED <<mode, dir, archive, proc, now, budget, lines, history>>

(* It fails and removes .pending.gz, or is killed and does not.            *)
gzip_fail(g) ==
  /\ gz[g].st = "copy" /\ Fault
  /\ \E f \in {0, dir["pending.gz"]} : dir' = [dir EXCEPT !["pending.gz"] = f]
  /\ gz' = [gz EXCEPT ![g] = Ended(g)]
  /\ UNCHANGED <<mode, files, archive, proc, now, crashes, exits, lines, history>>

(* When it is done it removes .pending: the name, not the file it has read. *)
gzip_unlink(g) ==
  /\ gz[g].st = "unlink"
  /\ dir' = [dir EXCEPT !["pending"] = 0]
  /\ gz' = [gz EXCEPT ![g] = Ended(g)]
  /\ UNCHANGED <<mode, files, archive, proc, now, budget, lines, history>>

(* Time goes on; past the bound the seconds are no longer told apart.        *)
tick ==
  /\ now' = IF now < mode.seconds THEN now + 1 ELSE now
  /\ proc' = [p \in Procs |-> [proc[p] EXCEPT !.tried = FALSE, !.waited = FALSE]]
  /\ <<now, proc>>' # <<now, proc>>
  /\ UNCHANGED <<mode, disk, gz, budget, lines, history>>

archive_step(p) ==
  \/ log_lock(p) \/ log_lockf(p) \/ archive_leftover(p) \/ archive_pending(p) \/ archive_log(p)
  \/ archive_gzip(p) \/ getmtime(p) \/ archive_name(p) \/ rename_logfile(p) \/ remove_oldlog(p)
worker(p) == archive_step(p) \/ write_open(p) \/ write_line(p) \/ wait_pids(p) \/ tlog_close(p)
gzip(g)   == gzip_open(g) \/ gzip_copy(g) \/ gzip_unlink(g)

Next ==
  \/ \E p \in Procs : worker(p) \/ write_begin(p) \/ tlog_init(p) \/ tlog_exit(p) \/ crash(p)
  \/ \E g \in Gzips : gzip(g) \/ gzip_fail(g)
  \/ tick

Spec == Init /\ [][Next]_vars

(* The worker comes round at least every two seconds, a system call        *)
(* returns, gzip gets on, time passes.  Nobody has to log, exit or crash.  *)
FairSpec ==
  /\ Spec
  /\ \A p \in Procs : WF_vars(worker(p))
  /\ \A g \in Gzips : WF_vars(gzip(g))
  /\ WF_vars(tick)

-----------------------------------------------------------------------------
(* Properties.                                                             *)

OnDisk ==
  (UNION {LinesIn(dir[n]) : n \in Fixed}) \cup (UNION {LinesIn(archive[n]) : n \in DOMAIN archive})

(* Rotation loses no line: what a process that logs alone has written is   *)
(* on disk until its archive is removed as one of the oldest, whatever     *)
(* open, write, fork, stat, rename, unlink and gzip fail on the way.       *)
NothingLostAlone == alone /\ crashes = 0 => written \subseteq OnDisk \cup removed

(* With crashes, and with other processes, a line is lost in three ways    *)
(* only: it was written to a file that another process had moved; its file *)
(* was replaced by a rename; or somebody started on .pending or            *)
(* .pending.gz before the gzip at work on it had ended.                    *)
LossExplained == ~overlap => written \subseteq OnDisk \cup removed \cup late \cup replaced

(* What access protects: a rename replaces a file only after two processes *)
(* were in the archive at once, which the lock file is there to prevent.   *)
ReplacedTogether == replaced # {} => shared

(* _tlog_remove_oldlog keeps the newest history: no archive that is left   *)
(* with lines in it was last written before one that was removed.          *)
NewestKept ==
  alone /\ crashes = 0 =>
    \A n \in DOMAIN archive :
       LinesIn(archive[n]) # {} => files[archive[n]].mtime >= cut

(* maxlogcount: beyond the number asked for there is the archive just      *)
(* made, until the old ones are removed, and at most one for each crash    *)
(* and each failure, which leave a file that is archived without a removal *)
(* or an archive that is not removed.                                      *)
ArchivesBounded ==
  alone => Cardinality(DOMAIN archive)
             <= LogCount + crashes + faults + Cardinality({p \in Procs : At(p, "remove")})

(* tlog_exit waits for gzip: after clean exits there is nothing half done, *)
(* no lock file, no archive too many, and no line in two archives.         *)
CleanExit ==
  /\ alone /\ crashes = 0 /\ faults = 0
  /\ \A p \in Procs : At(p, "off")
  => /\ \A n \in Fixed \ {"log"} : dir[n] = 0
     /\ Cardinality(DOMAIN archive) <= LogCount
     /\ \A m, n \in DOMAIN archive :
          m # n => LinesIn(archive[m]) \cap LinesIn(archive[n]) = {}

(* Every gzip is waited for, so that rotation goes on and the lock is free *)
(* again, and tlog_exit, which waits for it too, returns.                  *)
GzipWaitedFor ==
  \A p \in Procs :
    gz[p] # NoGzip \/ At(p, "exit") ~> gz[p] = NoGzip /\ ~At(p, "exit") /\ proc[p].fd_lock = 0
=============================================================================
