# Verification of the log daemon

TLA+ modules for the user-space log daemon of this repository (`useapp/`): its
message queue, its two worker threads with the file cache between them, its start
and shutdown, and its logger: the ring buffer, the list of streams, the rotation and
archiving of log files. TLC checks them on small instances; TLAPS proves every safety
property that the passing runs check, for every value of the constants. Liveness is
left to TLC.

## 1. The system

`cslogd` receives log records from a kernel module over netlink, batches them into
messages, and posts the messages to an HTTP server. When the server cannot be
reached the queue fills up and data goes to local files instead, whose names are
later sent through the same queue.

| Part | Source | State | Operations | Talks to |
|---|---|---|---|---|
| message queue | `useapp/queue.c` | ring `cirq`, `wpos`, `rpos`, `size`; semaphores `mutex`, `nempty`, `nstored` | `queue_push`, `queue_push_wait`, `queue_pop`, `queue_pop_wait` | called by both workers |
| receiver | `useapp/worker.c` | the message being filled; `datafile_info`: open file, its size, file count, message with the file names | `receiver_worker`, `datafile_*` | netlink, queue, data directory, `g_quit` |
| sender | `useapp/worker.c`, `useapp/sender.c` | the message at hand, result of the last request, dump file | `sender_worker`, `message_dump_to_file`, `send_log_buff`, `send_log_file` | queue, HTTP server, data directory, `g_quit` |
| main | `useapp/logmain.c` | thread ids, the signal that ended its loop | start, signals, join, exit or exec | both workers |
| configuration client | `useapp/conf.c` | settings | `load_configuration`, `wait_user_loggin` | configuration service |
| logger: ring | `useapp/tlog.c` | byte ring `buff`, `start`, `end`, `ext_end`; `dropped`, `waiters`, `run` | `_tlog_vprintf`, `_tlog_work`, `tlog_init`, `tlog_exit` | called by every thread |
| logger: streams | `useapp/tlog.c` | the list `tlog.log`, `notify_log`, `is_exit`, the worker's pointer, `last_log` | `tlog_open`, `tlog_close`, `_tlog_work`, `_tlog_wait_pids`, `_tlog_close` | called by the program, frees what it uses |
| logger: files | `useapp/tlog.c` | log file, `.pending`, `.pending.gz`, archives, lock file; `fd`, `filesize`, `zip_pid`, `fd_lock` | `_tlog_write`, `_tlog_archive_log*`, `_tlog_remove_oldlog`, `_tlog_wait_pid` | file system, gzip, other processes on the same log |
| system call hooks | `syscall_hook.c` | system call table | `load_module`, `unload_module` | kernel |
| probes | `kernel/` | list of measurements, list of probed functions | probe handlers, log thread, netlink commands | kernel |
| demos | `user_netlink.c`, `rtnetlink-exa.c` | none | none | kernel |

What is hard about it: threads interleave inside push and pop; queue and file cache
fill up independently; files are handed from one thread to the other by name; stdio
holds back what was written; requests fail in ways that leave it open whether the
server has the data; and all of this must come to an end when a signal arrives,
whichever step each thread is at. In the logger one thread reads a ring without a
lock while others fill it, follows pointers to streams it may have freed, and hands
files by name to a gzip that outlives it when the process crashes. `PROJECT.json` lists the hazards by line, with the
properties aimed at them.

What makes each part correct:

* queue: no place or pointer is lost or invented, first in first out, calls return;
* receiver: never writes past a message, its books on files agree, nothing is lost
  without a log entry;
* sender: data reaches the server in order and once; it serves the queue; it sends
  only files that are complete;
* main: the daemon ends when told to;
* ring: output is exactly what was accepted, in order; refused lines are counted;
  nobody sleeps beside a free ring; `tlog_exit` flushes;
* streams: none starves, none is used after it was freed, none is freed before its
  lines are output;
* files: no line written is lost before its archive is removed, the newest archives
  are kept and no more than asked for, every gzip is waited for.

## 2. Modules

| Module | Models |
|---|---|
| `BoundedFifo` | abstract specification: what callers of `queue.c` rely on |
| `MsgQueue` | `queue.c`, one action per semaphore operation and per ring operation |
| `MsgQueueProofs` | inductive invariant and safety theorems of `MsgQueue` |
| `MsgQueueRefinement` | theorem: `MsgQueue` implements `BoundedFifo` |
| `LogdState` | what the daemon's threads share; queue operations as they use them |
| `Receiver` | `receiver_worker` and the file cache |
| `Sender` | `sender_worker`, the dump, and the verdict on a request |
| `Logd` | `main` and `start_workers`, composed with `Receiver` and `Sender` |
| `LogdProofs` | inductive invariant and safety theorems of `Logd` |
| `LogdOrderProofs` | theorem: data reach the server in order |
| `TLogRing` | the logger's ring, its worker, its writers and `tlog_exit` |
| `TLogRingProofs` | inductive invariant and safety theorems of `TLogRing` |
| `TLogStreams` | the logger's list of streams and the worker's way round it |
| `TLogStreamsProofs` | inductive invariant and safety theorems of `TLogStreams` |
| `TLogFiles` | the logger's files: rotation, gzip, archives, several processes |
| `TLogFilesProofs` | the invariant of any number of processes, and how lines are lost |
| `TLogAloneProofs` | what a process that logs alone can rely on |
| `MCMsgQueue`, `MCLogd`, `MCTLogRing`, `MCTLogStreams`, `MCTLogFiles` | instances for TLC |

Each component module also defines the mutants its properties are tested against;
they stand in front of the definition they distort and are used nowhere else.

### Queue

`pc[t]` is where thread `t` is in a call: `wait` or `twait` at the counting
semaphore, `lock` at the mutex, `crit` before and `unlock` after the ring
operation, `post` before the last `sem_post`. `sem_timedwait` fails only on a
semaphore that is zero at that moment. `BoundedFifo` has no semaphores: a call is
admitted, takes effect in one step, returns, or gives up when the room (or stock) not
claimed by others is nil. The mapping reads the stored pointers off the ring from
`rpos` on and forgets the position inside the critical section.

### Daemon

With one producer and one consumer, and the refinement at hand, a queue operation is
one step in `Logd`. `queue_push_wait(..., 0.5)` passes 0.5 to an `int`: the deadline
is now, so the push never waits.

A *chunk* is what one `netlink_sock_recv` returned, numbered in order of reception.
A message is a record with the three header fields, the chunks in it and the file
names in it; lengths of name lists are counted in names. `MESSAGE_BZERO` clears the
header too, so `cap` becomes 0 as in the code. Files are sequences of chunks. What
`fwrite` takes is on disk at once or stays in `pend` (`dpend` for the dump file)
until the file is closed or the process exits; `exec` loses it. `fclose` and the exit
may themselves fail and write only a part of what is held (`Written`); nobody looks at
their result (`worker.c:99`), and what is gone is in the history `lost`. Data in a file
whose name was taken off the list, or that was sent before it was written, is in the
history `stranded`. Renaming carries open handles along; a file renamed over is `GONE`. Files are named by the second they are
created in; two may be created in the same one. A failing write (`fwrite`, `fopen`,
`rename`, `curl`, thread creation) is an alternative at each call.

A request ends in any combination of curl result, HTTP status, code in the answer,
and whether the server took the data, except those that cannot be: no connection or
an error while sending delivers nothing, and an answer of 200/200 means taken.
`Verdict` is the `switch` of both send functions.

Signals come from process 1 or from the control process, at any time; others are
ignored by the code and left out. `SIGINT` and `SIGTSTP` from process 1 act as
`SIGQUIT` does. What is in memory is gone when the process ends (`MemoryGone`).

### Logger: ring

A step of `TLogRing` is what a thread does between taking and returning a mutex; the
worker's three output steps are outside it. Bytes are numbered as they are accepted,
so the properties can say which byte is where. `out` is what the output function was
given. `block` is the flag of `tlog_open`, chosen at the start. The worker's timed
wait can always end, which is what its two-second limit gives. A thread that has
given back `tlog.lock` and not yet taken `log->lock` is `unlocked`. The repository's
`Makefile` links a copy of the library from outside the repository; the model is of
the `tlog.c` that is here.

### Logger: streams

`TLogStreams` takes one step back: a ring is a number of lines (`TLogRing` shows that
it is one), a stream's files are the state of its gzip (`TLogFiles` has the rest).
Streams are numbered as they are opened and `tlog_open` inserts at the head, so the
list is the streams alive in descending order and needs no pointers of its own. The
pointers that can outlive a stream are variables: the worker's `log`, `notify_log`,
and `last_log`, which is only compared. When the worker goes on from a freed stream,
or looks into one, `wpc` becomes `undefined` and everything stops. Traffic is not
bounded while the logger runs: `StreamsServed` holds however busy the other streams
are. The program keeps to the interface: it logs to a stream between `tlog_open` and
`tlog_close` and to none after `tlog_exit` has joined the worker. `tlog_open` looks at
`run` (`tlog.c:1517`) long before it takes the lock and inserts the stream (1568), so in
the model it may insert a stream after `tlog_exit` has cleared `run`, until the worker
is joined.

### Logger: files

`TLogFiles` keeps files apart from names, as the kernel does: `files` are inodes with
their lines and the second of their last write, `dir` and `archive` say which name
leads to which, and a process that has a file open (`fd`) writes to it whatever it is
called by now. Sizes are counted in lines. A line is written as a whole or not at all;
a short `write`, whose rest `_tlog_write` forgets, is left out. An archive name is a
second and a number. A step is one system call on the directory: looking for a name
(`access`, `stat`) and using it (`rename`, `open`) are two steps, and between them another
process, gzip, or a crash may come. Each call may fail, except `access`, which is taken
to find what is there; a failure is counted in `faults`. Two functions are one step with
several calls: `_tlog_log_unlock`, and `_tlog_remove_oldlog`, where a failing `readdir`,
`stat` or `unlink` is an archive that should have been removed and was not. `crash` is a kill, or the `execlp` of
`logmain.c` on SIGHUP: the gzip goes on as an orphan, the lock file stays. gzip is
external and does what it is known to do: it does not replace an existing output,
copies the time of the last write, and removes its input by name. It may fail and
clean up, or be killed and leave a partial output. A setup fixes which processes log,
the flags, what the log file holds at the start, and the bounds.

## 3. Runs

| Run | Instance | Shows |
|---|---|---|
| `queue_safety` | 2 producers, 2 consumers, ring of 2 | `TypeOK`, `MutualExclusion`, `SlotsAccounted`, `AdmittedSucceeds`, `RingShape`, `ImplementsFifo` |
| `queue_live` | 1 producer, 1 consumer, ring of 3 | `CallsReturn` |
| `logd_safety` | queue of 1, 2 files of 1 unit, 4 datagrams | `TypeOK`, `RecvRoom`, `NamesMatchFiles`, `NoSilentLoss`, `ArrivesInOrder` |
| `logd_quit` | queue of 1, 1 file, 3 datagrams | `ArrivesInOrder`, `QuitTerminates` |
| `tlog_ring` | 2 threads, ring of 6, lines of at most 2, 5 calls | `TypeOK`, `OutputInOrder`, `DropsCounted`, `ExitFlushes`, `NoOverwrite`, `ExitTerminates`, `EventuallyOutput` |
| `tlog_streams` | root and 2 streams, a late line; root and 1 stream, both rotating | `TypeOK`, `SafeUse`, `FreedWhenDone`, `StreamsServed`, `ExitFreesAll`, `GzipsReaped` |
| `tlog_files` | 2 lines to a file, 1 archive; three setups, see below | `TypeOK`, `NothingLostAlone`, `LossExplained`, `ReplacedTogether`, `NewestKept`, `ArchivesBounded`, `CleanExit`, `GzipWaitedFor` |

What the runs of the daemon say of the code:

* Whether `netlink_sock_recv` has room does not depend on what happened to the message,
  only on the configured `node_size` (`RecvRoom`): with more than `MAX_BUFF_SIZE` bytes
  there always is, otherwise there never is. Nothing checks the configured value
  (`conf.c:151`, `worker.c:230`).
* While the daemon runs, data is lost without a log entry in three ways (`NoSilentLoss`):
  `fclose` could not write what stdio held (`worker.c:99`); a file with data was taken
  off the list because a later write failed or the cache was full (`worker.c:111`), and
  stays in the directory unsent; or a file was sent before `fclose` had written all of it
  (`logd_file_data`).

What `tlog_files` and `tlog_streams` say of the code:

* A process that logs alone and is not killed loses no line to rotation, whatever
  `open`, `write`, `fork`, `stat`, `rename`, `unlink` and gzip do (`NothingLostAlone`); a
  line that `_tlog_write` could not write at all is not counted among the written.
* With other processes or crashes a loss has one of three causes (`LossExplained`).
  A process past its size check writes into a file that another has renamed and gzip
  has read (`tlog.c:1084`). Or a rename replaces a file that came to be after `access`
  had not found it (`tlog.c:944/947`, `984/987`, `641/648`): `ReplacedTogether` says that
  this takes two processes in the archive at once, which happens because the lock file
  is removed before it is closed (`tlog.c:795`) and both hold a lock. Or somebody starts
  on `.pending` or `.pending.gz` before the gzip at work on it has ended: two gzips work
  on `.pending` at once, after a crash or under two locks; or the `.pending.gz` that a
  gzip still writes, an orphan's for instance, is taken for a leftover and archived
  (`tlog.c:939`), where it can be removed as the oldest before it is complete. The last
  form was found by the proof: it takes two processes, nine lines and a crash.
* Each crash and each failure can leave one archive too many, and no more
  (`ArchivesBounded`). A crash, or a failing rename after gzip has ended
  (`tlog.c:849`), leaves `.pending.gz`, which is archived later without a removal
  (`tlog.c:939`); a failing `opendir`, `stat` or `unlink` (`tlog.c:774`, `753`, `761`)
  leaves an archive that should have gone. `NewestKept` is stated without crashes: a
  killed gzip's partial output is archived with a newer time than the complete one made
  after it.
* Using a freed stream takes one of two things (`SafeUse`): a stream was freed while a
  newer one was on the list, so that `_tlog_close` returned -1 (`tlog.c:1205`), or a
  caller found a ring full and left `notify_log` set (`tlog.c:486`). The former needs no
  careless program: when the root has lines and the worker has just passed stream 2,
  still open and empty, and the program then closes 2 and 1 in that order, the worker comes
  to 1 first and frees it under 2. The daemon opens no stream besides the root.
* Nothing says that a closed stream is freed before `tlog_exit`, because it need not
  be: the worker looks at `is_exit` only when it comes to a stream without lines while
  another has some (`tlog.c:1367`). `ExitFreesAll` covers the end.
* With three streams that rotate without a pause the oldest one's gzip may never be
  waited for; `GzipsReaped` excludes that case by name.

Runs that TLC must refute, each a disagreement between the code and a line of the
repository:

| Run | Line | What happens |
|---|---|---|
| `logd_file_names` | `worker.c:402` | the last message is log data with type 1; the sender takes it for file names and drops it |
| `logd_file_data` | `worker.c:402` | file names are queued before the file is closed; an incomplete file is sent |
| `logd_quit_queue` | `worker.c:375` | the quit flag is set and the receiver's last push falls between the sender's timeout and its check of the flag; it ends with a message queued |
| `logd_served` | `worker.c:375` | a file message is never deleted; the sender spins on it and pops no more |
| `tlog_wakeup` | `tlog.c:500` | the broadcast falls between two mutexes; a thread sleeps beside an empty ring |

### Bounds, and why they suffice

* `Max`, `Producers`, `Consumers`: two of each already gives a full ring, an empty
  ring, wrap-around and contention on every semaphore. The proofs remove the bound.
* `Traffic` (datagrams): four fill the message, the queue and both files and leave
  data for the message after; three suffice with one file. `MAX_BUFF_SIZE = 1` and
  `node_size = 3` give messages of two chunks, `node_size = 4` the one that is part
  filled when the daemon quits. `max_fsize = 1` makes the first message overflow a
  file, `2` lets a file hold one message.
* `Senders`, `Signals`: all in every run but `logd_safety`, which keeps TERM from
  the control process: `NoSilentLoss` and `RecvRoom` are about the running daemon. How the
  order of arrival goes on after each of the others is in `logd_quit`, with all of them.
* Seconds: at most one per datagram and one for the dump file.
* `Calls` (lines logged): the ring of six is the smallest `tlog_init` accepts for
  lines of that length; five lines go round it twice, with wraps that leave a gap and
  wraps that do not, and meet a full ring on the way.
* `MaxOpen`, `Cap`: with two streams above the root there is a head, a middle and a
  tail; a ring of one line is full as soon as it is not empty. `late` is the number of
  lines accepted after `tlog_exit` was called; without a bound the worker need never
  find all rings empty.
* `LogSize = 1`, `LogCount = 1`: two lines fill a file, six make two rotations and
  remove an archive. `Crash`: one process without `TLOG_MULTI_WRITE`, one crash, one
  exit, with and without compression; two seconds are told apart, so archives of the
  same and of different seconds meet. `Fail`: one process, five lines, one failure at any
  call and one crash, with and without `TLOG_MULTI_WRITE` and compression. `Pair`: two
  processes with `TLOG_MULTI_WRITE` on a log that already holds a line, six lines in all;
  this is enough for both to hold the lock and for a rename to replace a file.

No symmetry is used. Deadlock is checked for the queue, where a call can always be
begun; daemon and logger may really end, so it is not checked for them.

Because the sender never pops again after a file message (`logd_served`), what
`ArrivesInOrder` says of data after a file message is about one file message only.

### Fairness

Weak fairness of each thread's own steps: a thread that can run is scheduled.
Nothing is assumed of callers (they need not call), of signals or the login (they
need not come), or of semaphores (no fairness between waiters: `CallsReturn` is
therefore stated for one producer and one consumer, which is the daemon's use).
`FairSpec` of `Logd` lets `select` choose a timeout after the last datagram:
`QuitTerminates` rests on traffic that pauses. `spurious_wakeup` has no fairness. In
`TLogStreams` and `TLogFiles` gzip ends and time passes: both are fair, crashes and
failures are not. The worker's timed wait lasts two seconds, so it comes round.

## 4. Proofs

Each theorem is about `Spec`, without fairness, for every value of the constants that
satisfies the assumptions of the component's module. The bounds of the runs are such
constants (`Traffic`, `Calls`, `MaxCrashes`, the numbers in a setup): the theorems hold
for each of their values. In every module the pattern is the same: an inductive
invariant `IndInv`, one preservation lemma for each of its parts with one step per
action, and the properties as consequences.

### Queue

Assumed: `Max` is a positive natural number, the two sets of threads are finite and
disjoint, `NULL` is not a pushed pointer. `node_count` comes from the configuration
unchecked; positivity is the one thing the code does not enforce.

| Module | Theorem | Statement |
|---|---|---|
| `MsgQueueProofs` | `TypeCorrect` | `Spec => []TypeOK` |
| | `RingIsExclusive` | `Spec => []MutualExclusion` |
| | `SlotsAlwaysAccounted` | `Spec => []SlotsAccounted` |
| | `AdmittedAlwaysSucceeds` | `Spec => []AdmittedSucceeds` |
| | `RingKeepsShape` | `Spec => []RingShape` |
| `MsgQueueRefinement` | `Refinement` | `Spec => ImplementsFifo` |

No single property is inductive. That the ring keeps its shape needs the full and
empty tests never to fire; that needs the two sums of `SlotsAccounted`; those need
that only one thread at a time changes `size`, which is `MutualExclusion`; and all
need the types. `IndInv` is their conjunction, exactly the invariants of
`queue_safety`. The lemmas below it are about `%` (`Wrap*`), counting the threads in
each stage (`CountOne`, `ProducerMoves`, `ConsumerMoves`), and who may hold what
(`ClaimsGood`).

`Refinement` shows the mapped initial state initial (`InitRefines`) and each step a
step of `BoundedFifo` or a stutter (`StepRefines`); `ContentsPush` and `ContentsPop`
say that the ring operations are `Append` and `Tail` on the mapped contents, and
`SemaphoresMap` that the semaphores are the abstract room and stock.

### Daemon

Assumed (`ConfAssumption`, `NullAssumption`, `SignalAssumption`): `node_count` is
positive, the other settings are any natural numbers, `node_size` and 0 included, and `NULL` is no message, path or file content.

| Module | Theorem | Statement |
|---|---|---|
| `LogdProofs` | `TypeCorrect` | `Spec => []TypeOK` |
| | `RecvHasRoom` | `Spec => []RecvRoom` |
| | `NamesAgree` | `Spec => []NamesMatchFiles` |
| | `NothingLostSilently` | `Spec => []NoSilentLoss` |
| `LogdOrderProofs` | `ArriveInOrder` | `Spec => []ArrivesInOrder` |

`IndInv` of `LogdProofs` has a part for each thread: `MainInv` (each worker is started
once; before the signal nobody acts on the flag), `RecvInv` (at every label but the one
after `recv` the message at hand has room for a datagram if an empty one has, and was
allocated with `node_size` bytes whatever its header says), `NamesInv`, `DiskInv` (an open handle is
on a file that exists), `SendInv`. `NoSilentLoss` is then where each step puts the
chunks it takes away: on, or into `dropped`, `lost` or `stranded`, which only the steps
named in section 3 add to. With a configured file count of 0 the names message is full after
the first file: the place it keeps to spare is used, so `NamesMatchFiles` claims
the spare place only for a positive count.

The order of arrival needs a second invariant. Until the sender meets a message with
names, all chunks stand in one line: at the server, in the sender's message, in the
data messages at the front of the queue, on disk, in the message at hand (`InLine`).
From then on the sender never lets go of that message before the dump
(`logd_served`), so only its files are sent, and no chunk of a file still to be sent
has been overtaken by a larger one unless it was sent before (`NotOvertaken`).
`DiskOrder`, `NamesOrder` and `Newest` carry the order through the files. After the
signal a rename in the same second may replace a data file; a chunk that reached the
server twice is then no longer on disk, and `ArrivesInOrder` says so.

### Logger: ring

Assumed (`RingAssumption`): finitely many threads, a line is longer than one byte, the
ring holds two lines, as `tlog_init` demands.

| Module | Theorem | Statement |
|---|---|---|
| `TLogRingProofs` | `TypeCorrect` | `Spec => []TypeOK` |
| | `OutputOrdered` | `Spec => []OutputInOrder` |
| | `NeverOverwritten` | `Spec => NoOverwrite` |
| | `EveryDropCounted` | `Spec => []DropsCounted` |
| | `FlushedAtExit` | `Spec => []ExitFlushes` |

The ring has two shapes, wrapped or not (`Shape`), and in each every byte accepted and
not yet released is at the place where the worker will look for it, every other byte
has been released (`Contents`). What the worker noted under the mutex stays the
beginning of the data while it reads without it (`Snapshot`): an `ext_end` set
meanwhile lies behind it. `OutputInOrder` alone is not inductive because the next
byte output is one that some writer put there long before.

### Logger: streams

Assumed (`StreamsAssumption`): the numbers of a setup are natural numbers, a ring holds
a line.

| Module | Theorem | Statement |
|---|---|---|
| `TLogStreamsProofs` | `TypeCorrect` | `Spec => []TypeOK` |
| | `UseIsSafe` | `Spec => []SafeUse` |
| | `NothingFreedEarly` | `Spec => []FreedWhenDone` |

`Pointers` says which pointers may be followed at which label, and that each goes bad
by one of the two causes `SafeUse` names; `Debts` that what a stream owes is in its
ring, so that an empty ring owes nothing when the stream is freed.

### Logger: files

Assumed (`FilesAssumption`): finitely many processes, none of which is a number (orphans
of crashes are numbered), a size and a count above 0 (a size of 0 turns logging off,
`tlog.c:595`, and `tlog_open` replaces a count of 0), and natural numbers in the setups.

| Module | Theorem | Statement |
|---|---|---|
| `TLogFilesProofs` | `TypeCorrect` | `Spec => []TypeOK` |
| | `LossIsExplained` | `Spec => []LossExplained` |
| | `RenamesReplaceTogether` | `Spec => []ReplacedTogether` |
| `TLogAloneProofs` | `RotationLosesNothing` | `Spec => []NothingLostAlone` |
| | `OldestGoFirst` | `Spec => []NewestKept` |
| | `ArchivesStayBounded` | `Spec => []ArchivesBounded` |
| | `ExitIsClean` | `Spec => []CleanExit` |

Lines are lost in the hands of gzip, so `TLogFilesProofs` is about the two names gzip
works on. `OneGzip`: as long as nobody started on them before a gzip had ended there is
one gzip, both names lead to the files it has open, and what it has copied is in
`.pending.gz` or was written too late. That needs `Uses`, that a file is not a log, a
gzip's output and a lock at once, and `Flow`, what a process holds at each label.
`Together`: while no two processes are in the archive at once, the name that was looked
for is free until it is used, so no rename replaces a file.

`TLogAloneProofs` adds, for a process that logs alone:

* `Alone`, `Calm`, `Plain`, `LogApart`: the others are off, so nobody else is in the
  archive; what it has open is the log; a `.pending.gz` is only there with compression.
  So without a crash nothing is ever late, replaced, or in the way of a gzip, and
  `NothingLostAlone` follows from `LossExplained`.
* `Chain`, `InTime`: the archives, `.pending.gz`, `.pending` and the log are in the
  order of their last writes, and all later than what was removed. `NewestKept` is not
  inductive because the archive made next is one of these files.
* `Bound`: archives, a `.pending.gz` that nobody waits for or is about to archive, and
  orphans that have not begun are counted together; each beyond the number asked for is
  paid for by a crash or a failure, or is about to be removed.
* `Clean`, `Locked`: without crashes and failures `.pending`, `.pending.gz` and the lock
  file belong to a process that is rotating or to the gzip it will wait for. `Fresh`,
  `Unwritten`, `OnePlace`: a line is written once and is in one place, but for `.pending`
  and its copy.

### Only model-checked

* All liveness (`CallsReturn`, `QuitTerminates`, `ExitTerminates`, `EventuallyOutput`,
  `StreamsServed`, `ExitFreesAll`, `GzipsReaped`, `GzipWaitedFor`): fairness and
  `ENABLED` are outside the prover's reach.
* The five disagreements of section 3, which are counterexamples.

## 5. Not modelled

* Segmented logs: the daemon's log is not segmented. After the log is freed by
  `tlog_exit` the model says nothing of threads still inside a call.
* Two processes on one log without `TLOG_MULTI_WRITE`: the code warns in the log file
  (`tlog.c:1038`) and promises nothing. The switch to locking is in `write_begin`.
* A message dumped at the end although it was sent (`worker.c:424`, against the comment
  at line 312) is in the model of the sender; no property is about it.
* `syscall_hook.c`: what its loading and unloading race with are the hook functions,
  which are not in the repository, and neither comment nor test says what may run
  while the table is patched.
* `kernel/`: `kprobe_queue_put` passes the list head and the new node in the wrong
  order, so the first put follows pointers of uninitialised memory; a model could only
  be of another program.
* Formatting, the JSON exchange with the configuration service, and the construction
  of HTTP requests: no protocol of their own.
* The demos.

## 6. Plan

1. Queue: model, abstract specification, safety proofs, refinement. Done.
2. Daemon: shared state, receiver, sender, main; safety, termination, disagreements
   with the comments. Done.
3. Logger ring: model, safety, liveness. Done.
4. Logger files and streams: models, safety and liveness under crashes, failures and
   several processes. Done.
5. Proofs of every invariant and action property of the passing runs: queue, daemon,
   ring, streams, files. Done.
6. Left: the daemon takes the queue for a sequence with one step per call, as the
   refinement justifies; a theorem that composes the two would say so formally.
