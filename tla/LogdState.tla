------------------------------- MODULE LogdState -------------------------------
(***************************************************************************)
(* The state the threads of the log daemon (useapp/) share, and the queue  *)
(* operations both workers use.  There is one producer and one consumer,   *)
(* and queue.c implements BoundedFifo, so a queue operation is one step    *)
(* here: a push that does not wait succeeds or finds no place, a pop takes *)
(* the oldest message or times out on an empty queue.                      *)
(*                                                                         *)
(* A chunk is what one netlink_sock_recv returns; chunks are numbered in   *)
(* the order they are received.  A data file is named by the second it was *)
(* created in.                                                             *)
(***************************************************************************)
EXTENDS Integers, Sequences, FiniteSets

CONSTANTS
  MAX_BUFF_SIZE,  \* most bytes one netlink_sock_recv returns
  node_size,      \* capacity of a data message
  node_count,     \* capacity of the queue
  max_fcnt,       \* configured number of data files
  max_fsize,      \* configured size of a data file
  Traffic,        \* bound: datagrams the kernel sends
  NULL

(* load_configuration takes every size it can read: nothing compares       *)
(* node_size with MAX_BUFF_SIZE.                                           *)
ASSUME ConfAssumption ==
  /\ MAX_BUFF_SIZE \in Nat \ {0}
  /\ node_size \in Nat
  /\ node_count \in Nat \ {0}
  /\ max_fcnt \in Nat
  /\ max_fsize \in Nat
  /\ Traffic \in Nat

VARIABLES
  proc,        \* the process: "run", or how it ended: "exit", "exec"
  g_quit,      \* worker.c's flag
  queue,       \* g_queue, oldest message first
  files,       \* the data directory: path -> chunks on disk, NULL if absent
  clock,       \* the second the newest file was named after
  (* receiver_worker *)
  rpc, nfds, msg, traffic, got,
  names_msg, file_count, curr_fp, curr_fsize,
  pend,        \* chunks fwrite has left in curr_fp's stdio buffer
  (* sender_worker *)
  spc, smsg, ret,
  dumpfp,      \* path of the open dump file, NULL if none, GONE if replaced
  dpend,       \* chunks in dumpfp's stdio buffer
  (* what leaves the daemon *)
  arrived,     \* chunks the server accepted, in order
  dropped,     \* chunks of messages and files given up with a log entry
  lost,        \* history: chunks stdio held when fclose failed
  stranded,    \* history: chunks in a file after its name was taken off the list or sent
  (* main and start_workers *)
  mpc,
  hup,         \* whether the signal that ended main's loop was SIGHUP
  rtid, stid, starter

datafile == <<names_msg, file_count, curr_fp, curr_fsize, pend>>
rlocal   == <<nfds, msg, traffic, got>>
rvars    == <<rpc, rlocal, datafile>>
slocal   == <<smsg, ret, dumpfp, dpend>>
svars    == <<spc, slocal>>
disk     == <<files, clock>>
mvars    == <<mpc, hup, rtid, stid, starter>>
history  == <<lost, stranded>>
outside  == <<arrived, dropped, history>>
vars     == <<proc, g_quit, queue, disk, rvars, svars, outside, mvars>>

Chunk  == 1 .. Traffic
Second == 1 .. (Traffic + 1)

(* A data file is named by the second it was created in; a dump file, or a *)
(* data file renamed before the end, has the token in front of it.         *)
DataPath(t)  == <<"data", t>>
TokenPath(t) == <<"token", t>>
Path == {"data", "token"} \X Second
GONE == <<"gone", 0>>

(* struct message.  A message carries log data, or the names of data files *)
(* (in units of one name: they all have the same length); type says how    *)
(* its reader takes it.                                                    *)
message_new(cap, type) == [type |-> type, len |-> 0, cap |-> cap, data |-> <<>>, names |-> <<>>]

(* MESSAGE_BZERO clears the header with the data: cap becomes 0 too.       *)
MESSAGE_BZERO == message_new(0, 0)

(* Mutant: the queue is not bounded.                                       *)
push_unbounded(m) == queue' = Append(queue, m)

(* queue_push_wait(g_queue, m, 0.5): the timeout is an int, so 0, and the  *)
(* call never waits.  It returns 0, or 1 when there is no place.           *)
push_ok(m)   == Len(queue) < node_count /\ queue' = Append(queue, m)
push_timeout == Len(queue) >= node_count /\ UNCHANGED queue

check_workers_quit == g_quit = 1

(* exit and exec stop every thread.                                        *)
Running == proc = "run"

(* fopen(path, "a"), and stdio writing out what it holds for an open file: *)
(* all of it, or the part before the disk is full.                         *)
Opened(fs, path) == IF fs[path] = NULL THEN [fs EXCEPT ![path] = <<>>] ELSE fs
Flushed(fs, path, held) ==
  IF path \in {NULL, GONE} THEN fs ELSE [fs EXCEPT ![path] = @ \o held]

Written(held) == {SubSeq(held, 1, n) : n \in 0 .. Len(held)}

(* The seconds a file created now can be named after: a later one than the *)
(* newest file's, or the same.                                             *)
Now == Second \cap {clock, clock + 1}

Contents(s) == {s[i] : i \in 1 .. Len(s)}
DiskChunks(fs) == UNION {Contents(fs[n]) : n \in {m \in Path : fs[m] # NULL}}
OnDisk == DiskChunks(files)

(* The files a message lists, as far as its reader goes.                   *)
Named(m) == IF m = NULL THEN {} ELSE {m.names[i] : i \in {k \in DOMAIN m.names : k <= m.len}}
Underway == Named(smsg) \cup UNION {Named(queue[i]) : i \in 1 .. Len(queue)}
================================================================================
