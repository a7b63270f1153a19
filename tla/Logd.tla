---------------------------------- MODULE Logd ---------------------------------
(***************************************************************************)
(* The log daemon as a whole: main and start_workers of useapp/logmain.c   *)
(* with the receiver and the sender they start.                            *)
(***************************************************************************)
EXTENDS Receiver, Sender

CONSTANTS
  Senders,  \* processes that signal the daemon: "init", "ctrl"
  Signals   \* signals they send: "HUP", "QUIT", "TERM"

ASSUME SignalAssumption ==
  Senders \subseteq {"init", "ctrl"} /\ Signals \subseteq {"HUP", "QUIT", "TERM"}

MainInit ==
  /\ mpc = "start" /\ hup = FALSE
  /\ rtid = 0 /\ stid = 0 /\ starter = "off"

Init ==
  /\ proc = "run" /\ g_quit = 0 /\ queue = <<>>
  /\ files = [p \in Path |-> NULL] /\ clock = 0
  /\ ReceiverInit /\ SenderInit /\ MainInit
  /\ arrived = <<>> /\ dropped = {} /\ lost = {} /\ stranded = {}

(* What lives in memory ends with the process.                             *)
MemoryGone ==
  /\ queue' = <<>>
  /\ rpc' = "off" /\ nfds' = 0 /\ msg' = NULL
  /\ names_msg' = NULL /\ file_count' = 0 /\ curr_fp' = NULL /\ curr_fsize' = 0 /\ pend' = <<>>
  /\ spc' = "off" /\ smsg' = NULL /\ ret' = "SND_SUCCESS" /\ dumpfp' = NULL /\ dpend' = <<>>
  /\ rtid' = 0 /\ stid' = 0 /\ starter' = "off"
  /\ UNCHANGED <<clock, traffic, got, outside>>

(* exit writes out every stdio stream, exec does not.                      *)
Exit ==
  /\ proc' = "exit"
  /\ \E out \in Written(pend), dout \in Written(dpend) :
       files' = Flushed(Flushed(files, curr_fp, out), dumpfp, dout)
  /\ MemoryGone
--------------------------------------------------------------------------------
(* main up to its signal loop: load_configuration reads every setting and  *)
(* stores the pid, the queue is made and start_workers is started.  A      *)
(* setting that cannot be read, or a thread that cannot be made, ends the  *)
(* process.                                                                *)
main_start ==
  /\ mpc = "start"
  /\ mpc' = "sigwait"
  /\ starter' = "login"
  /\ UNCHANGED <<proc, g_quit, queue, disk, rvars, svars, outside, hup, rtid, stid>>

main_start_fails ==
  /\ mpc = "start"
  /\ Exit
  /\ UNCHANGED <<g_quit, mpc, hup>>

(* start_workers: wait_user_loggin, then the two threads.                  *)
user_loggin ==
  /\ starter = "login"
  /\ starter' = "receiver"
  /\ UNCHANGED <<proc, g_quit, queue, disk, rvars, svars, outside, mpc, hup, rtid, stid>>

create_receiver ==
  /\ starter = "receiver"
  /\ starter' = "sender"
  /\ rtid' = 1
  /\ rpc' = "start"
  /\ UNCHANGED <<proc, g_quit, queue, disk, rlocal, datafile, svars, outside, mpc, hup, stid>>

create_sender ==
  /\ starter = "sender"
  /\ starter' = "done"
  /\ stid' = 1
  /\ spc' = "pop"
  /\ UNCHANGED <<proc, g_quit, queue, disk, rvars, slocal, outside, mpc, hup, rtid>>

create_fails ==
  /\ starter \in {"receiver", "sender"}
  /\ Exit
  /\ UNCHANGED <<g_quit, mpc, hup>>
--------------------------------------------------------------------------------
(* sigwaitinfo in main.  A signal of process 1, and HUP or QUIT from the   *)
(* control process, end the loop; TERM from the control process ends the   *)
(* process at once; any other one is ignored.  notify_workers_quit follows *)
(* the loop.                                                               *)
signal_graceful(from, sig) ==
  /\ mpc = "sigwait"
  /\ from = "init" \/ (from = "ctrl" /\ sig \in {"HUP", "QUIT"})
  /\ hup' = (sig = "HUP")
  /\ g_quit' = g_quit + 1
  /\ mpc' = "join_receiver"
  /\ UNCHANGED <<proc, queue, disk, rvars, svars, outside, rtid, stid, starter>>

signal_term(from, sig) ==
  /\ mpc = "sigwait"
  /\ from = "ctrl" /\ sig = "TERM"
  /\ Exit
  /\ UNCHANGED <<g_quit, mpc, hup>>

(* pthread_join, unless the thread has not been created yet.               *)
join_receiver ==
  /\ mpc = "join_receiver"
  /\ rtid = 0 \/ rpc = "done"
  /\ mpc' = "join_sender"
  /\ UNCHANGED <<proc, g_quit, queue, disk, rvars, svars, outside, hup, rtid, stid, starter>>

join_sender ==
  /\ mpc = "join_sender"
  /\ stid = 0 \/ spc = "done"
  /\ mpc' = "end"
  /\ UNCHANGED <<proc, g_quit, queue, disk, rvars, svars, outside, hup, rtid, stid, starter>>

(* execlp of the same program after HUP; exit(0) otherwise, and when       *)
(* execlp fails.                                                           *)
reload ==
  /\ mpc = "end"
  /\ hup
  /\ proc' = "exec"
  /\ MemoryGone
  /\ UNCHANGED <<g_quit, files, mpc, hup>>

end ==
  /\ mpc = "end"
  /\ Exit
  /\ UNCHANGED <<g_quit, mpc, hup>>

Signal == \E from \in Senders, sig \in Signals :
            signal_graceful(from, sig) \/ signal_term(from, sig)

MainStep == main_start \/ main_start_fails \/ join_receiver \/ join_sender \/ reload \/ end

StarterStep == create_receiver \/ create_sender \/ create_fails

Next ==
  /\ Running
  /\ Signal \/ user_loggin \/ MainStep \/ StarterStep \/ ReceiverStep \/ SenderStep

Spec == Init /\ [][Next]_vars

(* Threads are scheduled: each one that can take a step takes one in the   *)
(* end.  Signals and the user's login need not come.                       *)
FairSpec ==
  /\ Spec
  /\ WF_vars(Running /\ MainStep)
  /\ WF_vars(Running /\ StarterStep)
  /\ WF_vars(Running /\ ReceiverStep)
  /\ WF_vars(Running /\ SenderStep)
--------------------------------------------------------------------------------
Message ==
  [type : {0, 1}, len : 0 .. (MAX_BUFF_SIZE * Traffic), cap : {0, node_size, MaxFiles + 1},
   data : Seq(Chunk), names : Seq(Second)]

(* NULL is none of the values it stands in for.                            *)
ASSUME NullAssumption == NULL \notin Message \cup Seq(Chunk) \cup Path \cup {GONE}

(* Types of the daemon's state.                                            *)
TypeOK ==
  /\ proc \in {"run", "exit", "exec"}
  /\ g_quit \in {0, 1}
  /\ queue \in Seq(Message) /\ Len(queue) <= node_count
  /\ files \in [Path -> Seq(Chunk) \cup {NULL}]
  /\ clock \in 0 .. (Traffic + 1)
  /\ rpc \in {"off", "start", "select", "quitcheck", "lastpush", "names", "detach", "recv",
              "flush", "write", "done"}
  /\ nfds \in {0, 1} /\ traffic \in 0 .. Traffic /\ got \in 0 .. Traffic
  /\ msg \in Message \cup {NULL} /\ names_msg \in Message \cup {NULL}
  /\ file_count \in 0 .. (MaxFiles + 1)
  /\ curr_fp \in Path \cup {NULL, GONE} /\ curr_fsize \in Nat /\ pend \in Seq(Chunk)
  /\ spc \in {"off", "pop", "quitcheck", "send", "check", "dump", "dumppop", "done"}
  /\ smsg \in Message \cup {NULL}
  /\ ret \in {"SND_SUCCESS", "SND_ERR_SYS", "SND_ERR_SRV", "SND_ERR_NET"}
  /\ dumpfp \in Path \cup {NULL, GONE} /\ dpend \in Seq(Chunk)
  /\ arrived \in Seq(Chunk) /\ dropped \cup lost \cup stranded \subseteq Chunk
  /\ mpc \in {"start", "sigwait", "join_receiver", "join_sender", "end"}
  /\ hup \in BOOLEAN
  /\ rtid \in {0, 1} /\ stid \in {0, 1}
  /\ starter \in {"off", "login", "receiver", "sender", "done"}

(* Whenever netlink_sock_recv is called, the message has room for          *)
(* MAX_BUFF_SIZE bytes and for the zero byte that ends the text, although  *)
(* the capacity in its header may have been cleared by MESSAGE_BZERO, if   *)
(* an empty message has, and only then.  Nothing sees to that condition:   *)
(* conf.c refuses only a node_size that cannot be read, message_new        *)
(* allocates what is configured, and with MAX_BUFF_SIZE bytes or less      *)
(* every call may write past the message.                                  *)
RecvRoom ==
  rpc = "recv" =>
    (msg.len + MAX_BUFF_SIZE + 1 <= node_size <=> MAX_BUFF_SIZE + 1 <= node_size)

(* file_count, the list of names and the open file agree: as many names    *)
(* are counted as files, they fit into the names message (with a place to  *)
(* spare, which only a configured count of 0 takes), the open file is the  *)
(* last one listed, and when no file is open the cache is not full.        *)
NamesMatchFiles ==
  /\ file_count = IF names_msg = NULL THEN 0 ELSE names_msg.len
  /\ names_msg # NULL =>
       /\ names_msg.len <= Len(names_msg.names) /\ names_msg.len <= names_msg.cap
       /\ MaxFiles > 0 => names_msg.len < names_msg.cap
  /\ curr_fp # NULL => file_count > 0 /\ curr_fp[2] = names_msg.names[file_count]
  /\ curr_fp = NULL /\ MaxFiles > 0 => file_count < MaxFiles

InMessage(m) == IF m = NULL THEN {} ELSE Contents(m.data)
QueueChunks(q) == UNION {InMessage(q[i]) : i \in 1 .. Len(q)}

(* The data files that will still be sent: the receiver lists them, or a   *)
(* message under way does.                                                 *)
Listed == Named(names_msg) \cup Underway
InFiles(ts) == UNION {Contents(files[DataPath(t)]) : t \in {u \in ts : files[DataPath(u)] # NULL}}

(* Where a chunk can be that has not been given up: in a message at hand,  *)
(* in the queue, in a file to be sent or held by stdio for one, or at the  *)
(* server.                                                                 *)
Kept == InMessage(msg) \cup InMessage(smsg) \cup QueueChunks(queue)
          \cup Contents(pend) \cup InFiles(Listed) \cup Contents(arrived)

(* Until the daemon is told to end, every chunk received is in one of      *)
(* these places, or was given up with a log entry, or went without one in  *)
(* one of three ways: fclose failed; its file was taken off the list       *)
(* because a later write failed or the cache was full; its file was sent   *)
(* before fclose had written it.                                           *)
NoSilentLoss == Running /\ g_quit = 0 => 1 .. got \subseteq Kept \cup dropped \cup lost \cup stranded

(* Over retries, server errors and the detour through files, the server    *)
(* gets each chunk for the first time in the order they were received, and *)
(* only a chunk that is in a file can reach it twice (two files created in *)
(* one second are one file, listed twice).  Once the daemon was told to    *)
(* end, a rename may replace that file.                                    *)
ArrivesInOrder ==
  \A i, j \in 1 .. Len(arrived) :
    i < j /\ arrived[i] >= arrived[j] =>
      /\ \E k \in 1 .. i : arrived[k] = arrived[j]
      /\ g_quit = 0 => arrived[j] \in OnDisk

(* worker.c:402, of a message whose type is not 0: "log data in file,      *)
(* filename in buffer of msg".  Two readings: the buffer the sender takes  *)
(* for names holds no log data; and the file it is about to send holds all *)
(* that was written to it.                                                 *)
FileMsgNamesFiles == smsg # NULL /\ smsg.type # 0 => smsg.data = <<>>

FileMsgDataInFile ==
  spc = "send" /\ smsg.type # 0 /\ HeadExists(smsg) =>
    ~(curr_fp = DataPath(Head(smsg.names)) /\ pend # <<>>)

(* worker.c:375: the sender looks at the flag only after a timeout, and    *)
(* while the queue has data it gets the data first.  So it does not end on *)
(* the flag with a message in the queue.                                   *)
QuitAfterQueue == [][sender_quitcheck /\ spc' = "done" => queue = <<>>]_vars

(* worker.c:375 again: with the network up for good, a queued message is   *)
(* taken.                                                                  *)
QueueIsServed ==
  <>[](ret # "SND_ERR_NET") =>
    (queue # <<>> ~> (queue = <<>> \/ g_quit = 1 \/ proc # "run"))

(* Told to quit, the daemon ends, whatever the network and the disk do.    *)
QuitTerminates == g_quit = 1 ~> proc # "run"
================================================================================
