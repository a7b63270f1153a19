------------------------------- MODULE LogdProofs ------------------------------
(***************************************************************************)
(* The safety of the log daemon of useapp/ for any configuration, any      *)
(* sequence of datagrams and signals, and any behaviour of the network and *)
(* the disk.                                                               *)
(*                                                                         *)
(* The argument.  The properties lean on each other, so IndInv holds them  *)
(* together, grouped by the thread whose steps they are about: RecvInv for *)
(* the message at hand (RecvRoom), NamesInv for the list of data files     *)
(* (NamesMatchFiles), DiskInv for what the two open handles point to,      *)
(* SendInv for the queue and the sender's message, MainInv for the flag.   *)
(* NoSilentLoss then follows from where each step moves the chunks it      *)
(* takes away; it needs LossInv, for the moment between the push of the    *)
(* names and the close of the last file, when the sender may be done with  *)
(* a file the receiver still lists.                                        *)
(***************************************************************************)
EXTENDS Logd, SequenceTheorems, TLAPS

(* main and the starter of the workers: each worker is started once, and   *)
(* until the signal the flag is 0 and nobody acts on it.                   *)
MainInv ==
  /\ proc \in {"run", "exit", "exec"} /\ g_quit \in {0, 1}
  /\ mpc \in {"start", "sigwait", "join_receiver", "join_sender", "end"}
  /\ hup \in BOOLEAN
  /\ rtid \in {0, 1} /\ stid \in {0, 1}
  /\ starter \in {"off", "login", "receiver", "sender", "done"}
  /\ starter \in {"off", "login", "receiver"} => rpc = "off"
  /\ starter # "done" => spc = "off"
  /\ mpc = "start" => starter = "off"
  /\ mpc \in {"start", "sigwait"} => g_quit = 0
  /\ Running /\ g_quit = 0 => spc \notin {"dump", "dumppop"} /\ rpc # "lastpush"

(* Datagrams the kernel has and the receiver has been told of.             *)
Announced == IF nfds = 1 /\ rpc \in {"names", "detach", "recv"} THEN 1 ELSE 0

(* Chunks in the message at hand.                                          *)
AtHand == IF msg = NULL THEN 0 ELSE Len(msg.data)

(* The datagrams: received, announced and still to come.  Each file of the *)
(* cache was created for a chunk of its own.                               *)
RecvCount ==
  /\ rpc \in {"off", "start", "select", "quitcheck", "lastpush", "names", "detach", "recv",
              "flush", "write", "done"}
  /\ nfds \in {0, 1} /\ traffic \in 0 .. Traffic /\ got \in 0 .. Traffic
  /\ rpc = "quitcheck" => nfds = 0
  /\ got + traffic + Announced <= Traffic
  /\ file_count + AtHand <= got

(* The message at hand: there is one where the code uses it, it was        *)
(* allocated with node_size bytes whatever its header says, and it has     *)
(* room for a datagram, if an empty one has, except between a recv and the *)
(* flush or write that follows.  It lists no file.  A datagram counts at   *)
(* most MAX_BUFF_SIZE bytes.                                               *)
MsgShape ==
  /\ msg \in Message \cup {NULL}
  /\ rpc \in {"detach", "recv", "flush", "write", "lastpush"} => msg # NULL
  /\ msg # NULL =>
       /\ msg.cap \in {0, node_size} /\ msg.names = <<>>
       /\ msg.len <= MAX_BUFF_SIZE * Len(msg.data)
       /\ rpc \in {"lastpush", "write"} => msg.len > 0
       /\ rpc \in {"off", "start", "select", "quitcheck", "names", "detach", "recv"} =>
            (MAX_BUFF_SIZE + 1 <= node_size => msg.len + MAX_BUFF_SIZE + 1 <= node_size)

RecvInv == RecvCount /\ MsgShape

(* The data files and the list of their names.                             *)
NamesInv ==
  /\ names_msg \in Message \cup {NULL}
  /\ names_msg # NULL => /\ names_msg.cap = MaxFiles + 1
                         /\ names_msg.type = 1 /\ names_msg.data = <<>>
  /\ file_count \in 0 .. (MaxFiles + 1)
  /\ curr_fp \in Path \cup {NULL} /\ curr_fsize \in Nat /\ pend \in Seq(Chunk)
  /\ curr_fp = NULL => pend = <<>> /\ (file_count = 0 \/ file_count < MaxFiles)
  /\ NamesMatchFiles

(* The data directory: an open handle is on a file that exists.  A data    *)
(* file that is renamed while it is open is not there under its old name.  *)
DiskInv ==
  /\ files \in [Path -> Seq(Chunk) \cup {NULL}]
  /\ clock \in 0 .. (Traffic + 1)
  /\ curr_fp # NULL =>
       /\ files[curr_fp] # NULL
       /\ curr_fp[1] = "token" => files[DataPath(curr_fp[2])] = NULL
  /\ dumpfp \in {TokenPath(t) : t \in Second} \cup {NULL, GONE} /\ dpend \in Seq(Chunk)
  /\ dumpfp \notin {NULL, GONE} => files[dumpfp] # NULL

(* The queue, the sender and the server.  Only a message of type 1 lists   *)
(* files.                                                                  *)
SendInv ==
  /\ queue \in Seq(Message) /\ Len(queue) <= node_count
  /\ spc \in {"off", "pop", "quitcheck", "send", "check", "dump", "dumppop", "done"}
  /\ smsg \in Message \cup {NULL}
  /\ spc \in {"send", "dump"} => smsg # NULL
  /\ spc \in {"off", "pop", "quitcheck"} => smsg = NULL
  /\ \A i \in 1 .. Len(queue) : queue[i].type = 0 => queue[i].names = <<>>
  /\ smsg # NULL => (smsg.type = 0 => smsg.names = <<>>)
  /\ ret \in {"SND_SUCCESS", "SND_ERR_SYS", "SND_ERR_SRV", "SND_ERR_NET"}
  /\ arrived \in Seq(Chunk) /\ dropped \subseteq Chunk
  /\ lost \subseteq Chunk /\ stranded \subseteq Chunk

IndInv == MainInv /\ RecvInv /\ NamesInv /\ DiskInv /\ SendInv

--------------------------------------------------------------------------------
(* Arithmetic and messages.                                                *)

(* Multiplication by the size of a datagram.                               *)
LEMMA Times ==
  ASSUME NEW m \in Nat, NEW a \in Nat, NEW b \in Nat, a <= b
  PROVE  m * a \in Nat /\ m * a <= m * b /\ m * (a + 1) = m * a + m
<1>1. m * (b - a) >= 0 /\ m * b = m * a + m * (b - a)
  OBVIOUS
<1>2. QED
  BY <1>1

(* A datagram has at least one byte.                                       *)
LEMMA TimesGrows ==
  ASSUME NEW m \in Nat \ {0}, NEW b \in Nat
  PROVE  m * b \in Nat /\ b <= m * b
<1>1. (m - 1) * b >= 0 /\ m * b = (m - 1) * b + b
  OBVIOUS
<1>2. QED
  BY <1>1

(* Sums over the counters of datagrams and files.                          *)
LEMMA SumSplit ==
  ASSUME NEW a \in Nat, NEW b \in Nat, NEW c \in Nat, NEW d \in Nat, NEW n \in Nat,
         c + d <= b, a + b <= n
  PROVE  a + c + d <= n
  OBVIOUS

(* One more file for at least one chunk.                                   *)
LEMMA SumFile ==
  ASSUME NEW a \in Nat, NEW b \in Nat, NEW c \in Nat, NEW n \in Nat,
         a + b <= n, c <= a + 1, b > 0
  PROVE  c <= n
  OBVIOUS

(* One more chunk.                                                         *)
LEMMA SumChunk ==
  ASSUME NEW a \in Nat, NEW b \in Nat, NEW n \in Nat, a + b <= n
  PROVE  a + (b + 1) <= n + 1
  OBVIOUS

(* Nothing more.                                                           *)
LEMMA SumZero ==
  ASSUME NEW a \in Nat, NEW b \in Nat
  PROVE  a + b + 0 = a + b /\ a + 0 = a
  OBVIOUS

(* The number of data files the cache keeps, after datafile_init.          *)
LEMMA MaxFilesType ==
  MaxFiles \in Nat
  BY ConfAssumption DEF MaxFiles

(* The components of a message; NULL is not one.                           *)
LEMMA MessageParts ==
  ASSUME NEW m \in Message
  PROVE  /\ m # NULL /\ m.type \in {0, 1} /\ m.len \in Nat /\ m.len <= MAX_BUFF_SIZE * Traffic
         /\ m.cap \in {0, node_size, MaxFiles + 1}
         /\ m.data \in Seq(Chunk) /\ m.names \in Seq(Second)
         /\ DOMAIN m = {"type", "len", "cap", "data", "names"}
  BY NullAssumption DEF Message

(* The messages the daemon makes.                                          *)
LEMMA NewMessages ==
  /\ message_new(node_size, 0) \in Message
  /\ message_new(MaxFiles + 1, 1) \in Message
  /\ MESSAGE_BZERO \in Message
<1>1. MAX_BUFF_SIZE * Traffic \in Nat
  BY ConfAssumption
<1>2. <<>> \in Seq(Chunk) /\ <<>> \in Seq(Second)
  OBVIOUS
<1>3. QED
  BY <1>1, <1>2 DEF message_new, MESSAGE_BZERO, Message

(* Setting the type, or the length, of a message.                          *)
LEMMA SetType ==
  ASSUME NEW m \in Message, NEW k \in {0, 1}
  PROVE  /\ [m EXCEPT !.type = k] \in Message /\ [m EXCEPT !.type = k] # NULL
         /\ [m EXCEPT !.type = k].len = m.len /\ [m EXCEPT !.type = k].cap = m.cap
         /\ [m EXCEPT !.type = k].data = m.data /\ [m EXCEPT !.type = k].names = m.names
<1>1. [m EXCEPT !.type = k] \in Message
  BY DEF Message
<1>2. QED
  BY <1>1, MessageParts DEF Message

--------------------------------------------------------------------------------
(* Who changes what.                                                       *)

(* A step of main or of the starter leaves the workers' state alone, or    *)
(* starts one of them, or ends the process.                                *)
LEMMA MainFrame ==
  ASSUME Signal \/ user_loggin \/ MainStep \/ StarterStep
  PROVE  \/ UNCHANGED <<proc, queue, disk, rvars, svars, outside>>
         \/ create_receiver
         \/ create_sender
         \/ /\ MemoryGone /\ proc' \in {"exit", "exec"} /\ UNCHANGED <<g_quit, mpc, hup>>
            /\ \/ files' = files
               \/ \E out \in Written(pend), dout \in Written(dpend) :
                    files' = Flushed(Flushed(files, curr_fp, out), dumpfp, dout)
<1>1. CASE Signal
  BY <1>1 DEF Signal, signal_graceful, signal_term, Exit
<1>2. CASE user_loggin
  BY <1>2 DEF user_loggin
<1>3. CASE MainStep
  BY <1>3 DEF MainStep, main_start, main_start_fails, join_receiver, join_sender, reload, end, Exit
<1>4. CASE StarterStep
  BY <1>4 DEF StarterStep, create_fails, Exit
<1>5. QED
  BY <1>1, <1>2, <1>3, <1>4

(* A step of the receiver leaves the sender, the flag and main alone.      *)
LEMMA ReceiverFrame ==
  ASSUME ReceiverStep
  PROVE  /\ UNCHANGED <<g_quit, svars, arrived, mvars>>
         /\ proc' # proc => receiver_start_fails
<1>1. CASE receiver_start \/ receiver_start_fails \/ select_ready \/ select_timeout
  BY <1>1 DEF receiver_start, receiver_start_fails, select_ready, select_timeout, outside
<1>2. CASE receiver_quitcheck \/ last_push \/ push_names \/ detach_names
  BY <1>2 DEF receiver_quitcheck, last_push, push_names, detach_names, outside
<1>3. CASE netlink_sock_recv \/ flush \/ write_datamsg
  BY <1>3 DEF netlink_sock_recv, flush, write_datamsg, outside
<1>4. QED
  BY <1>1, <1>2, <1>3 DEF ReceiverStep

(* A step of the sender leaves the receiver, the flag and main alone; only *)
(* the rename of the dump makes the receiver's handle follow its file.     *)
LEMMA SenderFrame ==
  ASSUME SenderStep
  PROVE  /\ UNCHANGED <<proc, g_quit, rpc, rlocal, names_msg, file_count, curr_fsize, pend, mvars>>
         /\ curr_fp' # curr_fp => dump_rename
<1>1. CASE sender_pop \/ sender_pop_timeout \/ sender_quitcheck \/ send_log_buff
  BY <1>1 DEF sender_pop, sender_pop_timeout, sender_quitcheck, send_log_buff, rvars, datafile
<1>2. CASE send_log_file \/ send_files_end \/ sender_check
  BY <1>2 DEF send_log_file, send_files_end, sender_check, rvars, datafile
<1>3. CASE dump_rename \/ dump_names_end
  BY <1>3 DEF dump_rename, dump_names_end, rvars, datafile
<1>4. CASE dump_open \/ dump_write \/ dump_pop \/ dump_pop_timeout
  BY <1>4 DEF dump_open, dump_write, dump_pop, dump_pop_timeout, rvars, datafile
<1>5. QED
  BY <1>1, <1>2, <1>3, <1>4 DEF SenderStep

--------------------------------------------------------------------------------
(* main.                                                                   *)

(* The flag is raised once, and the workers act on it only then.           *)
LEMMA MainKeeps ==
  ASSUME IndInv, [Next]_vars
  PROVE  MainInv'
<1> USE DEF IndInv
<1>1. CASE UNCHANGED vars
  BY <1>1 DEF vars, rvars, svars, mvars, MainInv, Running
<1>2. CASE Running /\ ReceiverStep
  <2>1. UNCHANGED <<g_quit, svars, mvars>> /\ (proc' = proc \/ proc' = "exit")
    BY <1>2, ReceiverFrame DEF receiver_start_fails
  <2>2. rpc # "off"
    BY <1>2 DEF ReceiverStep, RGoto, receiver_start, receiver_start_fails, select_ready, select_timeout,
       receiver_quitcheck, last_push, push_names, detach_names, netlink_sock_recv, flush, write_datamsg
  <2>3. rpc' = "lastpush" => g_quit # 0
    BY <1>2 DEF ReceiverStep, RGoto, receiver_start, receiver_start_fails, select_ready, select_timeout,
       receiver_quitcheck, check_workers_quit, last_push, push_names, detach_names,
       netlink_sock_recv, flush, write_datamsg
  <2>4. QED
    BY <1>2, <2>1, <2>2, <2>3 DEF MainInv, Running, svars, mvars
<1>3. CASE Running /\ SenderStep
  <2>1. UNCHANGED <<proc, g_quit, rpc, mvars>>
    BY <1>3, SenderFrame
  <2>2. spc # "off" /\ (spc' \in {"dump", "dumppop"} => spc \in {"dump", "dumppop"} \/ g_quit # 0)
    <3>1. CASE sender_pop \/ sender_pop_timeout \/ sender_quitcheck \/ send_log_buff
      BY <3>1 DEF sender_pop, sender_pop_timeout, sender_quitcheck, send_log_buff, SGoto
    <3>2. CASE send_log_file \/ send_files_end \/ sender_check
      BY <3>2 DEF send_log_file, send_files_end, sender_check, SGoto, check_workers_quit
    <3>3. CASE dump_rename \/ dump_names_end \/ dump_open \/ dump_write \/ dump_pop \/ dump_pop_timeout
      BY <3>3 DEF dump_rename, dump_names_end, dump_open, dump_write, dump_pop, dump_pop_timeout,
                  SGoto
    <3>4. QED
      BY <1>3, <3>1, <3>2, <3>3 DEF SenderStep
  <2>3. QED
    BY <1>3, <2>1, <2>2 DEF MainInv, Running, mvars
<1>4. CASE Running /\ (Signal \/ user_loggin \/ MainStep \/ StarterStep)
  <2>1. CASE MemoryGone /\ proc' \in {"exit", "exec"} /\ UNCHANGED <<g_quit, mpc, hup>>
    BY <2>1 DEF MemoryGone, MainInv, Running
  <2>2. CASE create_receiver \/ create_sender
    BY <1>4, <2>2 DEF create_receiver, create_sender, rvars, svars, MainInv, Running
  <2>3. CASE UNCHANGED <<proc, queue, disk, rvars, svars, outside>>
    <3>1. UNCHANGED <<proc, rpc, spc>>
      BY <2>3 DEF rvars, svars
    <3>2. CASE \E from \in Senders, sig \in Signals : signal_graceful(from, sig)
      BY <3>1, <3>2 DEF signal_graceful, MainInv, Running
    <3>3. CASE main_start \/ user_loggin \/ join_receiver \/ join_sender
      BY <3>1, <3>3 DEF main_start, user_loggin, join_receiver, join_sender, MainInv, Running
    <3>4. CASE \/ \E from \in Senders, sig \in Signals : signal_term(from, sig)
               \/ main_start_fails \/ reload \/ end \/ StarterStep
      <4>1. create_receiver \/ create_sender \/ proc' \in {"exit", "exec"}
        BY <3>4 DEF signal_term, main_start_fails, reload, end, StarterStep, create_fails, Exit
      <4>2. QED
        BY <1>4, <2>2, <3>1, <4>1 DEF Running
    <3>5. QED
      BY <1>4, <3>2, <3>3, <3>4 DEF Signal, MainStep
  <2>4. QED
    BY <1>4, <2>1, <2>2, <2>3, MainFrame
<1>5. QED
  BY <1>1, <1>2, <1>3, <1>4 DEF Next

--------------------------------------------------------------------------------
(* The receiver's message.                                                 *)

(* d datagrams have brought at most k bytes, and one more brings n.        *)
LEMMA RoomLeft ==
  ASSUME NEW k \in Nat, NEW d \in Nat, NEW n \in 1 .. MAX_BUFF_SIZE,
         k <= MAX_BUFF_SIZE * d, d < Traffic
  PROVE  k + n \in 0 .. (MAX_BUFF_SIZE * Traffic) /\ k + n <= MAX_BUFF_SIZE * (d + 1)
<1>1. MAX_BUFF_SIZE \in Nat /\ Traffic \in Nat /\ d + 1 \in Nat /\ d + 1 <= Traffic /\ d <= d
      /\ Traffic <= Traffic
  BY ConfAssumption
<1>2. /\ MAX_BUFF_SIZE * d \in Nat /\ MAX_BUFF_SIZE * (d + 1) = MAX_BUFF_SIZE * d + MAX_BUFF_SIZE
      /\ MAX_BUFF_SIZE * (d + 1) <= MAX_BUFF_SIZE * Traffic /\ MAX_BUFF_SIZE * Traffic \in Nat
  BY <1>1, Times
<1>3. QED
  BY <1>1, <1>2

(* A datagram is put after the data the message holds.                     *)
Received(m, n, c) == [m EXCEPT !.len = @ + n, !.data = Append(@, c)]

(* It is still a message of the same capacity, with one chunk more.        *)
LEMMA ReceivedInto ==
  ASSUME NEW m \in Message, NEW n \in 1 .. MAX_BUFF_SIZE, NEW c \in Chunk,
         m.len <= MAX_BUFF_SIZE * Len(m.data), Len(m.data) < Traffic
  PROVE  /\ Received(m, n, c) \in Message /\ Received(m, n, c) # NULL
         /\ Received(m, n, c).cap = m.cap /\ Received(m, n, c).len = m.len + n
         /\ Received(m, n, c).names = m.names
         /\ Received(m, n, c).data = Append(m.data, c) /\ Len(Received(m, n, c).data) = Len(m.data) + 1
         /\ Received(m, n, c).len <= MAX_BUFF_SIZE * Len(Received(m, n, c).data)
<1> DEFINE r == Received(m, n, c)
<1>1. /\ m.type \in {0, 1} /\ m.len \in Nat /\ m.cap \in {0, node_size, MaxFiles + 1}
      /\ m.data \in Seq(Chunk) /\ m.names \in Seq(Second) /\ Len(m.data) \in Nat
      /\ DOMAIN m = {"type", "len", "cap", "data", "names"}
  BY MessageParts
<1>2. /\ Append(m.data, c) \in Seq(Chunk) /\ Len(Append(m.data, c)) = Len(m.data) + 1
  BY <1>1
<1>3. /\ r.cap = m.cap /\ r.len = m.len + n /\ r.data = Append(m.data, c)
      /\ r.type = m.type /\ r.names = m.names
  BY <1>1 DEF Message, Received
<1>4. /\ m.len + n \in 0 .. (MAX_BUFF_SIZE * Traffic)
      /\ m.len + n <= MAX_BUFF_SIZE * (Len(m.data) + 1)
  BY <1>1, RoomLeft
<1>5. r \in Message
  BY <1>1, <1>2, <1>4 DEF Message, Received
<1>6. QED
  BY <1>2, <1>3, <1>4, <1>5, MessageParts

(* A message with bytes in it holds a chunk.                               *)
LEMMA HoldsChunk ==
  ASSUME NEW m \in Message, m.len <= MAX_BUFF_SIZE * Len(m.data), m.len > 0
  PROVE  Len(m.data) \in Nat /\ Len(m.data) > 0
<1>1. m.len \in Nat /\ Len(m.data) \in Nat
  BY MessageParts
<1>2. MAX_BUFF_SIZE * 0 = 0
  BY ConfAssumption
<1>3. QED
  BY <1>1, <1>2

(* The message at hand depends on the receiver's state alone.              *)
LEMMA RecvSame ==
  ASSUME RecvInv, UNCHANGED <<rpc, rlocal, file_count>>
  PROVE  RecvInv'
  BY DEF RecvInv, RecvCount, MsgShape, Announced, AtHand, rlocal

(* What the receiver does to its message keeps it in shape.                *)
LEMMA RecvKeeps ==
  ASSUME IndInv, [Next]_vars
  PROVE  RecvInv'
<1> USE DEF IndInv, RecvInv
<1>0. /\ MAX_BUFF_SIZE \in Nat \ {0} /\ node_size \in Nat
      /\ Traffic \in Nat /\ file_count \in Nat /\ Announced \in {0, 1}
      /\ AtHand \in Nat
      /\ msg # NULL => /\ msg \in Message /\ msg.len \in Nat /\ msg.type \in {0, 1}
                       /\ msg.data \in Seq(Chunk) /\ Len(msg.data) \in Nat
  BY MessageParts, MaxFilesType, ConfAssumption DEF MsgShape, NamesInv, Announced, AtHand
<1>9. /\ got \in Nat /\ traffic \in Nat /\ Traffic \in Nat /\ file_count \in Nat /\ AtHand \in Nat
      /\ Announced \in Nat /\ got + traffic + Announced <= Traffic /\ file_count + AtHand <= got
  BY <1>0 DEF RecvCount
<1>1. CASE UNCHANGED vars
  BY <1>1, RecvSame DEF vars, rvars, datafile
<1>2. CASE Running /\ ReceiverStep
  <2>1. CASE receiver_start \/ receiver_start_fails \/ select_ready \/ select_timeout
    <3>1. /\ rpc' \in {"select", "names", "quitcheck", "done"} /\ UNCHANGED <<msg, got, file_count>>
          /\ rpc \in {"start", "select"}
      BY <2>1 DEF receiver_start, receiver_start_fails, select_ready, select_timeout, RGoto,
                  rlocal, datafile
    <3>2. /\ nfds' \in {0, 1} /\ traffic' \in 0 .. Traffic /\ (rpc' = "quitcheck" => nfds' = 0)
          /\ traffic' + Announced' <= traffic /\ Announced' \in {0, 1}
      BY <1>0, <2>1 DEF receiver_start, receiver_start_fails, select_ready, select_timeout, RGoto,
                  rlocal, RecvCount, Announced
    <3>3. AtHand' = AtHand
      BY <3>1 DEF AtHand
    <3>4. got + traffic' + Announced' <= Traffic
      <4>1. traffic' \in Nat /\ Announced' \in Nat
        BY <3>2, <1>9
      <4>2. got + traffic <= Traffic
        BY <1>9
      <4>3. QED
        BY <1>9, <3>2, <4>1, <4>2, SumSplit
    <3>5. RecvCount'
      BY <1>9, <3>1, <3>2, <3>3, <3>4 DEF RecvCount
    <3>6. QED
      BY <3>1, <3>5 DEF MsgShape
  <2>2. CASE receiver_quitcheck \/ last_push
    <3>1. UNCHANGED <<nfds, msg, traffic, got, file_count>>
      BY <2>2 DEF receiver_quitcheck, last_push, rlocal, datafile
    <3>2. /\ rpc' \in {"names", "lastpush", "done"}
          /\ rpc' = "names" => rpc = "quitcheck"
          /\ rpc' = "lastpush" => msg # NULL /\ msg.len > 0
      BY <2>2 DEF receiver_quitcheck, last_push, RGoto
    <3>3. Announced' = 0 /\ AtHand' = AtHand
      BY <2>2, <3>1, <3>2 DEF Announced, RecvCount, AtHand
    <3>4. RecvCount'
      BY <1>0, <3>1, <3>2, <3>3 DEF RecvCount
    <3>5. QED
      BY <3>1, <3>2, <3>4 DEF MsgShape
  <2>3. CASE push_names
    <3>1. /\ UNCHANGED <<nfds, traffic, got, file_count>> /\ rpc = "names" /\ rpc' \in {"recv", "detach"}
      BY <2>3 DEF push_names, datafile
    <3>2. PICK m \in Message : /\ m = IF msg = NULL THEN message_new(node_size, 0) ELSE msg
                               /\ msg' = m \/ msg' = [m EXCEPT !.type = 1]
      BY <1>0, <2>3, NewMessages DEF push_names
    <3>3. /\ msg' \in Message /\ msg' # NULL /\ msg'.len = m.len /\ msg'.cap = m.cap
          /\ msg'.data = m.data /\ msg'.names = m.names
      BY <3>2, SetType, MessageParts
    <3>4. /\ MAX_BUFF_SIZE + 1 <= node_size => m.len + MAX_BUFF_SIZE + 1 <= node_size
          /\ m.cap \in {0, node_size} /\ m.names = <<>>
          /\ m.len <= MAX_BUFF_SIZE * Len(m.data)
          /\ Len(m.data) = AtHand
      BY <1>0, <3>1, <3>2 DEF MsgShape, message_new, AtHand
    <3>5. Announced' = Announced /\ AtHand' = AtHand
      BY <3>1, <3>3, <3>4 DEF Announced, AtHand
    <3>6. RecvCount'
      BY <1>0, <3>1, <3>3, <3>4, <3>5 DEF RecvCount
    <3>7. QED
      BY <3>1, <3>3, <3>4, <3>6 DEF MsgShape
  <2>4. CASE detach_names
    <3>1. /\ UNCHANGED <<nfds, traffic, got>> /\ file_count' = 0 /\ rpc = "detach" /\ rpc' = "recv"
          /\ msg' = [msg EXCEPT !.type = 0] /\ msg \in Message
      BY <1>0, <2>4 DEF detach_names, RGoto, MsgShape
    <3>2. /\ msg' \in Message /\ msg' # NULL /\ msg'.len = msg.len /\ msg'.cap = msg.cap
          /\ msg'.data = msg.data /\ msg'.names = msg.names
      BY <3>1, SetType
    <3>3. msg # NULL
      BY <3>1, MessageParts
    <3>4. Announced' = Announced /\ AtHand' = AtHand
      BY <3>1, <3>2, <3>3 DEF Announced, AtHand
    <3>5. RecvCount'
      BY <1>0, <3>1, <3>2, <3>3, <3>4 DEF RecvCount
    <3>6. QED
      BY <3>1, <3>2, <3>3, <3>5 DEF MsgShape
  <2>5. CASE netlink_sock_recv
    <3>1. /\ UNCHANGED <<nfds, traffic, file_count>> /\ rpc = "recv" /\ rpc' = "flush" /\ Announced' = 0
          /\ msg # NULL
      BY <2>5 DEF netlink_sock_recv, RGoto, MsgShape, Announced, datafile
    <3>2. CASE UNCHANGED <<msg, got>>
      <4>1. RecvCount'
        BY <1>0, <3>1, <3>2 DEF RecvCount, AtHand
      <4>2. QED
        BY <3>1, <3>2, <4>1 DEF MsgShape
    <3>3. CASE /\ nfds = 1 /\ got' = got + 1
               /\ \E n \in 1 .. MAX_BUFF_SIZE :
                    msg' = [msg EXCEPT !.len = @ + n, !.data = Append(@, got + 1)]
      <4>1. PICK n \in 1 .. MAX_BUFF_SIZE : msg' = Received(msg, n, got + 1)
        BY <3>3 DEF Received
      <4>2. Announced = 1
        BY <3>1, <3>3 DEF Announced
      <4>3. /\ got + 1 \in Chunk /\ got + 1 + traffic <= Traffic /\ Len(msg.data) < Traffic
            /\ file_count + Len(msg.data) <= got
        BY <1>0, <3>1, <4>2 DEF RecvCount, Chunk, AtHand
      <4>4. /\ msg.len <= MAX_BUFF_SIZE * Len(msg.data) /\ msg.cap \in {0, node_size} /\ msg \in Message
            /\ msg.names = <<>>
        BY <1>0, <3>1 DEF MsgShape
      <4>5. /\ msg' \in Message /\ msg' # NULL /\ msg'.cap = msg.cap /\ msg'.names = msg.names
            /\ Len(msg'.data) = Len(msg.data) + 1 /\ msg'.len <= MAX_BUFF_SIZE * Len(msg'.data)
        BY <4>1, <4>3, <4>4, ReceivedInto
      <4>6. AtHand' = AtHand + 1 /\ file_count' + AtHand' <= got'
        BY <1>9, <3>1, <3>3, <4>3, <4>5, SumChunk DEF AtHand
      <4>7. RecvCount'
        <5>1. traffic' \in 0 .. Traffic /\ nfds' \in {0, 1}
          BY <1>0, <3>1 DEF RecvCount
        <5>2. got' \in 0 .. Traffic /\ got' + traffic' + Announced' <= Traffic
          BY <1>9, <3>1, <3>3, <4>3, <5>1 DEF Chunk
        <5>3. QED
          BY <3>1, <4>6, <5>1, <5>2 DEF RecvCount
      <4>8. QED
        BY <3>1, <4>4, <4>5, <4>7 DEF MsgShape
    <3>4. QED
      BY <2>5, <3>2, <3>3 DEF netlink_sock_recv
  <2>6. CASE flush
    <3>1. /\ UNCHANGED <<nfds, traffic, got, file_count>> /\ rpc = "flush" /\ rpc' \in {"select", "write"}
          /\ Announced' = 0 /\ msg # NULL
      BY <2>6 DEF flush, MsgShape, Announced, datafile
    <3>2. CASE ~NeedsFlush /\ rpc' = "select" /\ msg' = msg
      <4>1. MAX_BUFF_SIZE + 1 <= node_size => msg.len + MAX_BUFF_SIZE + 1 <= node_size
        BY <1>0, <3>1, <3>2 DEF NeedsFlush, MsgShape, RecvCount
      <4>2. RecvCount'
        BY <1>0, <3>1, <3>2 DEF RecvCount, AtHand
      <4>3. QED
        BY <3>1, <3>2, <4>1, <4>2 DEF MsgShape
    <3>3. CASE rpc' = "select" /\ msg' = NULL
      <4>1. RecvCount'
        BY <1>0, <3>1, <3>3 DEF RecvCount, AtHand
      <4>2. QED
        BY <3>1, <3>3, <4>1 DEF MsgShape
    <3>4. CASE NeedsFlush /\ rpc' = "write" /\ (msg' = msg \/ msg' = [msg EXCEPT !.type = 1])
      <4>1. /\ msg' \in Message /\ msg' # NULL /\ msg'.len = msg.len /\ msg'.cap = msg.cap
            /\ msg'.data = msg.data /\ msg'.names = msg.names
        BY <1>0, <3>1, <3>4, SetType
      <4>2. RecvCount'
        BY <1>0, <3>1, <3>4, <4>1 DEF RecvCount, AtHand
      <4>3. QED
        BY <3>1, <3>4, <4>1, <4>2 DEF MsgShape, NeedsFlush
    <3>5. QED
      BY <2>6, <3>2, <3>3, <3>4 DEF flush
  <2>7. CASE write_datamsg
    <3>1. /\ UNCHANGED <<nfds, traffic, got>> /\ rpc = "write" /\ rpc' = "select" /\ Announced' = 0
      BY <2>7 DEF write_datamsg, RGoto, Announced
    <3>2. msg # NULL /\ Len(msg.data) > 0
      BY <1>0, <3>1, HoldsChunk DEF MsgShape
    <3>3. msg' \in {NULL, MESSAGE_BZERO} /\ file_count' \in Nat /\ file_count' <= file_count + 1
      BY <1>0, <2>7 DEF write_datamsg, write_cache_full, write_current, write_new, WriteFails,
                        WriteSucceeds
    <3>4. AtHand' = 0 /\ AtHand = Len(msg.data)
      BY <3>2, <3>3 DEF AtHand, MESSAGE_BZERO, message_new
    <3>5. file_count' + AtHand' <= got' /\ got' + traffic' + Announced' <= Traffic
      <4>1. file_count' <= got
        BY <1>9, <3>2, <3>3, <3>4, SumFile
      <4>2. got + traffic <= Traffic
        BY <1>9
      <4>3. file_count' + 0 = file_count' /\ got + traffic + 0 = got + traffic
        BY <1>9, <3>3, SumZero
      <4>4. QED
        BY <3>1, <3>4, <4>1, <4>2, <4>3
    <3>6. RecvCount'
      BY <1>9, <3>1, <3>3, <3>4, <3>5 DEF RecvCount
    <3>7. QED
      BY <1>0, <3>1, <3>3, <3>6, NewMessages DEF MsgShape, MESSAGE_BZERO, message_new
  <2>8. QED
    BY <1>2, <2>1, <2>2, <2>3, <2>4, <2>5, <2>6, <2>7 DEF ReceiverStep
<1>3. CASE Running /\ SenderStep
  BY <1>3, SenderFrame, RecvSame
<1>4. CASE Running /\ (Signal \/ user_loggin \/ MainStep \/ StarterStep)
  <2>1. CASE MemoryGone
    BY <1>0, <2>1 DEF MemoryGone, RecvCount, MsgShape, Announced, AtHand
  <2>2. CASE create_receiver
    <3>1. rpc = "off" /\ rpc' = "start" /\ UNCHANGED <<rlocal, file_count>>
      BY <2>2 DEF create_receiver, MainInv, datafile
    <3>2. QED
      BY <1>0, <3>1 DEF RecvCount, MsgShape, Announced, AtHand, rlocal
  <2>3. CASE create_sender \/ UNCHANGED <<proc, queue, disk, rvars, svars, outside>>
    BY <2>3, RecvSame DEF create_sender, rvars, datafile
  <2>4. QED
    BY <1>4, <2>1, <2>2, <2>3, MainFrame
<1>5. QED
  BY <1>1, <1>2, <1>3, <1>4 DEF Next

--------------------------------------------------------------------------------
(* The data files and their names.                                         *)

(* Paths and the values that stand for none.                               *)
LEMMA Paths ==
  ASSUME NEW t \in Second
  PROVE  /\ DataPath(t) \in Path /\ TokenPath(t) \in Path /\ DataPath(t) # TokenPath(t)
         /\ DataPath(t)[1] = "data" /\ TokenPath(t)[1] = "token"
         /\ DataPath(t)[2] = t /\ TokenPath(t)[2] = t
  BY DEF DataPath, TokenPath, Path

(* An open file is neither NULL nor GONE.                                  *)
LEMMA NotPaths ==
  NULL \notin Path /\ GONE \notin Path /\ NULL # GONE
<1>1. NULL \notin Path /\ NULL # GONE
  BY NullAssumption
<1>2. GONE \notin Path
  BY DEF GONE, Path
<1>3. QED
  BY <1>1, <1>2

(* A message with one name less.                                           *)
Shorter(m) == [m EXCEPT !.len = @ - 1]

(* It is still a message.                                                  *)
LEMMA ShorterMessage ==
  ASSUME NEW m \in Message, m.len > 0
  PROVE  /\ Shorter(m) \in Message /\ Shorter(m) # NULL /\ Shorter(m).len = m.len - 1
         /\ Shorter(m).type = m.type /\ Shorter(m).cap = m.cap
         /\ Shorter(m).data = m.data /\ Shorter(m).names = m.names
<1>1. m.len \in Nat /\ m.len <= MAX_BUFF_SIZE * Traffic /\ MAX_BUFF_SIZE * Traffic \in Nat
  BY MessageParts, ConfAssumption
<1>2. m.len - 1 \in 0 .. (MAX_BUFF_SIZE * Traffic)
  BY <1>1
<1>3. Shorter(m) \in Message
  BY <1>2 DEF Message, Shorter
<1>4. QED
  BY <1>3, MessageParts DEF Message, Shorter

(* The list of names with one more on it.                                  *)
LEMMA OneMoreName ==
  ASSUME NamesInv, NEW t \in Second, file_count + 1 <= Traffic
  PROVE  /\ WithName(t) \in Message /\ WithName(t) # NULL /\ WithName(t).len = file_count + 1
         /\ WithName(t).cap = MaxFiles + 1 /\ WithName(t).type = 1 /\ WithName(t).data = <<>>
         /\ Len(WithName(t).names) = file_count + 1 /\ WithName(t).names[file_count + 1] = t
         /\ \A i \in 1 .. file_count : names_msg # NULL /\ WithName(t).names[i] = names_msg.names[i]
<1> DEFINE m == IF names_msg = NULL THEN message_new(MaxFiles + 1, 1) ELSE names_msg
           l == Append(SubSeq(m.names, 1, m.len), t)
<1>1. m \in Message
  BY NewMessages DEF NamesInv
<1>2. m.len = file_count /\ m.cap = MaxFiles + 1 /\ m.type = 1 /\ m.data = <<>>
  BY DEF NamesInv, NamesMatchFiles, message_new
<1>3. m.len <= Len(m.names)
  BY DEF NamesInv, NamesMatchFiles, message_new
<1>4. m.len \in Nat /\ m.names \in Seq(Second) /\ Len(m.names) \in Nat
  BY <1>1, MessageParts
<1>5. /\ SubSeq(m.names, 1, m.len) \in Seq(Second) /\ Len(SubSeq(m.names, 1, m.len)) = m.len
      /\ \A i \in 1 .. m.len : SubSeq(m.names, 1, m.len)[i] = m.names[i]
  BY <1>3, <1>4
<1>6. /\ l \in Seq(Second) /\ Len(l) = m.len + 1 /\ l[m.len + 1] = t
      /\ \A i \in 1 .. m.len : l[i] = m.names[i]
  <2> DEFINE q == SubSeq(m.names, 1, m.len)
  <2>1. q \in Seq(Second) /\ Len(q) = m.len /\ \A i \in 1 .. m.len : q[i] = m.names[i]
    BY <1>5
  <2> HIDE DEF q
  <2>2. /\ Append(q, t) \in Seq(Second) /\ Len(Append(q, t)) = Len(q) + 1 /\ Append(q, t)[Len(q) + 1] = t
        /\ \A i \in 1 .. Len(q) : Append(q, t)[i] = q[i]
    BY <2>1
  <2>3. QED
    BY <2>1, <2>2 DEF q
<1>7. m.len + 1 \in 0 .. (MAX_BUFF_SIZE * Traffic)
  <2>1. Traffic <= MAX_BUFF_SIZE * Traffic /\ MAX_BUFF_SIZE * Traffic \in Nat
    BY TimesGrows, ConfAssumption
  <2>2. QED
    BY <2>1, <1>2, <1>4, ConfAssumption
<1> HIDE DEF l
<1>8. WithName(t) = [m EXCEPT !.names = l, !.len = m.len + 1]
  BY DEF WithName, l
<1>11. file_count > 0 => names_msg # NULL /\ m = names_msg
  BY DEF NamesInv, NamesMatchFiles
<1>12. \A i \in 1 .. file_count : file_count > 0
  BY <1>2, <1>4
<1> HIDE DEF m
<1>9. [m EXCEPT !.names = l, !.len = m.len + 1] \in Message
  BY <1>1, <1>6, <1>7 DEF Message
<1>10. QED
  BY <1>1, <1>2, <1>6, <1>8, <1>9, <1>11, <1>12, MessageParts DEF Message

(* What a write does to the list of files: the message is refused and no   *)
(* file is open; the open file is taken off; nothing changes; a new file   *)
(* is put on; or it is put on and taken off again.                         *)
Room == file_count = 0 \/ file_count < MaxFiles

(* A new data file is made and written to.                                 *)
Created(t, closed) ==
  /\ clock' = t
  /\ \/ WriteSucceeds(Opened(closed, DataPath(t)), DataPath(t), WithName(t), file_count + 1, <<>>, 0)
     \/ /\ \E part \in Written(msg.data) :
             files' = Flushed(Opened(closed, DataPath(t)), DataPath(t), part)
        /\ WriteFails(DataPath(t), WithName(t), file_count + 1)

LEMMA WriteNames ==
  ASSUME IndInv, write_datamsg
  PROVE  /\ \/ UNCHANGED <<names_msg, file_count>> /\ curr_fp' = NULL /\ Room
            \/ /\ curr_fp # NULL /\ names_msg' = Shorter(names_msg)
               /\ file_count' = file_count - 1 /\ curr_fp' = NULL
            \/ UNCHANGED <<names_msg, file_count, curr_fp>> /\ curr_fp # NULL
            \/ \E t \in Second :
                 /\ Room /\ names_msg' = WithName(t) /\ file_count' = file_count + 1
                 /\ curr_fp' = DataPath(t)
            \/ \E t \in Second :
                 /\ Room /\ names_msg' = Shorter(WithName(t)) /\ file_count' = file_count
                 /\ curr_fp' = NULL
         /\ curr_fsize' \in Nat /\ pend' \in Seq(Chunk) /\ (curr_fp' = NULL => pend' = <<>>)
<1> USE DEF IndInv, Room
<1>1. /\ file_count \in Nat /\ curr_fsize \in Nat /\ MaxFiles \in Nat /\ pend \in Seq(Chunk)
      /\ curr_fp \in Path \cup {NULL} /\ (curr_fp # NULL => file_count > 0)
      /\ curr_fp = NULL => Room
  BY MaxFilesType DEF NamesInv, NamesMatchFiles
<1>2. msg.len \in Nat /\ msg.data \in Seq(Chunk)
  BY MessageParts DEF write_datamsg, RGoto, RecvInv, MsgShape
<1>3. pend \o msg.data \in Seq(Chunk) /\ <<>> \o msg.data \in Seq(Chunk) /\ <<>> \in Seq(Chunk)
  BY <1>1, <1>2
<1>4. curr_fsize + msg.len \in Nat /\ 0 + msg.len \in Nat /\ file_count + 1 > 0
      /\ (file_count + 1) - 1 = file_count
  BY <1>1, <1>2
<1>5. CASE write_cache_full
  <2>1. curr_fsize' = 0 /\ pend' = <<>> /\ curr_fp' = NULL
    BY <1>5 DEF write_cache_full, WriteFails
  <2>2. CASE curr_fp = NULL
    BY <1>1, <1>3, <1>5, <2>1, <2>2 DEF write_cache_full, WriteFails
  <2>3. CASE curr_fp # NULL
    BY <1>1, <1>3, <1>5, <2>1, <2>3 DEF write_cache_full, WriteFails, Shorter
  <2>4. QED
    BY <2>2, <2>3
<1>6. CASE write_current
  <2>1. CASE WriteFails(curr_fp, names_msg, file_count)
    BY <1>1, <1>3, <1>6, <2>1 DEF write_current, WriteFails, Shorter
  <2>2. CASE WriteSucceeds(files, curr_fp, names_msg, file_count, pend, curr_fsize)
    BY <1>1, <1>3, <1>4, <1>6, <2>2 DEF write_current, WriteSucceeds
  <2>3. QED
    BY <1>6, <2>1, <2>2 DEF write_current
<1>7. CASE write_new
  <2>1. Room
    BY <1>1, <1>7 DEF write_new, CacheFull
  <2>2. CASE WriteFails(NULL, names_msg, file_count)
    BY <1>3, <2>1, <2>2 DEF WriteFails
  <2>3. CASE \E t \in Now :
               \/ \E fs : WriteSucceeds(fs, DataPath(t), WithName(t), file_count + 1, <<>>, 0)
               \/ WriteFails(DataPath(t), WithName(t), file_count + 1)
    <3>1. PICK t \in Second :
               \/ \E fs : WriteSucceeds(fs, DataPath(t), WithName(t), file_count + 1, <<>>, 0)
               \/ WriteFails(DataPath(t), WithName(t), file_count + 1)
      BY <2>3 DEF Now
    <3>2. DataPath(t) # NULL
      BY Paths, NotPaths
    <3>3. CASE \E fs : WriteSucceeds(fs, DataPath(t), WithName(t), file_count + 1, <<>>, 0)
      BY <1>3, <1>4, <2>1, <3>2, <3>3 DEF WriteSucceeds
    <3>4. CASE WriteFails(DataPath(t), WithName(t), file_count + 1)
      <4>1. curr_fsize' = 0 /\ pend' = <<>> /\ curr_fp' = NULL /\ names_msg' = Shorter(WithName(t))
        BY <3>2, <3>4 DEF WriteFails, Shorter
      <4>2. file_count' = file_count
        <5>1. file_count' = IF DataPath(t) # NULL /\ file_count + 1 > 0 THEN (file_count + 1) - 1
                            ELSE file_count + 1
          BY <3>4, Zenon DEF WriteFails
        <5>2. QED
          BY <1>4, <3>2, <5>1
      <4>3. QED
        BY <1>3, <2>1, <4>1, <4>2
    <3>5. QED
      BY <3>1, <3>3, <3>4
  <2>4. QED
    BY <1>7, <2>2, <2>3 DEF write_new
<1>8. QED
  BY <1>5, <1>6, <1>7 DEF write_datamsg

(* The list of files depends on the cache's state alone.                   *)
LEMMA NamesSame ==
  ASSUME NamesInv, UNCHANGED datafile
  PROVE  NamesInv'
  BY DEF NamesInv, NamesMatchFiles, datafile

(* The cache, when no file is listed.                                      *)
LEMMA NoNames ==
  ASSUME names_msg' = NULL, file_count' = 0, curr_fp' = NULL, curr_fsize' = 0, pend' = <<>>
  PROVE  NamesInv'
<1>1. <<>> \in Seq(Chunk) /\ MaxFiles \in Nat
  BY MaxFilesType
<1>2. QED
  BY <1>1 DEF NamesInv, NamesMatchFiles

(* A rename gives the open file a new name of the same second: it cannot   *)
(* replace it, for a data file that is open under the token's name is not  *)
(* there under its own.                                                    *)
LEMMA RenameKeepsOpen ==
  ASSUME IndInv, dump_rename
  PROVE  /\ curr_fp' \in Path \cup {NULL} /\ (curr_fp' = NULL <=> curr_fp = NULL)
         /\ curr_fp # NULL => curr_fp'[2] = curr_fp[2]
<1> USE DEF IndInv
<1> DEFINE t == Head(smsg.names)
<1>1. smsg \in Message /\ smsg.names # <<>> /\ files[DataPath(t)] # NULL
  BY MessageParts DEF dump_rename, HeadExists, SendInv
<1>2. t \in Second
  BY <1>1, MessageParts
<1>3. curr_fp \in Path \cup {NULL}
  BY DEF NamesInv
<1>4. curr_fp # TokenPath(t)
  BY <1>1, <1>2, Paths, NotPaths DEF DiskInv
<1>5. curr_fp' = curr_fp \/ (curr_fp = DataPath(t) /\ curr_fp' = TokenPath(t))
  BY <1>4 DEF dump_rename
<1>6. QED
  BY <1>2, <1>3, <1>5, Paths, NotPaths

(* Names and files agree after every step.                                 *)
LEMMA NamesKeeps ==
  ASSUME IndInv, [Next]_vars
  PROVE  NamesInv'
<1> USE DEF IndInv
<1>0. file_count \in Nat /\ MaxFiles \in Nat
  BY MaxFilesType DEF NamesInv
<1>1. CASE UNCHANGED vars
  BY <1>1, NamesSame DEF vars, rvars
<1>2. CASE Running /\ ReceiverStep
  <2>1. CASE receiver_start \/ receiver_start_fails \/ select_ready \/ select_timeout
             \/ receiver_quitcheck \/ last_push
    BY <2>1, NamesSame DEF receiver_start, receiver_start_fails, select_ready, select_timeout,
                           receiver_quitcheck, last_push
  <2>2. CASE push_names \/ netlink_sock_recv \/ flush
    BY <2>2, NamesSame DEF push_names, netlink_sock_recv, flush
  <2>3. CASE detach_names
    BY <2>3, NoNames DEF detach_names, close_datafile
  <2>4. CASE write_datamsg
    <3>1. /\ curr_fsize' \in Nat /\ pend' \in Seq(Chunk) /\ (curr_fp' = NULL => pend' = <<>>)
      BY <2>4, WriteNames
    <3>2. CASE UNCHANGED <<names_msg, file_count>> /\ curr_fp' = NULL /\ Room
      BY <1>0, <3>1, <3>2 DEF NamesInv, NamesMatchFiles, Room
    <3>3. CASE /\ curr_fp # NULL /\ names_msg' = Shorter(names_msg)
               /\ file_count' = file_count - 1 /\ curr_fp' = NULL
      <4>1. /\ names_msg # NULL /\ names_msg \in Message /\ names_msg.len > 0
            /\ names_msg.len = file_count /\ names_msg.len <= Len(names_msg.names)
            /\ file_count <= MaxFiles + 1 /\ (MaxFiles > 0 => file_count < MaxFiles + 1)
            /\ names_msg.cap = MaxFiles + 1 /\ names_msg.type = 1 /\ names_msg.data = <<>>
        BY <1>0, <3>3 DEF NamesInv, NamesMatchFiles
      <4>2. /\ names_msg' \in Message /\ names_msg' # NULL /\ names_msg'.len = file_count - 1
            /\ names_msg'.type = 1 /\ names_msg'.cap = MaxFiles + 1
            /\ names_msg'.data = <<>> /\ names_msg'.names = names_msg.names
        BY <3>3, <4>1, ShorterMessage
      <4>3. /\ file_count - 1 \in 0 .. (MaxFiles + 1) /\ file_count - 1 <= Len(names_msg.names)
            /\ (file_count - 1 = 0 \/ file_count - 1 < MaxFiles) /\ file_count - 1 < MaxFiles + 1
            /\ (MaxFiles > 0 => file_count - 1 < MaxFiles)
        BY <1>0, <4>1, MessageParts
      <4>4. QED
        BY <1>0, <3>1, <3>3, <4>2, <4>3 DEF NamesInv, NamesMatchFiles
    <3>4. CASE UNCHANGED <<names_msg, file_count, curr_fp>> /\ curr_fp # NULL
      BY <3>1, <3>4 DEF NamesInv, NamesMatchFiles
    <3>5. ASSUME NEW t \in Second, Room
          PROVE  /\ WithName(t) \in Message /\ WithName(t) # NULL /\ WithName(t).len = file_count + 1
                 /\ WithName(t).cap = MaxFiles + 1 /\ WithName(t).type = 1 /\ WithName(t).data = <<>>
                 /\ Len(WithName(t).names) = file_count + 1 /\ WithName(t).names[file_count + 1] = t
                 /\ file_count + 1 \in 0 .. (MaxFiles + 1) /\ file_count + 1 > 0
                 /\ MaxFiles > 0 => file_count + 1 < MaxFiles + 1
      <4>1. msg # NULL /\ Len(msg.data) > 0 /\ Len(msg.data) \in Nat
        BY <2>4, HoldsChunk, MessageParts DEF write_datamsg, RGoto, RecvInv, MsgShape
      <4>2. file_count + Len(msg.data) <= got /\ got <= Traffic /\ got \in Nat /\ Traffic \in Nat
        BY <4>1, ConfAssumption DEF RecvInv, RecvCount, AtHand
      <4>3. file_count + 1 <= Traffic
        BY <1>0, <4>1, <4>2, SumFile
      <4>4. QED
        BY <1>0, <3>5, <4>3, OneMoreName DEF Room
    <3>6. CASE \E t \in Second :
                 /\ Room /\ names_msg' = WithName(t) /\ file_count' = file_count + 1
                 /\ curr_fp' = DataPath(t)
      <4>1. PICK t \in Second : /\ Room /\ names_msg' = WithName(t) /\ file_count' = file_count + 1
                                /\ curr_fp' = DataPath(t)
        BY <3>6
      <4>2. /\ names_msg' \in Message /\ names_msg' # NULL /\ names_msg'.len = file_count + 1
            /\ names_msg'.type = 1 /\ names_msg'.cap = MaxFiles + 1
            /\ names_msg'.data = <<>> /\ Len(names_msg'.names) = file_count + 1
            /\ names_msg'.names[file_count + 1] = t
            /\ file_count + 1 \in 0 .. (MaxFiles + 1) /\ file_count + 1 > 0
            /\ MaxFiles > 0 => file_count + 1 < MaxFiles + 1
        BY <3>5, <4>1
      <4>3. curr_fp' \in Path /\ curr_fp' # NULL /\ curr_fp'[2] = t
        BY <4>1, Paths, NotPaths
      <4>4. QED
        BY <1>0, <3>1, <4>1, <4>2, <4>3 DEF NamesInv, NamesMatchFiles
    <3>7. CASE \E t \in Second :
                 /\ Room /\ names_msg' = Shorter(WithName(t)) /\ file_count' = file_count
                 /\ curr_fp' = NULL
      <4>1. PICK t \in Second : Room /\ names_msg' = Shorter(WithName(t))
        BY <3>7
      <4>2. /\ names_msg' \in Message /\ names_msg' # NULL /\ names_msg'.len = (file_count + 1) - 1
            /\ names_msg'.type = 1 /\ names_msg'.cap = MaxFiles + 1
            /\ names_msg'.data = <<>> /\ Len(names_msg'.names) = file_count + 1
        <5>1. /\ WithName(t) \in Message /\ WithName(t).len = file_count + 1 /\ WithName(t).len > 0
              /\ WithName(t).cap = MaxFiles + 1 /\ WithName(t).type = 1 /\ WithName(t).data = <<>>
              /\ Len(WithName(t).names) = file_count + 1
          BY <3>5, <4>1
        <5>2. QED
          BY <4>1, <5>1, ShorterMessage, Zenon
      <4>3. (file_count + 1) - 1 = file_count
        BY <1>0
      <4>4. QED
        BY <1>0, <3>1, <3>7, <4>1, <4>2, <4>3 DEF NamesInv, NamesMatchFiles, Room
    <3>8. QED
      BY <2>4, <3>2, <3>3, <3>4, <3>6, <3>7, WriteNames
  <2>5. QED
    BY <1>2, <2>1, <2>2, <2>3, <2>4 DEF ReceiverStep
<1>3. CASE Running /\ SenderStep
  <2>1. CASE dump_rename
    <3>1. UNCHANGED <<names_msg, file_count, curr_fsize, pend>>
      BY <2>1 DEF dump_rename
    <3>2. QED
      BY <2>1, <3>1, RenameKeepsOpen DEF NamesInv, NamesMatchFiles
  <2>2. CASE ~dump_rename
    BY <1>3, <2>2, SenderFrame, NamesSame DEF datafile
  <2>3. QED
    BY <2>1, <2>2
<1>4. CASE Running /\ (Signal \/ user_loggin \/ MainStep \/ StarterStep)
  <2>1. CASE MemoryGone
    BY <2>1, NoNames DEF MemoryGone
  <2>2. CASE create_receiver \/ create_sender \/ UNCHANGED <<proc, queue, disk, rvars, svars, outside>>
    BY <2>2, NamesSame DEF create_receiver, create_sender, rvars
  <2>3. QED
    BY <1>4, <2>1, <2>2, MainFrame
<1>5. QED
  BY <1>1, <1>2, <1>3, <1>4 DEF Next

--------------------------------------------------------------------------------
(* The data directory.                                                     *)

Directory == [Path -> Seq(Chunk) \cup {NULL}]

(* Writing out what stdio holds for a file that exists makes and removes   *)
(* none.                                                                   *)
LEMMA FlushedFiles ==
  ASSUME NEW fs \in Directory, NEW p \in Path \cup {NULL, GONE}, NEW held \in Seq(Chunk),
         p \in Path => fs[p] # NULL
  PROVE  /\ Flushed(fs, p, held) \in Directory
         /\ \A q \in Path : Flushed(fs, p, held)[q] = NULL <=> fs[q] = NULL
<1>1. NULL \notin Seq(Chunk)
  BY NullAssumption
<1>2. CASE p \in {NULL, GONE}
  BY <1>2 DEF Flushed
<1>3. CASE p \in Path
  <2>1. fs[p] \in Seq(Chunk)
    BY <1>3 DEF Directory
  <2>2. fs[p] \o held \in Seq(Chunk)
    BY <2>1
  <2>3. Flushed(fs, p, held) = [fs EXCEPT ![p] = fs[p] \o held]
    BY <1>3, NotPaths DEF Flushed
  <2>4. QED
    BY <1>1, <1>3, <2>2, <2>3 DEF Directory
<1>4. QED
  BY <1>2, <1>3

(* fopen makes the file if there is none and changes no other.             *)
LEMMA OpenedFiles ==
  ASSUME NEW fs \in Directory, NEW p \in Path
  PROVE  /\ Opened(fs, p) \in Directory /\ Opened(fs, p)[p] # NULL
         /\ \A q \in Path : q # p \/ fs[q] # NULL => Opened(fs, p)[q] = fs[q]
<1>1. NULL \notin Seq(Chunk) /\ <<>> \in Seq(Chunk)
  BY NullAssumption
<1>2. QED
  BY <1>1 DEF Opened, Directory

(* What stdio writes out of the chunks it holds is some of them.           *)
LEMMA WrittenPart ==
  ASSUME NEW held \in Seq(Chunk), NEW out \in Written(held)
  PROVE  out \in Seq(Chunk) /\ Contents(out) \subseteq Contents(held)
<1>1. PICK n \in 0 .. Len(held) : out = SubSeq(held, 1, n)
  BY DEF Written
<1>2. out \in Seq(Chunk) /\ Len(out) = n /\ \A i \in 1 .. n : out[i] = held[i]
  BY <1>1
<1>3. 1 .. n \subseteq 1 .. Len(held)
  BY <1>1
<1>4. QED
  BY <1>2, <1>3 DEF Contents

(* What a failed write leaves in a file taken off the list.                *)
Strands(q) == files'[q] # NULL /\ stranded' = stranded \cup Contents(files'[q])

(* What a write does to the directory: no file goes away, and the file it  *)
(* leaves open is there: the one that was open, or a new data file.        *)
LEMMA WriteDisk ==
  ASSUME IndInv, write_datamsg
  PROVE  /\ files' \in Directory /\ clock' \in 0 .. (Traffic + 1)
         /\ \A q \in Path : files[q] # NULL => files'[q] # NULL
         /\ curr_fp' # NULL =>
              \/ curr_fp' = curr_fp /\ \A q \in Path : files'[q] = NULL <=> files[q] = NULL
              \/ curr_fp'[1] = "data" /\ curr_fp' \in Path /\ files'[curr_fp'] # NULL
         /\ stranded' = stranded \/ \E q \in Path : Strands(q)
<1> USE DEF IndInv
<1>1. /\ files \in Directory /\ curr_fp \in Path \cup {NULL} /\ (curr_fp \in Path => files[curr_fp] # NULL)
      /\ pend \in Seq(Chunk) /\ clock \in 0 .. (Traffic + 1)
  BY NotPaths DEF NamesInv, DiskInv, Directory
<1>2. msg.data \in Seq(Chunk)
  BY MessageParts DEF write_datamsg, RGoto, RecvInv, MsgShape
<1>3. pend \o msg.data \in Seq(Chunk) /\ <<>> \o msg.data \in Seq(Chunk)
  BY <1>1, <1>2
<1>4. ASSUME NEW out \in Seq(Chunk)
      PROVE  /\ Flushed(files, curr_fp, out) \in Directory
             /\ \A q \in Path : Flushed(files, curr_fp, out)[q] = NULL <=> files[q] = NULL
  BY <1>1, FlushedFiles
<1>5. CASE write_cache_full
  <2>1. PICK out \in Written(pend) : files' = Flushed(files, curr_fp, out)
    BY <1>5 DEF write_cache_full
  <2>2. out \in Seq(Chunk)
    BY <1>1, WrittenPart
  <2>3. curr_fp' = NULL /\ clock' = clock
    BY <1>5 DEF write_cache_full, WriteFails
  <2>5. stranded' = stranded \/ (curr_fp \in Path /\ stranded' = stranded \cup Contents(files'[curr_fp]))
    BY <1>1, <1>5 DEF write_cache_full, WriteFails
  <2>4. QED
    BY <1>1, <1>4, <2>1, <2>2, <2>3, <2>5 DEF Strands
<1>6. CASE write_current
  <2>1. clock' = clock /\ curr_fp # NULL
    BY <1>6 DEF write_current
  <2>2. CASE /\ \E out \in Written(pend \o msg.data) : files' = Flushed(files, curr_fp, out)
             /\ WriteFails(curr_fp, names_msg, file_count)
    <3>1. PICK out \in Written(pend \o msg.data) : files' = Flushed(files, curr_fp, out)
      BY <2>2
    <3>2. out \in Seq(Chunk)
      BY <1>3, WrittenPart
    <3>3. /\ curr_fp' = NULL
          /\ stranded' = stranded \/ (curr_fp \in Path /\ stranded' = stranded \cup Contents(files'[curr_fp]))
      BY <1>1, <2>2 DEF WriteFails
    <3>4. QED
      BY <1>1, <1>4, <2>1, <3>1, <3>2, <3>3 DEF Strands
  <2>3. CASE WriteSucceeds(files, curr_fp, names_msg, file_count, pend, curr_fsize)
    <3>1. curr_fp' = curr_fp /\ stranded' = stranded /\ files' \in {files, Flushed(files, curr_fp, pend \o msg.data)}
      BY <2>3 DEF WriteSucceeds
    <3>2. files' \in Directory /\ \A q \in Path : files'[q] = NULL <=> files[q] = NULL
      BY <1>1, <1>3, <1>4, <3>1
    <3>3. QED
      BY <1>1, <2>1, <3>1, <3>2
  <2>4. QED
    BY <1>6, <2>2, <2>3 DEF write_current
<1>7. CASE write_new
  <2>1. PICK out \in Written(pend) :
          \/ /\ files' = Flushed(files, curr_fp, out)
             /\ WriteFails(NULL, names_msg, file_count) /\ UNCHANGED clock
          \/ \E t \in Now : Created(t, Flushed(files, curr_fp, out))
    BY <1>7 DEF write_new, Created
  <2> DEFINE closed == Flushed(files, curr_fp, out)
  <2>2. closed \in Directory /\ \A q \in Path : closed[q] = NULL <=> files[q] = NULL
    BY <1>1, <1>4, WrittenPart
  <2> HIDE DEF closed
  <2>3. CASE files' = closed /\ WriteFails(NULL, names_msg, file_count) /\ UNCHANGED clock
    BY <1>1, <2>2, <2>3 DEF WriteFails
  <2>4. ASSUME NEW t \in Now, Created(t, closed)
        PROVE  /\ files' \in Directory /\ clock' \in 0 .. (Traffic + 1)
               /\ \A q \in Path : files[q] # NULL => files'[q] # NULL
               /\ curr_fp' # NULL => /\ curr_fp'[1] = "data" /\ curr_fp' \in Path
                                     /\ files'[curr_fp'] # NULL
               /\ stranded' = stranded \/ \E q \in Path : Strands(q)
    <3> DEFINE op == Opened(closed, DataPath(t))
    <3>1. t \in Second /\ clock' \in 0 .. (Traffic + 1)
      BY <2>4, ConfAssumption DEF Now, Second, Created
    <3>2. /\ op \in Directory /\ op[DataPath(t)] # NULL /\ DataPath(t) \in Path
          /\ \A q \in Path : files[q] # NULL => op[q] # NULL
      <4>1. DataPath(t) \in Path
        BY <3>1, Paths
      <4>2. /\ op \in Directory /\ op[DataPath(t)] # NULL
            /\ \A q \in Path : closed[q] # NULL => op[q] = closed[q]
        BY <2>2, <4>1, OpenedFiles
      <4>3. QED
        BY <2>2, <4>1, <4>2
    <3>3. ASSUME NEW part \in Seq(Chunk)
          PROVE  /\ Flushed(op, DataPath(t), part) \in Directory
                 /\ \A q \in Path : Flushed(op, DataPath(t), part)[q] = NULL <=> op[q] = NULL
      BY <3>2, FlushedFiles
    <3> HIDE DEF op
    <3>4. CASE WriteSucceeds(op, DataPath(t), WithName(t), file_count + 1, <<>>, 0)
      <4>1. curr_fp' = DataPath(t) /\ stranded' = stranded /\ files' \in {op, Flushed(op, DataPath(t), <<>> \o msg.data)}
        BY <3>4 DEF WriteSucceeds
      <4>2. files' \in Directory /\ \A q \in Path : files'[q] = NULL <=> op[q] = NULL
        BY <1>3, <3>2, <3>3, <4>1
      <4>3. QED
        BY <3>1, <3>2, <4>1, <4>2, Paths
    <3>5. CASE /\ \E part \in Written(msg.data) : files' = Flushed(op, DataPath(t), part)
               /\ WriteFails(DataPath(t), WithName(t), file_count + 1)
      <4>1. PICK part \in Written(msg.data) : files' = Flushed(op, DataPath(t), part)
        BY <3>5
      <4>2. /\ part \in Seq(Chunk) /\ curr_fp' = NULL
            /\ stranded' = stranded \cup Contents(files'[DataPath(t)])
        BY <1>2, <3>2, <3>5, WrittenPart, NotPaths DEF WriteFails
      <4>3. QED
        BY <3>1, <3>2, <3>3, <4>1, <4>2 DEF Strands
    <3>6. QED
      BY <2>4, <3>4, <3>5 DEF op, Created
  <2>5. QED
    BY <2>1, <2>3, <2>4 DEF closed
<1>8. QED
  BY <1>5, <1>6, <1>7 DEF write_datamsg

(* The files two handles are open on.                                      *)
LEMMA OpenFiles ==
  ASSUME IndInv
  PROVE  /\ files \in Directory
         /\ curr_fp \in Path \cup {NULL, GONE} /\ (curr_fp \in Path => files[curr_fp] # NULL)
         /\ dumpfp \in Path \cup {NULL, GONE} /\ (dumpfp \in Path => files[dumpfp] # NULL)
         /\ pend \in Seq(Chunk) /\ dpend \in Seq(Chunk) /\ clock \in 0 .. (Traffic + 1)
  BY NotPaths, Paths DEF IndInv, NamesInv, DiskInv, Directory

(* The directory depends on the disk and on the two handles alone.         *)
LEMMA DiskSame ==
  ASSUME DiskInv, UNCHANGED <<disk, curr_fp, dumpfp, dpend>>
  PROVE  DiskInv'
  BY DEF DiskInv, disk

(* Open handles stay on files that exist.                                  *)
LEMMA DiskKeeps ==
  ASSUME IndInv, [Next]_vars
  PROVE  DiskInv'
<1> USE DEF IndInv
<1>0. ASSUME NEW out \in Written(pend)
      PROVE  /\ Flushed(files, curr_fp, out) \in Directory
             /\ \A q \in Path : Flushed(files, curr_fp, out)[q] = NULL <=> files[q] = NULL
  BY OpenFiles, FlushedFiles, WrittenPart
<1>1. CASE UNCHANGED vars
  BY <1>1, DiskSame DEF vars, rvars, datafile, svars, slocal
<1>2. CASE Running /\ ReceiverStep
  <2>1. CASE receiver_start \/ receiver_start_fails \/ select_ready \/ select_timeout
             \/ receiver_quitcheck \/ last_push
    BY <2>1, DiskSame DEF receiver_start, receiver_start_fails, select_ready, select_timeout,
                          receiver_quitcheck, last_push, svars, slocal, datafile
  <2>2. CASE push_names \/ netlink_sock_recv \/ flush
    BY <2>2, DiskSame DEF push_names, netlink_sock_recv, flush, svars, slocal, datafile
  <2>3. CASE detach_names
    <3>1. /\ files' \in Directory /\ \A q \in Path : files'[q] = NULL <=> files[q] = NULL
          /\ curr_fp' = NULL /\ UNCHANGED <<clock, dumpfp, dpend>>
      BY <1>0, <2>3 DEF detach_names, close_datafile, svars, slocal
    <3>2. dumpfp' \notin {NULL, GONE} => files'[dumpfp'] # NULL
      BY <3>1, Paths DEF DiskInv
    <3>3. QED
      BY <3>1, <3>2 DEF DiskInv, Directory
  <2>4. CASE write_datamsg
    <3>1. UNCHANGED <<dumpfp, dpend>>
      BY <2>4 DEF write_datamsg, svars, slocal
    <3>2. dumpfp' \notin {NULL, GONE} => files'[dumpfp'] # NULL
      BY <2>4, <3>1, WriteDisk, Paths DEF DiskInv
    <3>3. curr_fp' # NULL => /\ files'[curr_fp'] # NULL
                             /\ curr_fp'[1] = "token" => files'[DataPath(curr_fp'[2])] = NULL
      <4>1. CASE curr_fp' = curr_fp /\ \A q \in Path : files'[q] = NULL <=> files[q] = NULL
        <5>1. curr_fp # NULL => curr_fp[2] \in Second /\ DataPath(curr_fp[2]) \in Path /\ curr_fp \in Path
          BY Paths DEF NamesInv, Path
        <5>2. QED
          BY <4>1, <5>1 DEF DiskInv
      <4>2. QED
        BY <2>4, <4>1, WriteDisk
    <3>4. QED
      BY <2>4, <3>1, <3>2, <3>3, WriteDisk DEF DiskInv, Directory
  <2>5. QED
    BY <1>2, <2>1, <2>2, <2>3, <2>4 DEF ReceiverStep
<1>3. CASE Running /\ SenderStep
  <2>1. CASE sender_pop \/ sender_pop_timeout \/ sender_quitcheck \/ send_log_buff
             \/ send_log_file \/ send_files_end \/ sender_check
    BY <2>1, DiskSame DEF sender_pop, sender_pop_timeout, sender_quitcheck, send_log_buff,
                          send_log_file, send_files_end, sender_check, rvars, datafile, slocal
  <2>2. CASE dump_names_end \/ dump_pop \/ dump_pop_timeout
    BY <2>2, DiskSame DEF dump_names_end, dump_pop, dump_pop_timeout, rvars, datafile, slocal
  <2>3. CASE dump_rename
    <3> DEFINE t == Head(smsg.names)
    <3>1. smsg \in Message /\ smsg.names # <<>> /\ files[DataPath(t)] # NULL /\ UNCHANGED <<clock, dpend>>
      BY <2>3, MessageParts DEF dump_rename, HeadExists, SendInv
    <3>2. t \in Second
      BY <3>1, MessageParts
    <3>3. CASE UNCHANGED <<files, curr_fp, dumpfp>>
      BY <3>1, <3>3, DiskSame DEF disk
    <3>4. CASE /\ files' = [files EXCEPT ![TokenPath(t)] = files[DataPath(t)], ![DataPath(t)] = NULL]
               /\ curr_fp' = IF curr_fp = DataPath(t) THEN TokenPath(t)
                             ELSE IF curr_fp = TokenPath(t) THEN GONE ELSE curr_fp
               /\ dumpfp' = IF dumpfp = TokenPath(t) THEN GONE ELSE dumpfp
      <4> HIDE DEF t
      <4>1. /\ files' \in Directory /\ files'[TokenPath(t)] # NULL /\ files'[DataPath(t)] = NULL
            /\ \A q \in Path \ {TokenPath(t), DataPath(t)} : files'[q] = files[q]
        BY <3>1, <3>2, <3>4, OpenFiles, Paths DEF Directory
      <4>2. curr_fp' # NULL => /\ files'[curr_fp'] # NULL
                               /\ curr_fp'[1] = "token" => files'[DataPath(curr_fp'[2])] = NULL
        <5>1. CASE curr_fp = DataPath(t)
          BY <3>2, <3>4, <4>1, <5>1, Paths
        <5>2. CASE curr_fp # DataPath(t) /\ curr_fp # NULL
          <6>1. curr_fp # TokenPath(t)
            BY <3>1, <3>2, <5>2, Paths DEF DiskInv, t
          <6>2. curr_fp \in Path /\ curr_fp[2] \in Second /\ curr_fp' = curr_fp
                /\ files'[curr_fp] = files[curr_fp]
            BY <3>4, <4>1, <5>2, <6>1 DEF NamesInv, Path
          <6>3. curr_fp[1] = "token" => files'[DataPath(curr_fp[2])] = files[DataPath(curr_fp[2])]
            <7>1. CASE curr_fp[2] = t
              BY <3>1, <5>2, <7>1 DEF DiskInv, t
            <7>2. CASE curr_fp[2] # t
              <8>1. DataPath(curr_fp[2]) \in Path \ {TokenPath(t), DataPath(t)}
                BY <3>2, <6>2, <7>2, Paths
              <8>2. QED
                BY <4>1, <8>1
            <7>3. QED
              BY <7>1, <7>2
          <6>4. QED
            BY <5>2, <6>2, <6>3 DEF DiskInv
        <5>3. CASE curr_fp = NULL
          BY <3>2, <3>4, <5>3, Paths, NotPaths
        <5>4. QED
          BY <5>1, <5>2, <5>3
      <4>3. /\ dumpfp' \in {TokenPath(u) : u \in Second} \cup {NULL, GONE}
            /\ dumpfp' \notin {NULL, GONE} => files'[dumpfp'] # NULL
        <5>1. dumpfp' = GONE \/ (dumpfp' = dumpfp /\ dumpfp # TokenPath(t))
          BY <3>4
        <5>2. CASE dumpfp' = GONE
          BY <5>2
        <5>3. CASE dumpfp' = dumpfp /\ dumpfp # TokenPath(t) /\ dumpfp \notin {NULL, GONE}
          <6>1. PICK u \in Second : dumpfp = TokenPath(u)
            BY <5>3 DEF DiskInv
          <6>2. TokenPath(u) \in Path \ {TokenPath(t), DataPath(t)}
            BY <3>2, <5>3, <6>1, Paths
          <6>3. QED
            BY <4>1, <5>3, <6>1, <6>2 DEF DiskInv
        <5>4. QED
          BY <5>1, <5>2, <5>3
      <4>4. QED
        BY <3>1, <4>1, <4>2, <4>3 DEF DiskInv, Directory
    <3>5. QED
      BY <2>3, <3>3, <3>4 DEF dump_rename
  <2>4. CASE dump_open
    <3>1. UNCHANGED <<curr_fp, dpend>>
      BY <2>4 DEF dump_open, rvars, datafile
    <3>2. CASE UNCHANGED <<disk, dumpfp>>
      BY <3>1, <3>2, DiskSame
    <3>3. CASE \E t \in Now : clock' = t /\ files' = Opened(files, TokenPath(t)) /\ dumpfp' = TokenPath(t)
      <4>1. PICK t \in Now : clock' = t /\ files' = Opened(files, TokenPath(t)) /\ dumpfp' = TokenPath(t)
        BY <3>3
      <4>2. t \in Second /\ clock' \in 0 .. (Traffic + 1)
        BY <4>1, ConfAssumption DEF Now, Second
      <4>3. /\ files' \in Directory /\ files'[TokenPath(t)] # NULL
            /\ \A q \in Path : q # TokenPath(t) \/ files[q] # NULL => files'[q] = files[q]
        BY <4>1, <4>2, OpenedFiles, OpenFiles, Paths
      <4>4. curr_fp # NULL => /\ curr_fp \in Path /\ DataPath(curr_fp[2]) \in Path
                              /\ DataPath(curr_fp[2]) # TokenPath(t)
        BY <4>2, Paths DEF NamesInv, Path
      <4>5. curr_fp # NULL => /\ files'[curr_fp] # NULL
                              /\ curr_fp[1] = "token" => files'[DataPath(curr_fp[2])] = NULL
        BY <4>3, <4>4 DEF DiskInv
      <4>6. QED
        BY <3>1, <4>1, <4>2, <4>3, <4>5 DEF DiskInv, Directory
    <3>4. QED
      BY <2>4, <3>2, <3>3 DEF dump_open
  <2>5. CASE dump_write
    <3>1. UNCHANGED <<curr_fp, dumpfp, clock>> /\ smsg \in Message
      BY <2>5 DEF dump_write, SGoto, rvars, datafile, SendInv
    <3>2. dpend \o smsg.data \in Seq(Chunk) /\ <<>> \in Seq(Chunk)
      BY <3>1, MessageParts, OpenFiles
    <3>3. /\ dpend' \in {dpend, <<>>, dpend \o smsg.data}
          /\ files' \in {files, Flushed(files, dumpfp, dpend \o smsg.data)}
      BY <2>5 DEF dump_write
    <3>4. files' \in Directory /\ \A q \in Path : files'[q] = NULL <=> files[q] = NULL
      <4>1. /\ Flushed(files, dumpfp, dpend \o smsg.data) \in Directory
            /\ \A q \in Path : Flushed(files, dumpfp, dpend \o smsg.data)[q] = NULL <=> files[q] = NULL
        BY <3>2, OpenFiles, FlushedFiles
      <4>2. QED
        BY <3>3, <4>1, OpenFiles
    <3>5. dpend' \in Seq(Chunk)
      BY <3>2, <3>3, OpenFiles
    <3>6. dumpfp \notin {NULL, GONE} => files'[dumpfp] # NULL
      BY <3>4, OpenFiles
    <3>7. curr_fp # NULL => curr_fp \in Path /\ DataPath(curr_fp[2]) \in Path
      BY Paths DEF NamesInv, Path
    <3>8. QED
      BY <3>1, <3>4, <3>5, <3>6, <3>7 DEF DiskInv, Directory
  <2>6. QED
    BY <1>3, <2>1, <2>2, <2>3, <2>4, <2>5 DEF SenderStep
<1>4. CASE Running /\ (Signal \/ user_loggin \/ MainStep \/ StarterStep)
  <2>1. CASE /\ MemoryGone
             /\ \/ files' = files
                \/ \E out \in Written(pend), dout \in Written(dpend) :
                     files' = Flushed(Flushed(files, curr_fp, out), dumpfp, dout)
    <3>1. files' \in Directory
      <4>1. ASSUME NEW out \in Written(pend), NEW dout \in Written(dpend)
            PROVE  Flushed(Flushed(files, curr_fp, out), dumpfp, dout) \in Directory
        <5>1. dout \in Seq(Chunk)
          BY OpenFiles, WrittenPart
        <5>2. QED
          BY <1>0, <5>1, OpenFiles, FlushedFiles
      <4>2. QED
        BY <2>1, <4>1, OpenFiles
    <3>2. QED
      BY <2>1, <3>1 DEF MemoryGone, DiskInv, Directory
  <2>2. CASE create_receiver \/ create_sender \/ UNCHANGED <<proc, queue, disk, rvars, svars, outside>>
    BY <2>2, DiskSame DEF create_receiver, create_sender, rvars, svars, slocal, datafile
  <2>3. QED
    BY <1>4, <2>1, <2>2, MainFrame
<1>5. QED
  BY <1>1, <1>2, <1>3, <1>4 DEF Next

--------------------------------------------------------------------------------
(* The queue and the sender.                                               *)

(* The chunks of a sequence.                                               *)
LEMMA ContentsIn ==
  ASSUME NEW s \in Seq(Chunk)
  PROVE  Contents(s) \subseteq Chunk
  BY DEF Contents

(* A push adds one message, if there is a place.                           *)
LEMMA PushedQueue ==
  ASSUME SendInv, NEW m \in Message, m.type = 0 => m.names = <<>>, push_ok(m) \/ push_timeout
  PROVE  /\ queue' \in Seq(Message) /\ Len(queue') <= node_count
         /\ \A i \in 1 .. Len(queue') : queue'[i].type = 0 => queue'[i].names = <<>>
<1>1. node_count \in Nat /\ Len(queue) \in Nat
  BY ConfAssumption DEF SendInv
<1>2. CASE push_timeout
  BY <1>2 DEF SendInv, push_timeout
<1>3. CASE push_ok(m)
  <2>1. queue' = Append(queue, m) /\ queue \in Seq(Message) /\ Len(queue) < node_count
    BY <1>3 DEF SendInv, push_ok
  <2>2. /\ queue' \in Seq(Message) /\ Len(queue') = Len(queue) + 1 /\ queue'[Len(queue) + 1] = m
        /\ \A i \in 1 .. Len(queue) : queue'[i] = queue[i]
    BY <2>1
  <2>3. \A i \in 1 .. (Len(queue) + 1) : i \in 1 .. Len(queue) \/ i = Len(queue) + 1
    BY <1>1
  <2>4. QED
    BY <1>1, <2>1, <2>2, <2>3 DEF SendInv
<1>4. QED
  BY <1>2, <1>3

(* A pop takes the oldest message off.                                     *)
LEMMA PoppedQueue ==
  ASSUME SendInv, queue # <<>>
  PROVE  /\ Head(queue) \in Message /\ Tail(queue) \in Seq(Message) /\ Len(Tail(queue)) <= node_count
         /\ Head(queue).type = 0 => Head(queue).names = <<>>
         /\ \A i \in 1 .. Len(Tail(queue)) : Tail(queue)[i].type = 0 => Tail(queue)[i].names = <<>>
<1>1. node_count \in Nat /\ Len(queue) \in Nat /\ queue \in Seq(Message)
  BY ConfAssumption DEF SendInv
<1>2. /\ Head(queue) \in Message /\ Tail(queue) \in Seq(Message) /\ Len(Tail(queue)) = Len(queue) - 1
      /\ Head(queue) = queue[1] /\ 1 \in 1 .. Len(queue)
      /\ \A i \in 1 .. (Len(queue) - 1) : Tail(queue)[i] = queue[i + 1] /\ i + 1 \in 1 .. Len(queue)
  BY <1>1
<1>3. QED
  BY <1>1, <1>2 DEF SendInv

(* A message whose first name is taken off is still a message.             *)
LEMMA ForwardMessage ==
  ASSUME NEW m \in Message, m.names # <<>>
  PROVE  /\ messge_filename_forward(m) \in Message /\ messge_filename_forward(m) # NULL
         /\ messge_filename_forward(m).data = m.data
         /\ messge_filename_forward(m).type = m.type
<1>1. /\ m.len \in Nat /\ m.len <= MAX_BUFF_SIZE * Traffic /\ MAX_BUFF_SIZE * Traffic \in Nat
      /\ m.names \in Seq(Second)
  BY MessageParts, ConfAssumption
<1>2. CASE m.type # 1
  BY <1>2, MessageParts DEF messge_filename_forward
<1>3. CASE m.type = 1 /\ m.len > 1
  <2>1. messge_filename_forward(m) = [m EXCEPT !.len = m.len - 1, !.names = Tail(m.names)]
    BY <1>3 DEF messge_filename_forward
  <2>2. m.len - 1 \in 0 .. (MAX_BUFF_SIZE * Traffic)
    BY <1>1, <1>3
  <2>3. Tail(m.names) \in Seq(Second)
    BY <1>1
  <2>4. [m EXCEPT !.len = m.len - 1, !.names = Tail(m.names)] \in Message
    BY <2>2, <2>3 DEF Message
  <2>5. /\ [m EXCEPT !.len = m.len - 1, !.names = Tail(m.names)].data = m.data
        /\ [m EXCEPT !.len = m.len - 1, !.names = Tail(m.names)].type = m.type
    BY DEF Message
  <2>6. QED
    BY <2>1, <2>4, <2>5, MessageParts
<1>4. CASE m.type = 1 /\ ~(m.len > 1)
  <2>1. messge_filename_forward(m) = [m EXCEPT !.len = 0, !.names = <<>>]
    BY <1>4 DEF messge_filename_forward
  <2>2. 0 \in 0 .. (MAX_BUFF_SIZE * Traffic) /\ <<>> \in Seq(Second)
    BY <1>1
  <2>3. [m EXCEPT !.len = 0, !.names = <<>>] \in Message
    BY <2>2 DEF Message
  <2>4. /\ [m EXCEPT !.len = 0, !.names = <<>>].data = m.data
        /\ [m EXCEPT !.len = 0, !.names = <<>>].type = m.type
    BY DEF Message
  <2>5. QED
    BY <2>1, <2>3, <2>4, MessageParts
<1>5. QED
  BY <1>2, <1>3, <1>4

(* A request has one of the four results, and what the server takes, it    *)
(* takes whole and last.  On success it took the chunks.                   *)
LEMMA RequestResult ==
  ASSUME SendInv, NEW chunks \in Seq(Chunk), Request(chunks)
  PROVE  /\ ret' \in {"SND_SUCCESS", "SND_ERR_SYS", "SND_ERR_SRV", "SND_ERR_NET"}
         /\ arrived' \in {arrived, arrived \o chunks} /\ arrived' \in Seq(Chunk)
         /\ ret' = "SND_SUCCESS" => arrived' = arrived \o chunks
<1>1. PICK o \in Outcome : /\ ret' = Verdict(o)
                           /\ arrived' = IF o.took THEN arrived \o chunks ELSE arrived
  BY DEF Request
<1>2. arrived \in Seq(Chunk) /\ arrived \o chunks \in Seq(Chunk)
  BY DEF SendInv
<1>3. CASE o.curl = "OK"
  BY <1>1, <1>2, <1>3 DEF Verdict, Outcome
<1>4. CASE o.curl \in {"COULDNT_CONNECT", "SEND_ERROR"}
  BY <1>1, <1>2, <1>4 DEF Verdict, Outcome
<1>5. CASE o.curl \in {"OPERATION_TIMEDOUT", "RECV_ERROR"}
  BY <1>1, <1>2, <1>5 DEF Verdict, Outcome
<1>6. CASE o.curl = "other"
  BY <1>1, <1>2, <1>6 DEF Verdict, Outcome
<1>7. QED
  BY <1>3, <1>4, <1>5, <1>6 DEF Outcome

(* The queue and the sender keep their types.                              *)
LEMMA SendKeeps ==
  ASSUME IndInv, [Next]_vars
  PROVE  SendInv'
<1> USE DEF IndInv
<1>1. CASE UNCHANGED vars
  BY <1>1 DEF vars, svars, slocal, outside, history, SendInv
<1>2. CASE Running /\ ReceiverStep
  <2>1. UNCHANGED <<spc, smsg, ret, arrived>>
    BY <1>2, ReceiverFrame DEF svars, slocal
  <2>2. /\ queue' \in Seq(Message) /\ Len(queue') <= node_count
        /\ \A i \in 1 .. Len(queue') : queue'[i].type = 0 => queue'[i].names = <<>>
    <3>1. CASE last_push
      <4>1. msg \in Message /\ msg.names = <<>>
        BY <3>1 DEF last_push, RGoto, RecvInv, MsgShape
      <4>2. QED
        BY <3>1, <4>1, PushedQueue DEF last_push
    <3>2. CASE push_names
      <4>1. names_msg # NULL => names_msg \in Message /\ names_msg.type = 1
        BY DEF NamesInv
      <4>2. QED
        BY <3>2, <4>1, PushedQueue DEF push_names, SendInv
    <3>3. CASE flush
      <4>1. msg \in Message /\ msg.names = <<>>
        BY <3>3 DEF flush, RecvInv, MsgShape
      <4>2. QED
        BY <3>3, <4>1, PushedQueue DEF flush, SendInv
    <3>4. CASE receiver_start \/ receiver_start_fails \/ select_ready \/ select_timeout
               \/ receiver_quitcheck \/ detach_names \/ netlink_sock_recv \/ write_datamsg
      BY <3>4 DEF receiver_start, receiver_start_fails, select_ready, select_timeout,
                  receiver_quitcheck, detach_names, netlink_sock_recv, write_datamsg, SendInv
    <3>5. QED
      BY <1>2, <3>1, <3>2, <3>3, <3>4 DEF ReceiverStep
  <2>3. dropped' \subseteq Chunk /\ lost' \subseteq Chunk /\ stranded' \subseteq Chunk
    <3>1. CASE write_datamsg
      <4>1. msg \in Message /\ Contents(pend) \subseteq Chunk
        BY <3>1, ContentsIn, OpenFiles DEF write_datamsg, RGoto, RecvInv, MsgShape
      <4>2. Contents(msg.data) \subseteq Chunk
        BY <4>1, MessageParts, ContentsIn
      <4>3. dropped' \in {dropped, dropped \cup Contents(msg.data)}
        BY <3>1 DEF write_datamsg, write_cache_full, write_current, write_new, WriteFails, WriteSucceeds
      <4>4. lost' = lost \/ \E out : lost' = lost \cup (Contents(pend) \ Contents(out))
        BY <3>1 DEF write_datamsg, write_cache_full, write_current, write_new, Lose
      <4>6. stranded' \subseteq Chunk
        <5>1. ASSUME NEW q \in Path, files'[q] # NULL
              PROVE  Contents(files'[q]) \subseteq Chunk
          BY <3>1, <5>1, WriteDisk, ContentsIn DEF Directory
        <5>2. QED
          BY <3>1, <5>1, WriteDisk DEF SendInv, Strands
      <4>7. QED
        BY <4>1, <4>2, <4>3, <4>4, <4>6 DEF SendInv
    <3>2. CASE detach_names
      <4>1. Contents(pend) \subseteq Chunk
        BY ContentsIn, OpenFiles
      <4>2. QED
        BY <3>2, <4>1 DEF detach_names, close_datafile, Lose, SendInv
    <3>3. CASE ~write_datamsg /\ ~detach_names
      BY <1>2, <3>3 DEF ReceiverStep, receiver_start, receiver_start_fails, select_ready,
         select_timeout, receiver_quitcheck, last_push, push_names,
         netlink_sock_recv, flush, outside, history, SendInv
    <3>4. QED
      BY <3>1, <3>2, <3>3
  <2>4. QED
    BY <2>1, <2>2, <2>3 DEF SendInv
<1>3. CASE Running /\ SenderStep
  <2>1. CASE sender_pop_timeout \/ sender_quitcheck \/ send_files_end \/ sender_check
             \/ dump_pop_timeout \/ dump_names_end
    BY <2>1 DEF sender_pop_timeout, sender_quitcheck, send_files_end, sender_check,
                dump_pop_timeout, dump_names_end, SGoto, slocal, outside, history, SendInv
  <2>2. CASE sender_pop \/ dump_pop
    <3>1. /\ queue # <<>> /\ smsg' = Head(queue) /\ queue' = Tail(queue)
          /\ spc' \in {"send", "dump"} /\ UNCHANGED <<ret, arrived, dropped, lost, stranded>>
      BY <2>2 DEF sender_pop, dump_pop, SGoto, outside, history
    <3>2. QED
      BY <3>1, PoppedQueue, MessageParts DEF SendInv
  <2>3. CASE send_log_buff
    <3>1. /\ smsg \in Message /\ smsg # NULL /\ UNCHANGED queue /\ spc' = "check" /\ smsg' \in {smsg, NULL}
          /\ dropped' \in {dropped, dropped \cup Contents(smsg.data)} /\ Request(smsg.data)
          /\ UNCHANGED <<lost, stranded>>
      BY <2>3 DEF send_log_buff, SGoto, SendInv, history
    <3>2. smsg.data \in Seq(Chunk) /\ Contents(smsg.data) \subseteq Chunk
      BY <3>1, MessageParts, ContentsIn
    <3>3. /\ ret' \in {"SND_SUCCESS", "SND_ERR_SYS", "SND_ERR_SRV", "SND_ERR_NET"}
          /\ arrived' \in Seq(Chunk)
      BY <3>1, <3>2, RequestResult
    <3>4. QED
      BY <3>1, <3>2, <3>3 DEF SendInv
  <2>4. CASE send_log_file
    <3> DEFINE p == DataPath(Head(smsg.names))
    <3>1. /\ smsg \in Message /\ smsg # NULL /\ UNCHANGED <<queue, history>> /\ spc' \in {"check", "send"}
          /\ smsg' \in {smsg, messge_filename_forward(smsg)} /\ Request(files[p])
          /\ smsg.names # <<>> /\ files[p] # NULL
          /\ dropped' \in {dropped, dropped \cup Contents(files[p])}
      BY <2>4 DEF send_log_file, HeadExists, SendInv
    <3>2. p \in Path
      BY <3>1, MessageParts, Paths
    <3>3. files[p] \in Seq(Chunk)
      BY <3>1, <3>2 DEF DiskInv
    <3>4. /\ ret' \in {"SND_SUCCESS", "SND_ERR_SYS", "SND_ERR_SRV", "SND_ERR_NET"}
          /\ arrived' \in Seq(Chunk)
      BY <3>1, <3>3, RequestResult
    <3>5. smsg' \in Message /\ smsg' # NULL /\ smsg'.type # 0
      BY <2>4, <3>1, ForwardMessage DEF send_log_file
    <3>6. Contents(files[p]) \subseteq Chunk
      BY <3>3, ContentsIn
    <3>7. QED
      BY <3>1, <3>4, <3>5, <3>6 DEF SendInv, history
  <2>5. CASE dump_rename
    <3>1. /\ smsg \in Message /\ UNCHANGED <<queue, spc, ret, arrived, dropped, lost, stranded>>
          /\ smsg' = messge_filename_forward(smsg) /\ smsg.names # <<>> /\ spc = "dump"
          /\ smsg.type = 1
      BY <2>5 DEF dump_rename, HeadExists, SendInv, outside, history
    <3>2. QED
      BY <3>1, ForwardMessage DEF SendInv
  <2>6. CASE dump_open \/ dump_write
    <3>1. /\ smsg \in Message /\ UNCHANGED <<queue, ret, arrived, lost, stranded>>
          /\ dropped' \in {dropped, dropped \cup Contents(smsg.data)}
          /\ \/ smsg' = smsg /\ spc' \in {spc, "done"}
             \/ smsg' = NULL /\ spc' = "dumppop"
      BY <2>6 DEF dump_open, dump_write, SGoto, SendInv, history
    <3>2. Contents(smsg.data) \subseteq Chunk
      BY <3>1, MessageParts, ContentsIn
    <3>3. QED
      BY <3>1, <3>2 DEF SendInv
  <2>7. QED
    BY <1>3, <2>1, <2>2, <2>3, <2>4, <2>5, <2>6 DEF SenderStep
<1>4. CASE Running /\ (Signal \/ user_loggin \/ MainStep \/ StarterStep)
  <2>1. CASE MemoryGone
    BY <2>1, ConfAssumption DEF MemoryGone, SendInv, outside, history
  <2>2. CASE create_receiver \/ create_sender \/ UNCHANGED <<proc, queue, disk, rvars, svars, outside>>
    BY <2>2 DEF create_receiver, create_sender, svars, slocal, outside, history, SendInv, MainInv
  <2>3. QED
    BY <1>4, <2>1, <2>2, MainFrame
<1>5. QED
  BY <1>1, <1>2, <1>3, <1>4 DEF Next

--------------------------------------------------------------------------------
(* Where the chunks are.                                                   *)

(* The chunks of two sequences, one after the other.                       *)
LEMMA ContentsConcat ==
  ASSUME NEW s \in Seq(Chunk), NEW t \in Seq(Chunk)
  PROVE  Contents(s \o t) = Contents(s) \cup Contents(t)
<1>1. /\ Len(s) \in Nat /\ Len(t) \in Nat /\ Len(s \o t) = Len(s) + Len(t)
      /\ \A i \in 1 .. (Len(s) + Len(t)) : (s \o t)[i] = IF i <= Len(s) THEN s[i] ELSE t[i - Len(s)]
  OBVIOUS
<1>2. ASSUME NEW c \in Contents(s \o t)
      PROVE  c \in Contents(s) \cup Contents(t)
  <2>1. PICK i \in 1 .. (Len(s) + Len(t)) : c = (s \o t)[i]
    BY <1>1 DEF Contents
  <2>2. CASE i <= Len(s)
    BY <1>1, <2>1, <2>2 DEF Contents
  <2>3. CASE ~(i <= Len(s))
    <3>1. i - Len(s) \in 1 .. Len(t) /\ c = t[i - Len(s)]
      BY <1>1, <2>1, <2>3
    <3>2. QED
      BY <3>1 DEF Contents
  <2>4. QED
    BY <2>2, <2>3
<1>3. ASSUME NEW c \in Contents(s)
      PROVE  c \in Contents(s \o t)
  BY <1>1 DEF Contents
<1>4. ASSUME NEW c \in Contents(t)
      PROVE  c \in Contents(s \o t)
  <2>1. PICK i \in 1 .. Len(t) : c = t[i]
    BY DEF Contents
  <2>2. Len(s) + i \in 1 .. (Len(s) + Len(t)) /\ ~(Len(s) + i <= Len(s)) /\ (Len(s) + i) - Len(s) = i
    BY <1>1
  <2>3. c = (s \o t)[Len(s) + i]
    BY <1>1, <2>1, <2>2
  <2>4. QED
    BY <1>1, <2>2, <2>3 DEF Contents
<1>5. QED
  BY <1>2, <1>3, <1>4

(* No chunks, and one chunk more.                                          *)
LEMMA ContentsSmall ==
  /\ Contents(<<>>) = {}
  /\ \A s \in Seq(Chunk), c \in Chunk : Contents(Append(s, c)) = Contents(s) \cup {c}
<1>1. Contents(<<>>) = {}
  BY DEF Contents
<1>2. ASSUME NEW s \in Seq(Chunk), NEW c \in Chunk
      PROVE  Contents(Append(s, c)) = Contents(s) \cup {c}
  <2>1. /\ Len(s) \in Nat /\ Len(Append(s, c)) = Len(s) + 1 /\ Append(s, c)[Len(s) + 1] = c
        /\ \A i \in 1 .. Len(s) : Append(s, c)[i] = s[i]
    OBVIOUS
  <2>2. \A i \in 1 .. (Len(s) + 1) : i \in 1 .. Len(s) \/ i = Len(s) + 1
    BY <2>1
  <2>3. ASSUME NEW x \in Contents(Append(s, c))
        PROVE  x \in Contents(s) \cup {c}
    BY <2>1, <2>2 DEF Contents
  <2>4. ASSUME NEW x \in Contents(s) \cup {c}
        PROVE  x \in Contents(Append(s, c))
    BY <2>1 DEF Contents
  <2>5. QED
    BY <2>3, <2>4
<1>3. QED
  BY <1>1, <1>2

(* A queue with one message more at its end.                               *)
LEMMA QueuePushed ==
  ASSUME NEW q \in Seq(Message), NEW m \in Message
  PROVE  QueueChunks(Append(q, m)) = QueueChunks(q) \cup InMessage(m)
<1>1. /\ Len(q) \in Nat /\ Len(Append(q, m)) = Len(q) + 1 /\ Append(q, m)[Len(q) + 1] = m
      /\ \A i \in 1 .. Len(q) : Append(q, m)[i] = q[i]
  OBVIOUS
<1>2. \A i \in 1 .. (Len(q) + 1) : i \in 1 .. Len(q) \/ i = Len(q) + 1
  BY <1>1
<1>3. ASSUME NEW x \in QueueChunks(Append(q, m))
      PROVE  x \in QueueChunks(q) \cup InMessage(m)
  BY <1>1, <1>2 DEF QueueChunks
<1>4. ASSUME NEW x \in QueueChunks(q) \cup InMessage(m)
      PROVE  x \in QueueChunks(Append(q, m))
  BY <1>1 DEF QueueChunks
<1>5. QED
  BY <1>3, <1>4

(* A queue and its first message.                                          *)
LEMMA QueuePopped ==
  ASSUME NEW q \in Seq(Message), q # <<>>
  PROVE  QueueChunks(q) \subseteq InMessage(Head(q)) \cup QueueChunks(Tail(q))
<1>1. /\ Len(q) \in Nat /\ Len(Tail(q)) = Len(q) - 1 /\ Head(q) = q[1]
      /\ \A i \in 1 .. (Len(q) - 1) : Tail(q)[i] = q[i + 1]
  OBVIOUS
<1>2. ASSUME NEW x \in QueueChunks(q)
      PROVE  x \in InMessage(Head(q)) \cup QueueChunks(Tail(q))
  <2>1. PICK i \in 1 .. Len(q) : x \in InMessage(q[i])
    BY DEF QueueChunks
  <2>2. CASE i = 1
    BY <1>1, <2>1, <2>2
  <2>3. CASE i # 1
    <3>1. i - 1 \in 1 .. Len(Tail(q)) /\ Tail(q)[i - 1] = q[i]
      BY <1>1, <2>3
    <3>2. QED
      BY <2>1, <3>1 DEF QueueChunks
  <2>4. QED
    BY <2>2, <2>3
<1>3. QED
  BY <1>2

(* Writing out what stdio holds brings it to the disk and loses nothing.   *)
LEMMA DiskFlushed ==
  ASSUME NEW fs \in Directory, NEW p \in Path, NEW held \in Seq(Chunk), fs[p] # NULL
  PROVE  DiskChunks(fs) \cup Contents(held) \subseteq DiskChunks(Flushed(fs, p, held))
<1> DEFINE ff == Flushed(fs, p, held)
<1>1. fs[p] \in Seq(Chunk)
  BY DEF Directory
<1>2. ff = [fs EXCEPT ![p] = fs[p] \o held]
  BY NotPaths DEF Flushed
<1>3. ff[p] = fs[p] \o held /\ \A q \in Path \ {p} : ff[q] = fs[q]
  BY <1>2 DEF Directory
<1>4. \A q \in Path : ff[q] = NULL <=> fs[q] = NULL
  BY FlushedFiles
<1>5. Contents(ff[p]) = Contents(fs[p]) \cup Contents(held)
  BY <1>1, <1>3, ContentsConcat
<1> HIDE DEF ff
<1>6. ASSUME NEW q \in Path, fs[q] # NULL
      PROVE  Contents(fs[q]) \subseteq DiskChunks(ff)
  <2>1. Contents(fs[q]) \subseteq Contents(ff[q])
    BY <1>3, <1>5
  <2>2. QED
    BY <1>4, <1>6, <2>1 DEF DiskChunks
<1>7. Contents(held) \subseteq DiskChunks(ff)
  BY <1>4, <1>5 DEF DiskChunks
<1>8. DiskChunks(fs) \subseteq DiskChunks(ff)
  BY <1>6 DEF DiskChunks
<1>9. QED
  BY <1>7, <1>8 DEF ff

(* fopen loses nothing.                                                    *)
LEMMA DiskOpened ==
  ASSUME NEW fs \in Directory, NEW p \in Path
  PROVE  DiskChunks(fs) \subseteq DiskChunks(Opened(fs, p))
<1>1. \A q \in Path : fs[q] # NULL => Opened(fs, p)[q] = fs[q]
  BY OpenedFiles
<1>2. QED
  BY <1>1 DEF DiskChunks

(* The chunks in the data files of some seconds, and a directory in which  *)
(* every file still holds what it held.                                    *)
ChunksIn(fs, ts) == UNION {Contents(fs[DataPath(t)]) : t \in {u \in ts : fs[DataPath(u)] # NULL}}
Grows(fs, gs) == \A q \in Path : fs[q] # NULL => gs[q] # NULL /\ Contents(fs[q]) \subseteq Contents(gs[q])

(* More files that hold more hold more chunks.                             *)
LEMMA GrowsIn ==
  ASSUME NEW fs, NEW gs, NEW ts, NEW us, Grows(fs, gs), ts \subseteq us, ts \subseteq Second
  PROVE  ChunksIn(fs, ts) \subseteq ChunksIn(gs, us)
<1>1. ASSUME NEW c \in ChunksIn(fs, ts)
      PROVE  c \in ChunksIn(gs, us)
  <2>1. PICK t \in ts : fs[DataPath(t)] # NULL /\ c \in Contents(fs[DataPath(t)])
    BY DEF ChunksIn
  <2>2. DataPath(t) \in Path
    BY Paths
  <2>3. gs[DataPath(t)] # NULL /\ c \in Contents(gs[DataPath(t)])
    BY <2>1, <2>2 DEF Grows
  <2>4. QED
    BY <2>3 DEF ChunksIn
<1>2. QED
  BY <1>1

(* The chunks of one file, and of the files of two sets of seconds.        *)
LEMMA InUnion ==
  ASSUME NEW fs, NEW ts, NEW us
  PROVE  /\ ChunksIn(fs, ts \cup us) = ChunksIn(fs, ts) \cup ChunksIn(fs, us)
         /\ \A t \in ts : fs[DataPath(t)] # NULL => Contents(fs[DataPath(t)]) \subseteq ChunksIn(fs, ts)
         /\ \A t : ChunksIn(fs, {t}) \subseteq IF fs[DataPath(t)] = NULL THEN {} ELSE Contents(fs[DataPath(t)])
<1>1. ASSUME NEW c \in ChunksIn(fs, ts \cup us)
      PROVE  c \in ChunksIn(fs, ts) \cup ChunksIn(fs, us)
  BY DEF ChunksIn
<1>2. ASSUME NEW c \in ChunksIn(fs, ts) \cup ChunksIn(fs, us)
      PROVE  c \in ChunksIn(fs, ts \cup us)
  BY DEF ChunksIn
<1>3. \A t \in ts : fs[DataPath(t)] # NULL => Contents(fs[DataPath(t)]) \subseteq ChunksIn(fs, ts)
  BY DEF ChunksIn
<1>4. \A t : ChunksIn(fs, {t}) \subseteq IF fs[DataPath(t)] = NULL THEN {} ELSE Contents(fs[DataPath(t)])
  BY DEF ChunksIn
<1>5. QED
  BY <1>1, <1>2, <1>3, <1>4

(* stdio adds what it writes out to the file and takes nothing away.       *)
LEMMA GrowsFlushed ==
  ASSUME NEW fs \in Directory, NEW p \in Path \cup {NULL, GONE}, NEW held \in Seq(Chunk),
         p \in Path => fs[p] # NULL
  PROVE  /\ Grows(fs, Flushed(fs, p, held))
         /\ p \in Path => /\ Flushed(fs, p, held)[p] # NULL
                          /\ Contents(Flushed(fs, p, held)[p]) = Contents(fs[p]) \cup Contents(held)
<1>1. CASE p \in {NULL, GONE}
  BY <1>1, NotPaths DEF Flushed, Grows
<1>2. CASE p \in Path
  <2> DEFINE ff == Flushed(fs, p, held)
  <2>1. fs[p] \in Seq(Chunk)
    BY <1>2 DEF Directory
  <2>2. ff = [fs EXCEPT ![p] = fs[p] \o held]
    BY <1>2, NotPaths DEF Flushed
  <2>3. ff[p] = fs[p] \o held /\ \A q \in Path \ {p} : ff[q] = fs[q]
    BY <1>2, <2>2 DEF Directory
  <2>4. \A q \in Path : ff[q] = NULL <=> fs[q] = NULL
    BY FlushedFiles
  <2>5. Contents(ff[p]) = Contents(fs[p]) \cup Contents(held)
    BY <2>1, <2>3, ContentsConcat
  <2> HIDE DEF ff
  <2>6. Grows(fs, ff)
    BY <2>3, <2>4, <2>5 DEF Grows
  <2>7. QED
    BY <1>2, <2>4, <2>5, <2>6 DEF ff
<1>3. QED
  BY <1>1, <1>2

(* fopen too.                                                              *)
LEMMA GrowsOpened ==
  ASSUME NEW fs \in Directory, NEW p \in Path
  PROVE  Grows(fs, Opened(fs, p))
  BY OpenedFiles DEF Grows

(* One after the other.                                                    *)
LEMMA GrowsTwice ==
  ASSUME NEW fs, NEW gs, NEW hs, Grows(fs, gs), Grows(gs, hs)
  PROVE  Grows(fs, hs)
  BY DEF Grows

--------------------------------------------------------------------------------
(* The files a message lists.                                              *)

QueueNames(q) == UNION {Named(q[i]) : i \in 1 .. Len(q)}

(* They are named after seconds, and a message with the same list names    *)
(* the same files.                                                         *)
LEMMA NamedIn ==
  ASSUME NEW m \in Message
  PROVE  /\ Named(m) = {m.names[i] : i \in {k \in 1 .. Len(m.names) : k <= m.len}}
         /\ Named(m) \subseteq Second
         /\ m.names = <<>> => Named(m) = {}
<1>1. m.names \in Seq(Second) /\ m # NULL /\ DOMAIN m.names = 1 .. Len(m.names)
  BY MessageParts
<1>2. Named(m) = {m.names[i] : i \in {k \in 1 .. Len(m.names) : k <= m.len}}
  BY <1>1 DEF Named
<1>3. \A i \in 1 .. Len(m.names) : m.names[i] \in Second
  BY <1>1
<1>4. m.names = <<>> => 1 .. Len(m.names) = {}
  OBVIOUS
<1>5. QED
  BY <1>2, <1>3, <1>4

(* Those of a queue with one message more.                                 *)
LEMMA NamesPushed ==
  ASSUME NEW q \in Seq(Message), NEW m \in Message
  PROVE  QueueNames(Append(q, m)) = QueueNames(q) \cup Named(m)
<1>1. /\ Len(q) \in Nat /\ Len(Append(q, m)) = Len(q) + 1 /\ Append(q, m)[Len(q) + 1] = m
      /\ \A i \in 1 .. Len(q) : Append(q, m)[i] = q[i]
  OBVIOUS
<1>2. \A i \in 1 .. (Len(q) + 1) : i \in 1 .. Len(q) \/ i = Len(q) + 1
  BY <1>1
<1>3. ASSUME NEW x \in QueueNames(Append(q, m))
      PROVE  x \in QueueNames(q) \cup Named(m)
  BY <1>1, <1>2 DEF QueueNames
<1>4. ASSUME NEW x \in QueueNames(q) \cup Named(m)
      PROVE  x \in QueueNames(Append(q, m))
  BY <1>1 DEF QueueNames
<1>5. QED
  BY <1>3, <1>4

(* Those of a queue without its first message.                             *)
LEMMA NamesPopped ==
  ASSUME NEW q \in Seq(Message), q # <<>>
  PROVE  QueueNames(q) = Named(Head(q)) \cup QueueNames(Tail(q))
<1>1. /\ Len(q) \in Nat /\ Len(Tail(q)) = Len(q) - 1 /\ Head(q) = q[1] /\ 1 \in 1 .. Len(q)
      /\ \A i \in 1 .. (Len(q) - 1) : Tail(q)[i] = q[i + 1] /\ i + 1 \in 1 .. Len(q)
  OBVIOUS
<1>2. ASSUME NEW x \in QueueNames(q)
      PROVE  x \in Named(Head(q)) \cup QueueNames(Tail(q))
  <2>1. PICK i \in 1 .. Len(q) : x \in Named(q[i])
    BY DEF QueueNames
  <2>2. CASE i = 1
    BY <1>1, <2>1, <2>2
  <2>3. CASE i # 1
    <3>1. i - 1 \in 1 .. Len(Tail(q)) /\ Tail(q)[i - 1] = q[i]
      BY <1>1, <2>3
    <3>2. QED
      BY <2>1, <3>1 DEF QueueNames
  <2>4. QED
    BY <2>2, <2>3
<1>3. ASSUME NEW x \in Named(Head(q)) \cup QueueNames(Tail(q))
      PROVE  x \in QueueNames(q)
  BY <1>1 DEF QueueNames
<1>4. QED
  BY <1>2, <1>3

(* The files under way are named after seconds.                            *)
LEMMA UnderwayIn ==
  ASSUME SendInv
  PROVE  Underway = Named(smsg) \cup QueueNames(queue) /\ Underway \subseteq Second
<1>1. Underway = Named(smsg) \cup QueueNames(queue)
  BY DEF Underway, QueueNames
<1>2. Named(NULL) = {}
  BY DEF Named
<1>3. Named(smsg) \subseteq Second
  BY <1>2, NamedIn DEF SendInv
<1>4. \A i \in 1 .. Len(queue) : Named(queue[i]) \subseteq Second
  BY NamedIn DEF SendInv
<1>5. QED
  BY <1>1, <1>3, <1>4 DEF QueueNames

(* messge_filename_forward takes the first file off the list.              *)
LEMMA NamedForward ==
  ASSUME NEW m \in Message, m.type = 1, m.names # <<>>
  PROVE  Named(m) \subseteq {Head(m.names)} \cup Named(messge_filename_forward(m))
<1> DEFINE f == messge_filename_forward(m)
<1>1. /\ m.names \in Seq(Second) /\ m.len \in Nat /\ Len(m.names) \in Nat
      /\ DOMAIN m = {"type", "len", "cap", "data", "names"}
  BY MessageParts
<1>2. /\ Tail(m.names) \in Seq(Second) /\ Len(Tail(m.names)) = Len(m.names) - 1 /\ Head(m.names) = m.names[1]
      /\ \A i \in 1 .. (Len(m.names) - 1) : Tail(m.names)[i] = m.names[i + 1]
  BY <1>1
<1>3. f \in Message
  BY ForwardMessage
<1>4. CASE m.len > 1
  <2>1. f = [m EXCEPT !.len = m.len - 1, !.names = Tail(m.names)]
    BY <1>4 DEF messge_filename_forward
  <2>2. f.len = m.len - 1 /\ f.names = Tail(m.names)
    BY <1>1, <2>1 DEF Message
  <2> HIDE DEF f
  <2>3. ASSUME NEW i \in 1 .. Len(m.names), i <= m.len
        PROVE  m.names[i] \in {Head(m.names)} \cup Named(f)
    <3>1. CASE i = 1
      BY <1>2, <3>1
    <3>2. CASE i # 1
      <4>1. i - 1 \in 1 .. Len(f.names) /\ i - 1 <= f.len /\ f.names[i - 1] = m.names[i]
        BY <1>1, <1>2, <2>2, <2>3, <3>2
      <4>2. QED
        BY <1>3, <4>1, NamedIn
    <3>3. QED
      BY <3>1, <3>2
  <2>4. QED
    BY <2>3, NamedIn DEF f
<1>5. CASE ~(m.len > 1)
  <2>1. ASSUME NEW i \in 1 .. Len(m.names), i <= m.len
        PROVE  m.names[i] = Head(m.names)
    BY <1>1, <1>2, <1>5, <2>1
  <2>2. QED
    BY <2>1, NamedIn
<1>6. QED
  BY <1>4, <1>5

(* The list without its last file.                                         *)
LEMMA NamedShorter ==
  ASSUME NEW m \in Message, m.len > 0, m.len <= Len(m.names)
  PROVE  Named(m) = Named(Shorter(m)) \cup {m.names[m.len]}
<1>1. m.names \in Seq(Second) /\ m.len \in Nat /\ Len(m.names) \in Nat
  BY MessageParts
<1>2. Shorter(m) \in Message /\ Shorter(m).len = m.len - 1 /\ Shorter(m).names = m.names
  BY ShorterMessage
<1>3. Named(Shorter(m)) = {m.names[i] : i \in {k \in 1 .. Len(m.names) : k <= m.len - 1}}
  BY <1>2, NamedIn
<1>4. \A i \in 1 .. Len(m.names) : i <= m.len <=> (i <= m.len - 1 \/ i = m.len)
  BY <1>1
<1>5. m.len \in 1 .. Len(m.names)
  BY <1>1
<1>6. QED
  BY <1>3, <1>4, <1>5, NamedIn

(* The list with one file more.                                            *)
LEMMA NamedWith ==
  ASSUME NamesInv, NEW t \in Second, file_count + 1 <= Traffic
  PROVE  /\ Named(WithName(t)) = Named(names_msg) \cup {t}
         /\ Named(Shorter(WithName(t))) = Named(names_msg)
<1> DEFINE w == WithName(t)
<1>1. /\ w \in Message /\ w.len = file_count + 1 /\ Len(w.names) = file_count + 1
      /\ w.names[file_count + 1] = t
      /\ \A i \in 1 .. file_count : names_msg # NULL /\ w.names[i] = names_msg.names[i]
  BY OneMoreName
<1>2. file_count \in Nat
  BY MaxFilesType DEF NamesInv
<1> HIDE DEF w
<1>3. Shorter(w) \in Message /\ Shorter(w).len = file_count /\ Shorter(w).names = w.names
  <2>1. w.len > 0 /\ w.len - 1 = file_count
    BY <1>1, <1>2
  <2>2. QED
    BY <1>1, <2>1, ShorterMessage
<1>4. Named(Shorter(w)) = {w.names[i] : i \in 1 .. file_count}
  <2>1. {k \in 1 .. (file_count + 1) : k <= file_count} = 1 .. file_count
    BY <1>2
  <2>2. Named(Shorter(w)) = {w.names[i] : i \in {k \in 1 .. (file_count + 1) : k <= file_count}}
    BY <1>1, <1>3, NamedIn
  <2>3. QED
    BY <2>1, <2>2
<1>5. Named(names_msg) = {w.names[i] : i \in 1 .. file_count}
  <2>1. CASE names_msg = NULL
    <3>1. 1 .. file_count = {}
      BY <2>1 DEF NamesInv, NamesMatchFiles
    <3>2. QED
      BY <2>1, <3>1 DEF Named
  <2>2. CASE names_msg # NULL
    <3>1. /\ names_msg \in Message /\ names_msg.len = file_count
          /\ file_count <= Len(names_msg.names) /\ Len(names_msg.names) \in Nat
      BY <2>2, MessageParts DEF NamesInv, NamesMatchFiles
    <3>2. {k \in 1 .. Len(names_msg.names) : k <= file_count} = 1 .. file_count
      BY <1>2, <3>1
    <3>3. Named(names_msg) = {names_msg.names[i] : i \in 1 .. file_count}
      BY <3>1, <3>2, NamedIn
    <3>4. QED
      BY <1>1, <3>3
  <2>3. QED
    BY <2>1, <2>2
<1>6. Named(w) = Named(Shorter(w)) \cup {t}
  <2>1. w.len > 0 /\ w.len <= Len(w.names) /\ w.names[w.len] = t
    BY <1>1, <1>2
  <2>2. QED
    BY <1>1, <2>1, NamedShorter
<1>7. QED
  BY <1>4, <1>5, <1>6 DEF w

(* Closing the current file takes nothing off the disk.                    *)
LEMMA DiskClosed ==
  ASSUME IndInv, NEW out \in Seq(Chunk)
  PROVE  DiskChunks(files) \subseteq DiskChunks(Flushed(files, curr_fp, out))
<1>1. CASE curr_fp = NULL
  BY <1>1 DEF Flushed
<1>2. CASE curr_fp # NULL
  <2>1. curr_fp \in Path /\ files \in Directory /\ files[curr_fp] # NULL
    BY <1>2, OpenFiles DEF IndInv, NamesInv
  <2>2. QED
    BY <2>1, DiskFlushed
<1>3. QED
  BY <1>1, <1>2

(* Messages with the same data hold the same chunks.                       *)
LEMMA InMessageSame ==
  ASSUME NEW m \in Message, NEW n \in Message, m.data = n.data
  PROVE  InMessage(m) = InMessage(n) /\ InMessage(m) = Contents(m.data)
  BY MessageParts DEF InMessage

(* There is a chunk at hand for the file a write makes.                    *)
LEMMA RoomForName ==
  ASSUME IndInv, write_datamsg
  PROVE  file_count + 1 <= Traffic
<1>1. msg # NULL /\ Len(msg.data) > 0 /\ Len(msg.data) \in Nat
  BY HoldsChunk, MessageParts DEF write_datamsg, RGoto, IndInv, RecvInv, MsgShape
<1>2. file_count + Len(msg.data) <= got /\ got <= Traffic /\ got \in Nat /\ Traffic \in Nat
  BY <1>1, ConfAssumption DEF IndInv, RecvInv, RecvCount, AtHand
<1>3. file_count \in Nat
  BY MaxFilesType DEF IndInv, NamesInv
<1>4. QED
  BY <1>1, <1>2, <1>3, SumFile

--------------------------------------------------------------------------------
(* No chunk goes unaccounted for.                                          *)

(* Until the signal the open file is a data file.  When the names have     *)
(* been queued and the last file is not closed yet, the receiver's list    *)
(* adds nothing: the files on it are still to be sent, or were sent.       *)
LossInv ==
  Running /\ g_quit = 0 =>
    /\ curr_fp # NULL => curr_fp[1] = "data"
    /\ rpc = "detach" => ChunksIn(files, Named(names_msg))
                           \subseteq ChunksIn(files, Underway) \cup Contents(arrived) \cup dropped

Found == Kept \cup dropped \cup lost \cup stranded

(* The parts Found is made of.                                             *)
LEMMA FoundParts ==
  Found = InMessage(msg) \cup InMessage(smsg) \cup QueueChunks(queue) \cup Contents(pend)
            \cup ChunksIn(files, Named(names_msg)) \cup ChunksIn(files, Underway)
            \cup Contents(arrived) \cup dropped \cup lost \cup stranded
<1>1. InFiles(Listed) = ChunksIn(files, Listed)
  BY DEF InFiles, ChunksIn
<1>2. ChunksIn(files, Listed) = ChunksIn(files, Named(names_msg)) \cup ChunksIn(files, Underway)
  BY InUnion DEF Listed
<1>3. QED
  BY <1>1, <1>2 DEF Found, Kept

(* The same after a step.                                                  *)
LEMMA FoundPartsNext ==
  Found' = InMessage(msg') \cup InMessage(smsg') \cup QueueChunks(queue') \cup Contents(pend')
            \cup ChunksIn(files', Named(names_msg')) \cup ChunksIn(files', Underway')
            \cup Contents(arrived') \cup dropped' \cup lost' \cup stranded'
<1>1. InFiles(Listed)' = ChunksIn(files', Listed')
  BY DEF InFiles, ChunksIn
<1>2. ChunksIn(files', Listed') = ChunksIn(files', Named(names_msg')) \cup ChunksIn(files', Underway')
  <2>1. Listed' = Named(names_msg') \cup Underway'
    BY DEF Listed, Named
  <2>2. QED
    BY <2>1, InUnion
<1>3. QED
  BY <1>1, <1>2 DEF Found, Kept, InMessage, QueueChunks, Contents

(* The open file is the last one listed.                                   *)
LEMMA OpenIsListed ==
  ASSUME IndInv, LossInv, Running, g_quit = 0, curr_fp # NULL
  PROVE  /\ names_msg \in Message /\ names_msg.len > 0 /\ names_msg.len <= Len(names_msg.names)
         /\ curr_fp[2] \in Second /\ curr_fp = DataPath(curr_fp[2]) /\ curr_fp \in Path
         /\ files[curr_fp] # NULL
         /\ Named(names_msg) = Named(Shorter(names_msg)) \cup {curr_fp[2]}
<1>1. curr_fp \in Path /\ curr_fp[1] = "data" /\ files[curr_fp] # NULL
  BY DEF IndInv, NamesInv, DiskInv, LossInv
<1>2. curr_fp[2] \in Second /\ curr_fp = DataPath(curr_fp[2])
  BY <1>1 DEF Path, DataPath
<1>3. /\ names_msg \in Message /\ names_msg.len = file_count /\ file_count > 0
      /\ names_msg.len <= Len(names_msg.names) /\ curr_fp[2] = names_msg.names[names_msg.len]
  BY DEF IndInv, NamesInv, NamesMatchFiles
<1>4. QED
  BY <1>1, <1>2, <1>3, NamedShorter

(* A write moves the chunks of the message to the file's stdio buffer, to  *)
(* a listed file or, when it fails, to the ones given up; what the buffer  *)
(* of the file before it held is written or lost, and a file that is taken *)
(* off the list strands what it holds.                                     *)
LEMMA WriteFound ==
  ASSUME IndInv, LossInv, Running, g_quit = 0, write_datamsg
  PROVE  Found \subseteq Found'
<1> USE DEF IndInv
<1> DEFINE M == Contents(msg.data)
           P == Contents(pend)
           U == Underway
           N == Named(names_msg)
<1>1. UNCHANGED <<queue, smsg, arrived>> /\ Underway' = U
  BY DEF write_datamsg, svars, slocal, Underway, Named
<1>2. /\ files \in Directory /\ curr_fp \in Path \cup {NULL} /\ pend \in Seq(Chunk)
      /\ curr_fp \in Path => files[curr_fp] # NULL
      /\ curr_fp = NULL => pend = <<>>
  BY OpenFiles DEF NamesInv
<1>3. /\ msg \in Message /\ msg.data \in Seq(Chunk) /\ InMessage(msg) = M
  BY MessageParts, InMessageSame DEF write_datamsg, RGoto, RecvInv, MsgShape
<1>4. U \subseteq Second /\ N \subseteq Second
  <2>1. Named(NULL) = {}
    BY DEF Named
  <2>2. QED
    BY <2>1, UnderwayIn, NamedIn DEF NamesInv
<1>5. SUFFICES InMessage(msg) \cup P \cup ChunksIn(files, N) \cup ChunksIn(files, U)
                   \cup dropped \cup lost \cup stranded
                 \subseteq Contents(pend') \cup ChunksIn(files', Named(names_msg')) \cup ChunksIn(files', U)
                             \cup dropped' \cup lost' \cup stranded'
  BY <1>1, FoundParts, FoundPartsNext
<1>6. /\ pend \o msg.data \in Seq(Chunk) /\ Contents(pend \o msg.data) = P \cup M
      /\ <<>> \o msg.data \in Seq(Chunk) /\ Contents(<<>> \o msg.data) = M /\ <<>> \in Seq(Chunk)
      /\ curr_fp = NULL => P = {}
  <2>1. <<>> \in Seq(Chunk)
    OBVIOUS
  <2>2. Contents(<<>> \o msg.data) = Contents(<<>>) \cup M
    BY <1>3, <2>1, ContentsConcat
  <2>3. QED
    BY <1>2, <1>3, <2>1, <2>2, ContentsConcat, ContentsSmall
<1>7. /\ lost \subseteq lost' /\ stranded \subseteq stranded' /\ dropped \subseteq dropped'
  BY DEF write_datamsg, write_cache_full, write_current, write_new, WriteFails, WriteSucceeds, Lose
<1>8. ASSUME NEW out \in Seq(Chunk), files' = Flushed(files, curr_fp, out), Lose(out),
             WriteFails(curr_fp, names_msg, file_count)
      PROVE  InMessage(msg) \cup P \cup ChunksIn(files, N) \cup ChunksIn(files, U)
                   \cup dropped \cup lost \cup stranded
                 \subseteq Contents(pend') \cup ChunksIn(files', Named(names_msg')) \cup ChunksIn(files', U)
                             \cup dropped' \cup lost' \cup stranded'
  <2>1. P \ Contents(out) \subseteq lost' /\ dropped' = dropped \cup M
    BY <1>8 DEF Lose, WriteFails
  <2>2. Grows(files, files')
    BY <1>2, <1>8, GrowsFlushed
  <2>3. ChunksIn(files, U) \subseteq ChunksIn(files', U)
    BY <1>4, <2>2, GrowsIn
  <2>4. CASE curr_fp = NULL
    <3>1. names_msg' = names_msg
      BY <1>8, <2>4 DEF WriteFails
    <3>2. ChunksIn(files, N) \subseteq ChunksIn(files', N)
      BY <1>4, <2>2, GrowsIn
    <3>3. QED
      BY <1>3, <1>6, <1>7, <2>1, <2>3, <2>4, <3>1, <3>2
  <2>5. CASE curr_fp # NULL
    <3>1. /\ N = Named(Shorter(names_msg)) \cup {curr_fp[2]} /\ curr_fp[2] \in Second
          /\ curr_fp = DataPath(curr_fp[2]) /\ curr_fp \in Path /\ files[curr_fp] # NULL
      BY <2>5, OpenIsListed
    <3>2. /\ names_msg' = Shorter(names_msg) /\ stranded' = stranded \cup Contents(files'[curr_fp])
      BY <1>8, <2>5, <3>1, NotPaths DEF WriteFails, Shorter
    <3>3. Contents(files'[curr_fp]) = Contents(files[curr_fp]) \cup Contents(out)
      BY <1>2, <1>8, <3>1, GrowsFlushed
    <3>4. ChunksIn(files, {curr_fp[2]}) \subseteq Contents(files[curr_fp])
      BY <3>1, InUnion
    <3> DEFINE R == Named(Shorter(names_msg))
    <3>5. ChunksIn(files, N) = ChunksIn(files, R) \cup ChunksIn(files, {curr_fp[2]})
      BY <3>1, InUnion
    <3>6. ChunksIn(files, R) \subseteq ChunksIn(files', R)
      BY <1>4, <2>2, <3>1, GrowsIn
    <3> HIDE DEF R, M, P, U, N
    <3>7. QED
      BY <1>3, <1>7, <2>1, <2>3, <3>2, <3>3, <3>4, <3>5, <3>6 DEF R
  <2>6. QED
    BY <2>4, <2>5
<1>9. CASE write_cache_full
  <2>1. PICK out \in Written(pend) : files' = Flushed(files, curr_fp, out) /\ Lose(out)
    BY <1>9 DEF write_cache_full
  <2>2. out \in Seq(Chunk)
    BY <1>2, WrittenPart
  <2>3. QED
    BY <1>8, <1>9, <2>1, <2>2 DEF write_cache_full
<1>10. CASE write_current
  <2>1. curr_fp # NULL
    BY <1>10 DEF write_current
  <2>2. CASE /\ \E out \in Written(pend \o msg.data) : files' = Flushed(files, curr_fp, out) /\ Lose(out)
             /\ WriteFails(curr_fp, names_msg, file_count)
    <3>1. PICK out \in Written(pend \o msg.data) : files' = Flushed(files, curr_fp, out) /\ Lose(out)
      BY <2>2
    <3>2. out \in Seq(Chunk)
      BY <1>6, WrittenPart
    <3>3. QED
      BY <1>8, <2>2, <3>1, <3>2
  <2>3. CASE WriteSucceeds(files, curr_fp, names_msg, file_count, pend, curr_fsize)
    <3>1. names_msg' = names_msg
      BY <2>3 DEF WriteSucceeds
    <3>2. CASE files' = Flushed(files, curr_fp, pend \o msg.data)
      <4>1. /\ N = Named(Shorter(names_msg)) \cup {curr_fp[2]} /\ curr_fp[2] \in Second
            /\ curr_fp = DataPath(curr_fp[2]) /\ curr_fp \in Path /\ files[curr_fp] # NULL
        BY <2>1, OpenIsListed
      <4>2. /\ Grows(files, files') /\ files'[curr_fp] # NULL
            /\ Contents(files'[curr_fp]) = Contents(files[curr_fp]) \cup Contents(pend \o msg.data)
        BY <1>2, <1>6, <3>2, <4>1, GrowsFlushed
      <4>3. Contents(files'[curr_fp]) \subseteq ChunksIn(files', N)
        <5>1. curr_fp[2] \in N
          BY <4>1
        <5>2. QED
          BY <4>1, <4>2, <5>1, InUnion
      <4>4. ChunksIn(files, N) \subseteq ChunksIn(files', N) /\ ChunksIn(files, U) \subseteq ChunksIn(files', U)
        BY <1>4, <4>2, GrowsIn
      <4> HIDE DEF M, P, U
      <4>5. QED
        BY <1>3, <1>6, <1>7, <3>1, <4>2, <4>3, <4>4
    <3>3. CASE files' = files /\ pend' = pend \o msg.data
      BY <1>3, <1>6, <1>7, <3>1, <3>3
    <3>4. QED
      BY <2>3, <3>2, <3>3 DEF WriteSucceeds
  <2>4. QED
    BY <1>10, <2>2, <2>3 DEF write_current
<1>11. CASE write_new
  <2>1. PICK out \in Written(pend) :
          /\ Lose(out)
          /\ \/ /\ files' = Flushed(files, curr_fp, out)
                /\ WriteFails(NULL, names_msg, file_count) /\ UNCHANGED clock
             \/ \E t \in Now : Created(t, Flushed(files, curr_fp, out))
    BY <1>11 DEF write_new, Created
  <2>2. out \in Seq(Chunk) /\ P \ Contents(out) \subseteq lost'
    BY <1>2, <2>1, WrittenPart DEF Lose
  <2> DEFINE closed == Flushed(files, curr_fp, out)
  <2>3. closed \in Directory /\ Grows(files, closed)
    BY <1>2, <2>2, FlushedFiles, GrowsFlushed
  <2>4. P \subseteq ChunksIn(closed, N) \cup lost'
    <3>1. CASE curr_fp = NULL
      BY <1>6, <3>1
    <3>2. CASE curr_fp # NULL
      <4>1. /\ N = Named(Shorter(names_msg)) \cup {curr_fp[2]}
            /\ curr_fp = DataPath(curr_fp[2]) /\ curr_fp \in Path /\ files[curr_fp] # NULL
        BY <3>2, OpenIsListed
      <4>2. closed[curr_fp] # NULL /\ Contents(closed[curr_fp]) = Contents(files[curr_fp]) \cup Contents(out)
        BY <1>2, <2>2, <4>1, GrowsFlushed
      <4>3. Contents(closed[curr_fp]) \subseteq ChunksIn(closed, N)
        <5>1. curr_fp[2] \in N
          BY <4>1
        <5>2. QED
          BY <4>1, <4>2, <5>1, InUnion
      <4>4. QED
        BY <2>2, <4>2, <4>3
    <3>3. QED
      BY <3>1, <3>2
  <2> HIDE DEF closed
  <2>5. ASSUME Grows(closed, files'), N \subseteq Named(names_msg'),
               M \subseteq dropped' \cup Contents(pend') \cup ChunksIn(files', Named(names_msg'))
        PROVE  InMessage(msg) \cup P \cup ChunksIn(files, N) \cup ChunksIn(files, U)
                     \cup dropped \cup lost \cup stranded
                   \subseteq Contents(pend') \cup ChunksIn(files', Named(names_msg')) \cup ChunksIn(files', U)
                               \cup dropped' \cup lost' \cup stranded'
    <3>1. Grows(files, files')
      BY <2>3, <2>5, GrowsTwice
    <3>2. /\ ChunksIn(files, N) \subseteq ChunksIn(files', Named(names_msg'))
          /\ ChunksIn(closed, N) \subseteq ChunksIn(files', Named(names_msg'))
          /\ ChunksIn(files, U) \subseteq ChunksIn(files', U)
      BY <1>4, <2>5, <3>1, GrowsIn
    <3> HIDE DEF M, P, U, N
    <3>3. QED
      BY <1>3, <1>7, <2>4, <2>5, <3>2
  <2>6. CASE files' = closed /\ WriteFails(NULL, names_msg, file_count)
    <3>1. names_msg' = names_msg /\ M \subseteq dropped'
      BY <2>6 DEF WriteFails
    <3>2. Grows(closed, files')
      BY <2>6 DEF Grows
    <3>3. QED
      BY <2>5, <3>1, <3>2
  <2>7. ASSUME NEW t \in Now, Created(t, closed)
        PROVE  InMessage(msg) \cup P \cup ChunksIn(files, N) \cup ChunksIn(files, U)
                     \cup dropped \cup lost \cup stranded
                   \subseteq Contents(pend') \cup ChunksIn(files', Named(names_msg')) \cup ChunksIn(files', U)
                               \cup dropped' \cup lost' \cup stranded'
    <3> DEFINE op == Opened(closed, DataPath(t))
    <3>1. t \in Second /\ DataPath(t) \in Path
      BY Paths DEF Now
    <3>2. op \in Directory /\ op[DataPath(t)] # NULL /\ Grows(closed, op)
      BY <2>3, <3>1, OpenedFiles, GrowsOpened
    <3>3. Named(WithName(t)) = N \cup {t} /\ Named(Shorter(WithName(t))) = N
      BY <3>1, RoomForName, NamedWith
    <3> HIDE DEF op
    <3>4. CASE WriteSucceeds(op, DataPath(t), WithName(t), file_count + 1, <<>>, 0)
      <4>1. names_msg' = WithName(t)
        BY <3>4 DEF WriteSucceeds
      <4>2. CASE files' = Flushed(op, DataPath(t), <<>> \o msg.data)
        <5>1. /\ Grows(op, files') /\ files'[DataPath(t)] # NULL
              /\ M \subseteq Contents(files'[DataPath(t)])
          BY <1>6, <3>1, <3>2, <4>2, GrowsFlushed
        <5>2. Contents(files'[DataPath(t)]) \subseteq ChunksIn(files', Named(names_msg'))
          <6>1. t \in Named(names_msg')
            BY <3>3, <4>1
          <6>2. QED
            BY <5>1, <6>1, InUnion
        <5>3. Grows(closed, files')
          BY <3>2, <5>1, GrowsTwice
        <5>4. QED
          BY <2>5, <3>3, <4>1, <5>1, <5>2, <5>3
      <4>3. CASE files' = op /\ pend' = <<>> \o msg.data
        <5>1. M \subseteq Contents(pend')
          BY <1>6, <4>3
        <5>2. QED
          BY <2>5, <3>2, <3>3, <4>1, <4>3, <5>1
      <4>4. QED
        BY <3>4, <4>2, <4>3 DEF WriteSucceeds
    <3>5. CASE /\ \E part \in Written(msg.data) : files' = Flushed(op, DataPath(t), part)
               /\ WriteFails(DataPath(t), WithName(t), file_count + 1)
      <4>1. PICK part \in Written(msg.data) : files' = Flushed(op, DataPath(t), part)
        BY <3>5
      <4>2. part \in Seq(Chunk)
        BY <1>3, WrittenPart
      <4>3. Grows(op, files')
        BY <3>1, <3>2, <4>1, <4>2, GrowsFlushed
      <4>4. Grows(closed, files')
        BY <3>2, <4>3, GrowsTwice
      <4>5. names_msg' = Shorter(WithName(t)) /\ M \subseteq dropped'
        BY <3>1, <3>5, NotPaths DEF WriteFails, Shorter
      <4>6. QED
        BY <2>5, <3>3, <4>4, <4>5
    <3>6. QED
      BY <2>7, <3>4, <3>5 DEF op, Created
  <2>8. QED
    BY <2>1, <2>6, <2>7 DEF closed
<1>12. QED
  BY <1>9, <1>10, <1>11 DEF write_datamsg

(* The names have been queued and the last file is closed: what the files  *)
(* on the list hold is under way or was sent, and what is written into the *)
(* last one only now is sent if its name is still under way.               *)
LEMMA DetachFound ==
  ASSUME IndInv, LossInv, Running, g_quit = 0, detach_names
  PROVE  Found \subseteq Found' /\ LossInv'
<1> USE DEF IndInv
<1> DEFINE P == Contents(pend)
           U == Underway
           N == Named(names_msg)
<1>1. /\ UNCHANGED <<proc, g_quit, queue, smsg, arrived, dropped>> /\ Underway' = U
      /\ curr_fp' = NULL /\ rpc' = "recv" /\ rpc = "detach"
  BY DEF detach_names, close_datafile, svars, slocal, Underway, Named, RGoto
<1>2. /\ files \in Directory /\ curr_fp \in Path \cup {NULL} /\ pend \in Seq(Chunk)
      /\ curr_fp \in Path => files[curr_fp] # NULL
      /\ curr_fp = NULL => pend = <<>>
  BY OpenFiles DEF NamesInv
<1>3. InMessage(msg) = InMessage(msg')
  <2>1. msg \in Message /\ msg' = [msg EXCEPT !.type = 0]
    BY DEF detach_names, RGoto, RecvInv, MsgShape
  <2>2. QED
    BY <2>1, SetType, InMessageSame
<1>4. PICK out \in Written(pend) : files' = Flushed(files, curr_fp, out) /\ Lose(out)
  BY DEF detach_names, close_datafile
<1>5. /\ out \in Seq(Chunk) /\ P \ Contents(out) \subseteq lost' /\ lost \subseteq lost'
      /\ stranded \subseteq stranded' /\ Contents(out) \subseteq P
  BY <1>2, <1>4, WrittenPart DEF Lose, detach_names
<1>6. Grows(files, files')
  BY <1>2, <1>4, <1>5, GrowsFlushed
<1>7. ChunksIn(files, U) \subseteq ChunksIn(files', U)
  BY <1>6, UnderwayIn, GrowsIn
<1>8. ChunksIn(files, N) \subseteq ChunksIn(files, U) \cup Contents(arrived) \cup dropped
  BY <1>1 DEF LossInv
<1>9. P \subseteq lost' \cup stranded' \cup ChunksIn(files', U)
  <2>1. CASE curr_fp = NULL
    BY <1>2, <2>1, ContentsSmall
  <2>2. CASE curr_fp # NULL /\ curr_fp[2] \notin U
    BY <2>2 DEF detach_names
  <2>3. CASE curr_fp # NULL /\ curr_fp[2] \in U
    <3>1. curr_fp = DataPath(curr_fp[2]) /\ curr_fp \in Path /\ files[curr_fp] # NULL
      BY <2>3, OpenIsListed
    <3>2. files'[curr_fp] # NULL /\ Contents(files'[curr_fp]) = Contents(files[curr_fp]) \cup Contents(out)
      BY <1>2, <1>4, <1>5, <3>1, GrowsFlushed
    <3>3. Contents(files'[curr_fp]) \subseteq ChunksIn(files', U)
      BY <2>3, <3>1, <3>2, InUnion
    <3>4. QED
      BY <1>5, <3>2, <3>3
  <2>4. QED
    BY <2>1, <2>2, <2>3
<1>10. LossInv'
  BY <1>1 DEF LossInv
<1> HIDE DEF P, U, N
<1>11. QED
  BY <1>1, <1>3, <1>5, <1>7, <1>8, <1>9, <1>10, FoundParts, FoundPartsNext DEF P, U, N

(* No step of the receiver before the signal loses a chunk otherwise; a    *)
(* received datagram is in the message at hand.                            *)
LEMMA ReceiverFound ==
  ASSUME IndInv, LossInv, Running, ReceiverStep, g_quit = 0
  PROVE  /\ Found \subseteq Found'
         /\ got' = got \/ (got' = got + 1 /\ got + 1 \in Found')
<1> USE DEF IndInv
<1>0. /\ UNCHANGED <<smsg, arrived>> /\ queue \in Seq(Message)
      /\ msg # NULL => msg \in Message
      /\ queue' = queue => Underway' = Underway
  BY ReceiverFrame DEF svars, slocal, SendInv, RecvInv, MsgShape, Underway, Named
<1>1. CASE receiver_start \/ receiver_start_fails \/ select_ready \/ select_timeout \/ receiver_quitcheck
  <2>1. UNCHANGED <<msg, queue, pend, files, names_msg, dropped, lost, stranded, got>>
    BY <1>1 DEF receiver_start, receiver_start_fails, select_ready, select_timeout,
                receiver_quitcheck, rlocal, datafile, disk, outside, history
  <2>2. QED
    BY <1>0, <2>1, FoundParts, FoundPartsNext
<1>2. CASE last_push
  BY <1>2 DEF last_push, RGoto, MainInv
<1>3. CASE push_names
  <2>1. UNCHANGED <<pend, files, names_msg, dropped, lost, stranded, got>>
    BY <1>3 DEF push_names, datafile, disk, outside, history
  <2>2. InMessage(msg) \subseteq InMessage(msg')
    <3>1. CASE msg = NULL
      BY <3>1 DEF InMessage
    <3>2. CASE msg # NULL
      <4>1. msg \in Message /\ msg' \in {msg, [msg EXCEPT !.type = 1]}
        BY <1>0, <1>3, <3>2 DEF push_names
      <4>2. QED
        BY <4>1, SetType, InMessageSame
    <3>3. QED
      BY <3>1, <3>2
  <2>3. QueueChunks(queue) \subseteq QueueChunks(queue') /\ Underway \subseteq Underway'
    <3>1. CASE queue' = queue
      BY <1>0, <3>1
    <3>2. CASE queue' = Append(queue, names_msg) /\ names_msg # NULL
      <4>1. names_msg \in Message
        BY <3>2 DEF NamesInv
      <4>2. Underway' = Named(smsg) \cup QueueNames(queue')
        BY <1>0 DEF Underway, QueueNames, Named
      <4>3. QED
        BY <1>0, <3>2, <4>1, <4>2, QueuePushed, NamesPushed, UnderwayIn
    <3>3. QED
      BY <1>3, <3>1, <3>2 DEF push_names, push_ok, push_timeout
  <2>4. ChunksIn(files, Underway) \subseteq ChunksIn(files', Underway')
    BY <2>1, <2>3, UnderwayIn, GrowsIn DEF Grows
  <2>5. QED
    BY <1>0, <2>1, <2>2, <2>3, <2>4, FoundParts, FoundPartsNext
<1>4. CASE detach_names
  BY <1>4, DetachFound DEF detach_names
<1>5. CASE netlink_sock_recv
  <2>1. UNCHANGED <<queue, pend, files, names_msg, dropped, lost, stranded>>
    BY <1>5 DEF netlink_sock_recv, datafile, disk, outside, history
  <2>2. CASE UNCHANGED <<msg, got>>
    BY <1>0, <2>1, <2>2, FoundParts, FoundPartsNext
  <2>3. CASE /\ nfds = 1 /\ got' = got + 1
             /\ \E n \in 1 .. MAX_BUFF_SIZE : msg' = Received(msg, n, got + 1)
    <3>1. PICK n \in 1 .. MAX_BUFF_SIZE : msg' = Received(msg, n, got + 1)
      BY <2>3
    <3>2. /\ msg \in Message /\ msg # NULL /\ msg.len <= MAX_BUFF_SIZE * Len(msg.data)
          /\ Len(msg.data) \in Nat /\ msg.data \in Seq(Chunk)
      <4>1. /\ msg \in Message /\ msg # NULL /\ msg.len <= MAX_BUFF_SIZE * Len(msg.data)
        BY <1>5 DEF netlink_sock_recv, RGoto, RecvInv, MsgShape
      <4>2. QED
        BY <4>1, MessageParts
    <3>3. Announced = 1 /\ AtHand = Len(msg.data)
      BY <1>5, <2>3, <3>2 DEF netlink_sock_recv, RGoto, Announced, AtHand
    <3>4. /\ got \in Nat /\ traffic \in Nat /\ got + traffic + 1 <= Traffic
          /\ Traffic \in Nat /\ file_count \in Nat /\ file_count + Len(msg.data) <= got
      BY <3>3, ConfAssumption, MaxFilesType DEF RecvInv, RecvCount, NamesInv
    <3>5. got + 1 \in Chunk /\ Len(msg.data) < Traffic
      BY <3>2, <3>4 DEF Chunk
    <3>6. msg' \in Message /\ msg'.data = Append(msg.data, got + 1)
      BY <3>1, <3>2, <3>5, ReceivedInto
    <3>7. InMessage(msg') = InMessage(msg) \cup {got + 1}
      <4>1. InMessage(msg') = Contents(msg'.data) /\ InMessage(msg) = Contents(msg.data)
        BY <3>2, <3>6, InMessageSame
      <4>2. QED
        BY <3>2, <3>5, <3>6, <4>1, ContentsSmall
    <3>8. QED
      BY <1>0, <2>1, <2>3, <3>7, FoundParts, FoundPartsNext
  <2>4. QED
    BY <1>5, <2>2, <2>3 DEF netlink_sock_recv, Received
<1>6. CASE flush
  <2>1. UNCHANGED <<pend, files, names_msg, dropped, lost, stranded, got>> /\ msg \in Message
    BY <1>6 DEF flush, datafile, disk, outside, history, RecvInv, MsgShape
  <2>2. CASE queue' = queue /\ msg' \in {msg, [msg EXCEPT !.type = 1]}
    <3>1. InMessage(msg') = InMessage(msg)
      BY <2>1, <2>2, SetType, InMessageSame
    <3>2. QED
      BY <1>0, <2>1, <2>2, <3>1, FoundParts, FoundPartsNext
  <2>3. CASE queue' = Append(queue, msg)
    <3>1. QueueChunks(queue') = QueueChunks(queue) \cup InMessage(msg)
      BY <1>0, <2>1, <2>3, QueuePushed
    <3>2. Underway \subseteq Underway'
      <4>1. Underway' = Named(smsg) \cup QueueNames(queue')
        BY <1>0 DEF Underway, QueueNames, Named
      <4>2. QED
        BY <1>0, <2>1, <2>3, <4>1, NamesPushed, UnderwayIn
    <3>3. ChunksIn(files, Underway) \subseteq ChunksIn(files', Underway')
      BY <2>1, <3>2, UnderwayIn, GrowsIn DEF Grows
    <3>4. QED
      BY <1>0, <2>1, <3>1, <3>3, FoundParts, FoundPartsNext
  <2>4. QED
    BY <1>6, <2>2, <2>3 DEF flush, push_ok, push_timeout
<1>7. CASE write_datamsg
  BY <1>7, WriteFound DEF write_datamsg
<1>8. QED
  BY <1>1, <1>2, <1>3, <1>4, <1>5, <1>6, <1>7 DEF ReceiverStep

(* Nor does it make a handle of another kind, or queue names whose files   *)
(* it does not list.                                                       *)
LEMMA ReceiverLoss ==
  ASSUME IndInv, LossInv, Running, ReceiverStep, g_quit = 0
  PROVE  LossInv'
<1> USE DEF IndInv
<1>0. UNCHANGED <<smsg, arrived, g_quit>>
  BY ReceiverFrame DEF svars, slocal
<1>1. CASE detach_names
  BY <1>1, DetachFound
<1>2. CASE write_datamsg
  <2>1. rpc' = "select"
    BY <1>2 DEF write_datamsg, RGoto
  <2>2. curr_fp' # NULL => curr_fp'[1] = "data"
    BY <1>2, WriteDisk DEF LossInv
  <2>3. QED
    BY <2>1, <2>2 DEF LossInv
<1>3. CASE push_names
  <2>1. UNCHANGED <<curr_fp, files, names_msg>>
    BY <1>3 DEF push_names, datafile, disk
  <2>2. rpc' = "detach" => names_msg \in Message /\ queue' = Append(queue, names_msg)
    BY <1>3 DEF push_names, push_ok, NamesInv
  <2>3. rpc' = "detach" => Named(names_msg) \subseteq Underway' /\ Named(names_msg) \subseteq Second
    <3>1. Underway' = Named(smsg) \cup QueueNames(queue')
      BY <1>0 DEF Underway, QueueNames, Named
    <3>2. QED
      BY <2>2, <3>1, NamesPushed, NamedIn DEF SendInv
  <2>4. rpc' = "detach" => ChunksIn(files, Named(names_msg)) \subseteq ChunksIn(files, Underway')
    BY <2>3, GrowsIn DEF Grows
  <2>5. rpc' = "detach" => ChunksIn(files', Named(names_msg')) \subseteq ChunksIn(files', Underway')
    BY <2>1, <2>4
  <2>6. LossInv' = (Running' /\ g_quit' = 0 =>
          /\ curr_fp' # NULL => curr_fp'[1] = "data"
          /\ rpc' = "detach" => ChunksIn(files', Named(names_msg'))
               \subseteq ChunksIn(files', Underway') \cup Contents(arrived') \cup dropped')
    BY DEF LossInv, ChunksIn, Named, Contents
  <2>7. QED
    BY <2>1, <2>5, <2>6 DEF LossInv
<1>4. CASE receiver_start \/ receiver_start_fails \/ select_ready \/ select_timeout \/ receiver_quitcheck
  BY <1>4 DEF receiver_start, receiver_start_fails, select_ready, select_timeout,
              receiver_quitcheck, RGoto, datafile, LossInv
<1>5. CASE last_push \/ netlink_sock_recv \/ flush
  BY <1>5 DEF last_push, netlink_sock_recv, flush, RGoto, datafile, LossInv
<1>6. QED
  BY <1>1, <1>2, <1>3, <1>4, <1>5 DEF ReceiverStep

(* A step of the sender before the signal lets go of a message, or of the  *)
(* name of a file, only when the server took its chunks or an error was    *)
(* logged.                                                                 *)
LEMMA SenderMoves ==
  ASSUME IndInv, Running, SenderStep, g_quit = 0
  PROVE  /\ UNCHANGED <<files, curr_fp, lost, stranded>>
         /\ Contents(arrived) \subseteq Contents(arrived') /\ dropped \subseteq dropped'
         /\ InMessage(smsg) \cup QueueChunks(queue)
              \subseteq InMessage(smsg') \cup QueueChunks(queue') \cup Contents(arrived') \cup dropped'
         /\ ChunksIn(files, Underway)
              \subseteq ChunksIn(files, Underway') \cup Contents(arrived') \cup dropped'
<1> USE DEF IndInv
<1>0. /\ queue \in Seq(Message) /\ arrived \in Seq(Chunk)
      /\ spc \notin {"dump", "dumppop"} /\ Named(NULL) = {} /\ InMessage(NULL) = {}
      /\ Underway' = Named(smsg') \cup QueueNames(queue')
      /\ Underway = Named(smsg) \cup QueueNames(queue) /\ Underway \subseteq Second
  BY UnderwayIn DEF SendInv, MainInv, Named, InMessage, Underway, QueueNames
<1>1. CASE sender_pop
  <2>1. /\ queue # <<>> /\ smsg' = Head(queue) /\ queue' = Tail(queue) /\ smsg = NULL
        /\ UNCHANGED <<files, curr_fp, arrived, dropped, lost, stranded>>
    BY <1>1 DEF sender_pop, SGoto, SendInv, disk, outside, history, rvars, datafile
  <2>2. QueueChunks(queue) \subseteq InMessage(smsg') \cup QueueChunks(queue')
    BY <1>0, <2>1, QueuePopped
  <2>3. Underway' = Underway
    BY <1>0, <2>1, NamesPopped
  <2>4. QED
    BY <1>0, <2>1, <2>2, <2>3
<1>2. CASE sender_pop_timeout \/ sender_quitcheck \/ send_files_end \/ sender_check
  <2>1. UNCHANGED <<smsg, queue, files, curr_fp, arrived, dropped, lost, stranded>>
    BY <1>2 DEF sender_pop_timeout, sender_quitcheck, send_files_end, sender_check, slocal, disk,
                outside, history, rvars, datafile
  <2>2. QED
    BY <1>0, <2>1
<1>3. CASE send_log_buff
  <2>1. smsg \in Message /\ smsg.type = 0 /\ UNCHANGED <<queue, files, curr_fp, lost, stranded>>
        /\ smsg' \in {smsg, NULL}
    BY <1>3 DEF send_log_buff, SGoto, SendInv, disk, history, rvars, datafile
  <2>2. smsg.data \in Seq(Chunk) /\ InMessage(smsg) = Contents(smsg.data)
    BY <2>1, MessageParts, InMessageSame
  <2>3. /\ ret' \in {"SND_SUCCESS", "SND_ERR_SYS", "SND_ERR_SRV", "SND_ERR_NET"}
        /\ arrived' \in {arrived, arrived \o smsg.data}
        /\ ret' = "SND_SUCCESS" => arrived' = arrived \o smsg.data
    BY <1>3, <2>2, RequestResult DEF send_log_buff
  <2>4. Contents(arrived \o smsg.data) = Contents(arrived) \cup Contents(smsg.data)
    BY <1>0, <2>2, ContentsConcat
  <2>5. Contents(arrived) \subseteq Contents(arrived') /\ dropped \subseteq dropped'
    BY <1>3, <2>3, <2>4 DEF send_log_buff
  <2>6. InMessage(smsg) \subseteq InMessage(smsg') \cup Contents(arrived') \cup dropped'
    <3>1. CASE ret' = "SND_SUCCESS"
      BY <2>2, <2>3, <2>4, <3>1
    <3>2. CASE ret' \in {"SND_ERR_SYS", "SND_ERR_SRV"}
      BY <1>3, <2>2, <3>2 DEF send_log_buff
    <3>3. CASE ret' = "SND_ERR_NET"
      BY <1>3, <3>3 DEF send_log_buff
    <3>4. QED
      BY <2>3, <3>1, <3>2, <3>3
  <2>7. Named(smsg) = {} /\ Named(smsg') = {}
    BY <1>0, <2>1, MessageParts, NamedIn DEF SendInv
  <2>8. Underway' = Underway
    BY <1>0, <2>1, <2>7
  <2>9. QED
    BY <1>0, <2>1, <2>5, <2>6, <2>8
<1>4. CASE send_log_file
  <2> DEFINE h == Head(smsg.names)
             p == DataPath(h)
  <2>1. /\ smsg \in Message /\ smsg.type = 1 /\ UNCHANGED <<queue, files, curr_fp, lost, stranded>>
        /\ Request(files[p]) /\ smsg.names # <<>> /\ files[p] # NULL
        /\ smsg' = IF ret' = "SND_ERR_NET" THEN smsg ELSE messge_filename_forward(smsg)
        /\ dropped' = IF ret' \in {"SND_ERR_SYS", "SND_ERR_SRV"} THEN dropped \cup Contents(files[p])
                      ELSE dropped
    BY <1>4, MessageParts DEF send_log_file, HeadExists, SendInv, disk, history, rvars, datafile
  <2>2. files[p] \in Seq(Chunk)
    <3>1. p \in Path
      BY <2>1, MessageParts, Paths
    <3>2. QED
      BY <2>1, <3>1 DEF DiskInv
  <2>3. /\ ret' \in {"SND_SUCCESS", "SND_ERR_SYS", "SND_ERR_SRV", "SND_ERR_NET"}
        /\ arrived' \in {arrived, arrived \o files[p]}
        /\ ret' = "SND_SUCCESS" => arrived' = arrived \o files[p]
    BY <2>1, <2>2, RequestResult
  <2>4. Contents(arrived \o files[p]) = Contents(arrived) \cup Contents(files[p])
    BY <1>0, <2>2, ContentsConcat
  <2>5. Contents(arrived) \subseteq Contents(arrived') /\ dropped \subseteq dropped'
    BY <2>1, <2>3, <2>4
  <2>6. InMessage(smsg) = InMessage(smsg')
    BY <2>1, ForwardMessage, InMessageSame
  <2>7. CASE ret' = "SND_ERR_NET"
    BY <1>0, <2>1, <2>5, <2>6, <2>7
  <2>8. CASE ret' # "SND_ERR_NET"
    <3>1. Contents(files[p]) \subseteq Contents(arrived') \cup dropped'
      BY <2>1, <2>3, <2>4, <2>8
    <3>2. Named(smsg) \subseteq {h} \cup Named(smsg')
      BY <2>1, <2>8, NamedForward
    <3>3. Underway \subseteq {h} \cup Underway'
      BY <1>0, <2>1, <3>2
    <3>4. ChunksIn(files, Underway) \subseteq ChunksIn(files, {h} \cup Underway')
      BY <1>0, <3>3, GrowsIn DEF Grows
    <3>5. ChunksIn(files, {h} \cup Underway') = ChunksIn(files, {h}) \cup ChunksIn(files, Underway')
      BY InUnion
    <3>6. ChunksIn(files, {h}) \subseteq Contents(files[p])
      BY <2>1, InUnion
    <3>7. QED
      BY <2>1, <2>5, <2>6, <3>1, <3>4, <3>5, <3>6
  <2>9. QED
    BY <2>7, <2>8
<1>5. CASE dump_rename \/ dump_names_end \/ dump_open \/ dump_write \/ dump_pop \/ dump_pop_timeout
  BY <1>0, <1>5 DEF dump_rename, dump_names_end, dump_open, dump_write, dump_pop, dump_pop_timeout, SGoto
<1>6. QED
  BY <1>1, <1>2, <1>3, <1>4, <1>5 DEF SenderStep

(* So it loses none either.                                                *)
LEMMA SenderFound ==
  ASSUME IndInv, LossInv, Running, SenderStep, g_quit = 0
  PROVE  Found \subseteq Found' /\ got' = got /\ LossInv'
<1>1. UNCHANGED <<proc, g_quit, rpc, msg, got, pend, names_msg>>
  BY SenderFrame DEF rlocal
<1>2. Found \subseteq Found'
  BY <1>1, SenderMoves, FoundParts, FoundPartsNext
<1>3. LossInv' = (Running' /\ g_quit' = 0 =>
        /\ curr_fp' # NULL => curr_fp'[1] = "data"
        /\ rpc' = "detach" => ChunksIn(files', Named(names_msg'))
             \subseteq ChunksIn(files', Underway') \cup Contents(arrived') \cup dropped')
  BY DEF LossInv, ChunksIn, Named, Contents
<1>4. LossInv'
  BY <1>1, <1>3, SenderMoves DEF LossInv
<1>5. QED
  BY <1>1, <1>2, <1>4

(* Until the signal, every chunk received stays somewhere or is counted.   *)
LEMMA LossStep ==
  ASSUME IndInv, NoSilentLoss /\ LossInv, [Next]_vars
  PROVE  (NoSilentLoss /\ LossInv)'
<1> USE DEF IndInv
<1>1. Running /\ g_quit = 0 => 1 .. got \subseteq Found
  BY DEF NoSilentLoss, Found
<1>2. SUFFICES ASSUME Running', g_quit' = 0
               PROVE  1 .. got' \subseteq Found' /\ LossInv'
  BY DEF NoSilentLoss, Found, LossInv
<1>4. got \in Nat
  BY DEF RecvInv, RecvCount
<1>5. ASSUME Running, g_quit = 0, Found \subseteq Found',
             got' = got \/ (got' = got + 1 /\ got + 1 \in Found')
      PROVE  1 .. got' \subseteq Found'
  <2>1. \A c \in 1 .. (got + 1) : c \in 1 .. got \/ c = got + 1
    BY <1>4
  <2>2. QED
    BY <1>1, <1>5, <2>1
<1>6. ASSUME UNCHANGED <<rpc, msg, smsg, queue, pend, names_msg, curr_fp, files, arrived, dropped,
                         lost, stranded>>, LossInv
      PROVE  Found' = Found /\ (Running /\ g_quit = 0 => LossInv')
  <2>1. Underway' = Underway
    BY <1>6 DEF Underway, Named
  <2>2. QED
    BY <1>6, <2>1 DEF Found, Kept, InFiles, Listed, LossInv
<1>7. CASE UNCHANGED vars
  <2>1. /\ Found' = Found /\ (Running /\ g_quit = 0 => LossInv')
        /\ got' = got /\ Running /\ g_quit = 0
    BY <1>2, <1>6, <1>7 DEF vars, rvars, rlocal, datafile, svars, slocal, disk, outside, history, Running
  <2>2. QED
    BY <1>5, <2>1
<1>8. CASE Running /\ ReceiverStep
  <2>1. g_quit = 0
    BY <1>2, <1>8, ReceiverFrame
  <2>2. QED
    BY <1>5, <1>8, <2>1, ReceiverFound, ReceiverLoss
<1>9. CASE Running /\ SenderStep
  <2>1. g_quit = 0
    BY <1>2, <1>9, SenderFrame
  <2>2. QED
    BY <1>5, <1>9, <2>1, SenderFound
<1>10. CASE Running /\ (Signal \/ user_loggin \/ MainStep \/ StarterStep)
  <2>1. /\ UNCHANGED <<msg, smsg, queue, pend, names_msg, curr_fp, files, arrived, dropped,
                       lost, stranded, got>>
        /\ rpc' = rpc \/ rpc' = "start"
    <3>1. CASE create_receiver \/ create_sender \/ UNCHANGED <<proc, queue, disk, rvars, svars, outside>>
      BY <3>1 DEF create_receiver, create_sender, rvars, rlocal, datafile, svars, slocal, disk, outside,
                  history
    <3>2. QED
      BY <1>2, <1>10, <3>1, MainFrame DEF Running
  <2>2. g_quit = 0
    <3>1. g_quit' = g_quit \/ g_quit' = g_quit + 1
      BY <1>10 DEF Signal, signal_graceful, signal_term, user_loggin, MainStep, main_start,
         main_start_fails, join_receiver, join_sender, reload, end, StarterStep, create_receiver,
         create_sender, create_fails
    <3>2. QED
      BY <1>2, <3>1 DEF MainInv
  <2>3. Underway' = Underway
    BY <2>1 DEF Underway, Named
  <2>4. Found' = Found /\ LossInv'
    BY <1>10, <2>1, <2>2, <2>3 DEF Found, Kept, InFiles, Listed, LossInv
  <2>5. QED
    BY <1>5, <1>10, <2>1, <2>2, <2>4
<1>11. QED
  BY <1>7, <1>8, <1>9, <1>10 DEF Next

--------------------------------------------------------------------------------
(* The theorems.                                                           *)

(* The daemon starts inside the invariant.                                 *)
LEMMA InitInd ==
  Init => IndInv
<1>1. SUFFICES ASSUME Init PROVE IndInv
  OBVIOUS
<1>2. MaxFiles \in Nat /\ Traffic \in Nat /\ node_count \in Nat
  BY MaxFilesType, ConfAssumption
<1>3. MainInv
  BY <1>1 DEF Init, MainInit, ReceiverInit, SenderInit, MainInv
<1>4. RecvInv
  BY <1>1, <1>2, SumZero DEF Init, ReceiverInit, RecvInv, RecvCount, MsgShape, AtHand, Announced
<1>5. NamesInv
  BY <1>1, <1>2 DEF Init, ReceiverInit, NamesInv, NamesMatchFiles
<1>6. DiskInv
  BY <1>1, <1>2 DEF Init, ReceiverInit, SenderInit, DiskInv
<1>7. SendInv
  BY <1>1, <1>2 DEF Init, SenderInit, SendInv
<1>8. QED
  BY <1>3, <1>4, <1>5, <1>6, <1>7 DEF IndInv

(* Every step of the daemon keeps it.                                      *)
LEMMA AlwaysInd ==
  Spec => []IndInv
<1>1. IndInv /\ [Next]_vars => IndInv'
  BY MainKeeps, RecvKeeps, NamesKeeps, DiskKeeps, SendKeeps DEF IndInv
<1>2. QED
  BY <1>1, InitInd, PTL DEF Spec

(* The daemon's state has its types, whatever the configuration: the queue *)
(* never exceeds node_count, a message never counts more bytes than were   *)
(* received, the cache never lists more than one file too many.            *)
THEOREM TypeCorrect ==
  Spec => []TypeOK
<1>1. IndInv => TypeOK
  <2>1. SUFFICES ASSUME IndInv PROVE TypeOK
    OBVIOUS
  <2>2. dumpfp \in Path \cup {NULL, GONE}
    BY <2>1, OpenFiles
  <2>3. QED
    BY <2>1, <2>2 DEF IndInv, MainInv, RecvInv, RecvCount, MsgShape, NamesInv, DiskInv, SendInv, TypeOK
<1>2. QED
  BY <1>1, AlwaysInd, PTL

(* Whenever the receiver calls netlink_sock_recv, the message at hand has  *)
(* room for a whole datagram and the zero byte after it exactly if an      *)
(* empty message has, for every configuration: the flushes after a recv    *)
(* leave the room there was at first, and node_size, which nothing checks, *)
(* decides whether there was any.                                          *)
THEOREM RecvHasRoom ==
  Spec => []RecvRoom
<1>1. IndInv => RecvRoom
  <2>1. SUFFICES ASSUME IndInv, rpc = "recv"
                 PROVE  msg.len + MAX_BUFF_SIZE + 1 <= node_size <=> MAX_BUFF_SIZE + 1 <= node_size
    BY DEF RecvRoom
  <2>2. /\ msg.len \in Nat
        /\ MAX_BUFF_SIZE + 1 <= node_size => msg.len + MAX_BUFF_SIZE + 1 <= node_size
    BY <2>1, MessageParts DEF IndInv, RecvInv, MsgShape
  <2>3. QED
    BY <2>2, ConfAssumption
<1>2. QED
  BY <1>1, AlwaysInd, PTL

(* The count of files, the list of names and the open file agree after     *)
(* every step, failed writes and renames by the sender included.           *)
THEOREM NamesAgree ==
  Spec => []NamesMatchFiles
<1>1. IndInv => NamesMatchFiles
  BY DEF IndInv, NamesInv
<1>2. QED
  BY <1>1, AlwaysInd, PTL

(* Until it is told to end, the daemon accounts for every chunk, over a    *)
(* full queue, full or failing files, retries, server errors and any loss  *)
(* in fclose: each one received is in a message, queued, in a file to be   *)
(* sent or at the server, or was given up with a log entry, or went in one *)
(* of the three silent ways (lost, stranded).                              *)
THEOREM NothingLostSilently ==
  Spec => []NoSilentLoss
<1>1. Init => NoSilentLoss /\ LossInv
  <2>1. SUFFICES ASSUME Init PROVE 1 .. got = {} /\ curr_fp = NULL /\ rpc = "off"
    BY DEF NoSilentLoss, LossInv
  <2>2. QED
    BY <2>1 DEF Init, ReceiverInit
<1>2. IndInv /\ (NoSilentLoss /\ LossInv) /\ [Next]_vars => (NoSilentLoss /\ LossInv)'
  BY LossStep
<1>3. QED
  BY <1>1, <1>2, AlwaysInd, PTL DEF Spec
================================================================================
