-------------------------------- MODULE Receiver -------------------------------
(***************************************************************************)
(* receiver_worker of useapp/worker.c and the cache of data files it falls *)
(* back to when the queue is full.                                         *)
(*                                                                         *)
(* rpc names the point of the loop the thread has reached:                 *)
(*   start, select, quitcheck, lastpush, names, detach, recv, flush, write *)
(***************************************************************************)
EXTENDS LogdState

(* datafile_init: the configured count is cut to 4 when it exceeds 5.      *)
MaxFiles == IF max_fcnt > 5 THEN 4 ELSE max_fcnt

ReceiverInit ==
  /\ rpc = "off"
  /\ nfds = 0 /\ msg = NULL /\ traffic = Traffic /\ got = 0
  /\ names_msg = NULL /\ file_count = 0 /\ curr_fp = NULL /\ curr_fsize = 0 /\ pend = <<>>

RGoto(from, to) == rpc = from /\ rpc' = to

(* netlink_sock_open and datafile_init; a failure of either ends the       *)
(* process (receiver_start_fails).                                         *)
receiver_start ==
  /\ RGoto("start", "select")
  /\ UNCHANGED <<proc, g_quit, queue, disk, rlocal, datafile, svars, outside, mvars>>

receiver_start_fails ==
  /\ RGoto("start", "done")
  /\ proc' = "exit"
  /\ UNCHANGED <<g_quit, queue, disk, rlocal, datafile, svars, outside, mvars>>

(* select: a datagram is there, or the timeout has passed.  An error is    *)
(* logged and select called again, which changes nothing.                  *)
select_ready ==
  /\ RGoto("select", "names")
  /\ traffic > 0
  /\ traffic' = traffic - 1
  /\ nfds' = 1
  /\ UNCHANGED <<proc, g_quit, queue, disk, msg, got, datafile, svars, outside, mvars>>

select_timeout ==
  /\ RGoto("select", "quitcheck")
  /\ nfds' = 0
  /\ UNCHANGED <<proc, g_quit, queue, disk, msg, traffic, got, datafile, svars, outside, mvars>>

(* The flag is read only after a timeout.                                  *)
receiver_quitcheck ==
  /\ rpc = "quitcheck"
  /\ rpc' = IF ~check_workers_quit THEN "names"
            ELSE IF msg # NULL /\ msg.len > 0 THEN "lastpush"
            ELSE "done"
  /\ UNCHANGED <<proc, g_quit, queue, disk, rlocal, datafile, svars, outside, mvars>>

(* The last message is pushed as it is, whatever its type, and the result  *)
(* of the push is not looked at.                                           *)
last_push ==
  /\ RGoto("lastpush", "done")
  /\ push_ok(msg) \/ push_timeout
  /\ UNCHANGED <<proc, g_quit, disk, rlocal, datafile, svars, outside, mvars>>

(* A message is at hand, and the names of the files written so far, if     *)
(* any, are offered to the queue first.                                    *)
push_names ==
  /\ rpc = "names"
  /\ LET m == IF msg = NULL THEN message_new(node_size, 0) ELSE msg
     IN  \/ /\ names_msg = NULL
            /\ rpc' = "recv"
            /\ msg' = m
            /\ UNCHANGED queue
         \/ /\ names_msg # NULL
            /\ push_ok(names_msg)
            /\ rpc' = "detach"
            /\ msg' = m
         \/ /\ names_msg # NULL
            /\ push_timeout
            /\ rpc' = "recv"
            /\ msg' = [m EXCEPT !.type = 1]
  /\ UNCHANGED <<proc, g_quit, disk, nfds, traffic, got, datafile, svars, outside, mvars>>

(* What fclose could not write of pend is lost: nobody looks at its result. *)
Lose(out) == lost' = lost \cup (Contents(pend) \ Contents(out))

(* fclose writes out what stdio still holds.                               *)
close_datafile ==
  /\ \E out \in Written(pend) : files' = Flushed(files, curr_fp, out) /\ Lose(out)
  /\ curr_fp' = NULL
  /\ curr_fsize' = 0
  /\ pend' = <<>>

(* datafile_detach_namemsg: the file is closed after its name was queued;  *)
(* the sender may have sent it by then.                                    *)
detach_names ==
  /\ RGoto("detach", "recv")
  /\ close_datafile
  /\ stranded' = IF curr_fp = NULL \/ curr_fp[2] \in Underway THEN stranded
                  ELSE stranded \cup Contents(pend)
  /\ file_count' = 0
  /\ names_msg' = NULL
  /\ msg' = [msg EXCEPT !.type = 0]
  /\ UNCHANGED <<proc, g_quit, queue, clock, nfds, traffic, got, svars, arrived, dropped, mvars>>

(* netlink_sock_recv, when select saw a datagram: up to MAX_BUFF_SIZE      *)
(* bytes are put after the ones the message holds, or the call fails.      *)
netlink_sock_recv ==
  /\ RGoto("recv", "flush")
  /\ \/ /\ nfds = 0
        /\ UNCHANGED <<msg, got>>
     \/ /\ nfds = 1
        /\ \E n \in 1 .. MAX_BUFF_SIZE :
             msg' = [msg EXCEPT !.len = @ + n, !.data = Append(@, got + 1)]
        /\ got' = got + 1
     \/ /\ nfds = 1
        /\ UNCHANGED <<msg, got>>
  /\ UNCHANGED <<proc, g_quit, queue, disk, nfds, traffic, datafile, svars, outside, mvars>>

(* Mutant: no byte is kept for the terminating zero.                       *)
NeedsFlush_late == msg.len > 0 /\ (nfds = 0 \/ msg.cap - msg.len < MAX_BUFF_SIZE)

(* When a message is handed on.                                            *)
NeedsFlush == msg.len > 0 /\ (nfds = 0 \/ msg.cap - msg.len < MAX_BUFF_SIZE + 1)

(* Mutant: MESSAGE_DETACH whether or not the push succeeded.               *)
flush_detaches ==
  /\ rpc = "flush"
  /\ IF NeedsFlush THEN push_ok(msg) \/ push_timeout ELSE UNCHANGED queue
  /\ rpc' = "select"
  /\ msg' = IF NeedsFlush THEN NULL ELSE msg
  /\ UNCHANGED <<proc, g_quit, disk, nfds, traffic, got, datafile, svars, outside, mvars>>

flush ==
  /\ rpc = "flush"
  /\ \/ /\ ~NeedsFlush
        /\ rpc' = "select"
        /\ UNCHANGED <<queue, msg>>
     \/ /\ NeedsFlush /\ msg.type = 0
        /\ push_ok(msg)
        /\ rpc' = "select"
        /\ msg' = NULL
     \/ /\ NeedsFlush /\ msg.type = 0
        /\ push_timeout
        /\ rpc' = "write"
        /\ msg' = [msg EXCEPT !.type = 1]
     \/ /\ NeedsFlush /\ msg.type = 1
        /\ rpc' = "write"
        /\ UNCHANGED <<queue, msg>>
  /\ UNCHANGED <<proc, g_quit, disk, nfds, traffic, got, datafile, svars, outside, mvars>>
--------------------------------------------------------------------------------
(* datafile_write_datamsg.                                                 *)
Overflows == curr_fsize + msg.len > max_fsize
CacheFull == file_count >= MaxFiles /\ Overflows

(* Mutant: datafile_reset_currfile leaves the length of names_msg alone.   *)
WriteFails_keeps_name(fp, names, count) ==
  /\ msg' = NULL
  /\ dropped' = dropped \cup Contents(msg.data)
  /\ names_msg' = names
  /\ file_count' = IF fp # NULL /\ count > 0 THEN count - 1 ELSE count
  /\ curr_fp' = NULL
  /\ curr_fsize' = 0
  /\ pend' = <<>>
  /\ stranded' = IF fp \in {NULL, GONE} THEN stranded ELSE stranded \cup Contents(files'[fp])

(* What follows a failed write: the message is dropped with a log entry    *)
(* and datafile_reset_currfile takes the current file off the list, with   *)
(* what it holds.                                                          *)
WriteFails(fp, names, count) ==
  /\ msg' = NULL
  /\ dropped' = dropped \cup Contents(msg.data)
  /\ names_msg' = IF fp = NULL THEN names ELSE [names EXCEPT !.len = @ - 1]
  /\ file_count' = IF fp # NULL /\ count > 0 THEN count - 1 ELSE count
  /\ curr_fp' = NULL
  /\ curr_fsize' = 0
  /\ pend' = <<>>
  /\ stranded' = IF fp \in {NULL, GONE} THEN stranded ELSE stranded \cup Contents(files'[fp])

(* What follows a write: stdio has written the file out, or still holds    *)
(* the data; MESSAGE_BZERO clears the message.                             *)
WriteSucceeds(fs, fp, names, count, held, size) ==
  /\ \/ /\ files' = Flushed(fs, fp, held \o msg.data)
        /\ pend' = <<>>
     \/ /\ files' = fs
        /\ pend' = held \o msg.data
  /\ msg' = MESSAGE_BZERO
  /\ names_msg' = names
  /\ file_count' = count
  /\ curr_fp' = fp
  /\ curr_fsize' = size + msg.len
  /\ UNCHANGED <<dropped, stranded>>

(* names_msg with one more name after the ones it counts.                  *)
WithName(t) ==
  LET m == IF names_msg = NULL THEN message_new(MaxFiles + 1, 1) ELSE names_msg
  IN  [m EXCEPT !.names = Append(SubSeq(@, 1, m.len), t), !.len = @ + 1]

write_cache_full ==
  /\ CacheFull
  /\ \E out \in Written(pend) : files' = Flushed(files, curr_fp, out) /\ Lose(out)
  /\ WriteFails(curr_fp, names_msg, file_count)
  /\ UNCHANGED clock

(* The current file has room.  A failed fwrite, and the fclose after it,   *)
(* may have written a part.                                                *)
write_current ==
  /\ ~CacheFull /\ curr_fp # NULL /\ ~Overflows
  /\ \/ /\ WriteSucceeds(files, curr_fp, names_msg, file_count, pend, curr_fsize)
        /\ UNCHANGED lost
     \/ /\ \E out \in Written(pend \o msg.data) :
             files' = Flushed(files, curr_fp, out) /\ Lose(out)
        /\ WriteFails(curr_fp, names_msg, file_count)
  /\ UNCHANGED clock

(* There is no current file, or it is full and closed: a new one is made.  *)
write_new ==
  /\ ~CacheFull /\ (curr_fp = NULL \/ Overflows)
  /\ \E out \in Written(pend) :
       LET closed == Flushed(files, curr_fp, out)
           opened(t) == Opened(closed, DataPath(t))
       IN
       /\ Lose(out)
       /\ \/ /\ files' = closed           \* create_datafile fails
             /\ WriteFails(NULL, names_msg, file_count)
             /\ UNCHANGED clock
          \/ \E t \in Now :
               /\ clock' = t
               /\ \/ WriteSucceeds(opened(t), DataPath(t), WithName(t), file_count + 1, <<>>, 0)
                  \/ /\ \E part \in Written(msg.data) : files' = Flushed(opened(t), DataPath(t), part)
                     /\ WriteFails(DataPath(t), WithName(t), file_count + 1)

write_datamsg ==
  /\ RGoto("write", "select")
  /\ write_cache_full \/ write_current \/ write_new
  /\ UNCHANGED <<proc, g_quit, queue, nfds, traffic, got, svars, arrived, mvars>>

ReceiverStep ==
  \/ receiver_start
  \/ receiver_start_fails
  \/ select_ready
  \/ select_timeout
  \/ receiver_quitcheck
  \/ last_push
  \/ push_names
  \/ detach_names
  \/ netlink_sock_recv
  \/ flush
  \/ write_datamsg
================================================================================
