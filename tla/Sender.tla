--------------------------------- MODULE Sender --------------------------------
(***************************************************************************)
(* sender_worker and message_dump_to_file of useapp/worker.c, with         *)
(* send_log_buff and send_log_file of useapp/sender.c.                     *)
(*                                                                         *)
(* spc: pop, quitcheck, send, check, dump, dumppop, done                   *)
(***************************************************************************)
EXTENDS LogdState

SenderInit ==
  /\ spc = "off"
  /\ smsg = NULL /\ ret = "SND_SUCCESS" /\ dumpfp = NULL /\ dpend = <<>>

SGoto(from, to) == spc = from /\ spc' = to

(* How a request can end, seen from outside: curl's result, the http       *)
(* status, the code in the body as far as resp_buffer holds it, and        *)
(* whether the server took the data.  A request that never connects, or    *)
(* fails while it is sent, delivers nothing; a server that answers 200     *)
(* with code 200 took the data; in every other case it may have.           *)
Outcome ==
  {o \in [curl : {"OK", "COULDNT_CONNECT", "SEND_ERROR", "OPERATION_TIMEDOUT", "RECV_ERROR", "other"},
          http : {200, 500}, code : {200, 2006}, took : BOOLEAN] :
     /\ o.curl \in {"COULDNT_CONNECT", "SEND_ERROR"} => ~o.took
     /\ o.curl = "OK" /\ o.http = 200 /\ o.code = 200 => o.took}

(* The switch over curl_easy_perform's result in both send functions.      *)
Verdict(o) ==
  CASE o.curl = "OK" -> IF o.http = 200 /\ o.code = 200 THEN "SND_SUCCESS" ELSE "SND_ERR_SRV"
    [] o.curl \in {"COULDNT_CONNECT", "SEND_ERROR"} -> "SND_ERR_NET"
    [] o.curl \in {"OPERATION_TIMEDOUT", "RECV_ERROR"} -> "SND_ERR_SRV"
    [] OTHER -> "SND_ERR_SYS"

(* One request with the given chunks.  A failure before the request (no    *)
(* size, no curl handle) looks like "other" with nothing taken.            *)
Request(chunks) ==
  \E o \in Outcome :
    /\ ret' = Verdict(o)
    /\ arrived' = IF o.took THEN arrived \o chunks ELSE arrived

(* messge_filename_forward.                                                *)
messge_filename_forward(m) ==
  IF m.type # 1 THEN m
  ELSE IF m.len > 1 THEN [m EXCEPT !.len = @ - 1, !.names = Tail(@)]
  ELSE [m EXCEPT !.len = 0, !.names = <<>>]

(* strlen(msg->data) > 0 && 0 == access(msg->data, F_OK).  Log data is not *)
(* the path of a file.                                                     *)
HeadExists(m) == m.names # <<>> /\ files[DataPath(Head(m.names))] # NULL
--------------------------------------------------------------------------------
(* queue_pop_wait(g_queue, 5).                                             *)
sender_pop ==
  /\ SGoto("pop", "send")
  /\ queue # <<>>
  /\ smsg' = Head(queue)
  /\ queue' = Tail(queue)
  /\ UNCHANGED <<proc, g_quit, disk, rvars, ret, dumpfp, dpend, outside, mvars>>

sender_pop_timeout ==
  /\ SGoto("pop", "quitcheck")
  /\ queue = <<>>
  /\ UNCHANGED <<proc, g_quit, queue, disk, rvars, slocal, outside, mvars>>

sender_quitcheck ==
  /\ spc = "quitcheck"
  /\ spc' = IF check_workers_quit THEN "done" ELSE "pop"
  /\ UNCHANGED <<proc, g_quit, queue, disk, rvars, slocal, outside, mvars>>

(* Mutant: a message is also sent again after a server error.              *)
send_log_buff_retries ==
  /\ SGoto("send", "check")
  /\ smsg.type = 0
  /\ Request(smsg.data)
  /\ smsg' = IF ret' \in {"SND_ERR_NET", "SND_ERR_SRV"} THEN smsg ELSE NULL
  /\ UNCHANGED <<proc, g_quit, queue, disk, rvars, dumpfp, dpend, dropped, history, mvars>>

(* A message of type 0 is sent, and kept only after a network error.       *)
send_log_buff ==
  /\ SGoto("send", "check")
  /\ smsg.type = 0
  /\ Request(smsg.data)
  /\ smsg' = IF ret' = "SND_ERR_NET" THEN smsg ELSE NULL
  /\ dropped' = IF ret' \in {"SND_ERR_SYS", "SND_ERR_SRV"} THEN dropped \cup Contents(smsg.data)
                ELSE dropped
  /\ UNCHANGED <<proc, g_quit, queue, disk, rvars, dumpfp, dpend, history, mvars>>

(* The next file of a message of another type is sent; only a network      *)
(* error leaves the loop, any other result moves on to the next name: a    *)
(* file the server did not take is dropped with a log entry.               *)
send_log_file ==
  /\ spc = "send"
  /\ smsg.type # 0 /\ HeadExists(smsg)
  /\ LET chunks == files[DataPath(Head(smsg.names))]
     IN  /\ Request(chunks)
         /\ dropped' = IF ret' \in {"SND_ERR_SYS", "SND_ERR_SRV"} THEN dropped \cup Contents(chunks)
                       ELSE dropped
  /\ smsg' = IF ret' = "SND_ERR_NET" THEN smsg ELSE messge_filename_forward(smsg)
  /\ spc' = IF ret' = "SND_ERR_NET" THEN "check" ELSE "send"
  /\ UNCHANGED <<proc, g_quit, queue, disk, rvars, dumpfp, dpend, history, mvars>>

send_files_end ==
  /\ SGoto("send", "check")
  /\ smsg.type # 0 /\ ~HeadExists(smsg)
  /\ UNCHANGED <<proc, g_quit, queue, disk, rvars, slocal, outside, mvars>>

(* Mutant: the flag is not read here.                                      *)
sender_check_no_quit ==
  /\ spc = "check"
  /\ spc' = IF smsg = NULL THEN "pop" ELSE "send"
  /\ UNCHANGED <<proc, g_quit, queue, disk, rvars, slocal, outside, mvars>>

(* The end of the do loop: a message still at hand is tried again, or      *)
(* dumped when the process is to end.                                      *)
sender_check ==
  /\ spc = "check"
  /\ spc' = IF smsg = NULL THEN "pop" ELSE IF check_workers_quit THEN "dump" ELSE "send"
  /\ UNCHANGED <<proc, g_quit, queue, disk, rvars, slocal, outside, mvars>>
--------------------------------------------------------------------------------
(* message_dump_to_file: a file is renamed to carry the token.  Open       *)
(* handles follow the file; a file that had the new name is gone.          *)
dump_rename ==
  LET t == Head(smsg.names)
      from == DataPath(t)
      to == TokenPath(t)
  IN  /\ spc = "dump"
      /\ smsg.type = 1 /\ HeadExists(smsg)
      /\ \/ /\ files' = [files EXCEPT ![to] = files[from], ![from] = NULL]
            /\ curr_fp' = IF curr_fp = from THEN to ELSE IF curr_fp = to THEN GONE ELSE curr_fp
            /\ dumpfp' = IF dumpfp = to THEN GONE ELSE dumpfp
         \/ UNCHANGED <<files, curr_fp, dumpfp>>    \* rename fails: logged only
      /\ smsg' = messge_filename_forward(smsg)
      /\ UNCHANGED <<proc, g_quit, queue, clock, rpc, rlocal, names_msg, file_count, curr_fsize,
                     pend, spc, ret, dpend, outside, mvars>>

dump_names_end ==
  /\ SGoto("dump", "dumppop")
  /\ smsg.type = 1 /\ ~HeadExists(smsg)
  /\ smsg' = NULL
  /\ UNCHANGED <<proc, g_quit, queue, disk, rvars, ret, dumpfp, dpend, outside, mvars>>

(* Log data is appended to the dump file, created on the first occasion.   *)
dump_open ==
  /\ spc = "dump"
  /\ smsg.type # 1 /\ dumpfp = NULL
  /\ \/ \E t \in Now :
          /\ clock' = t
          /\ files' = Opened(files, TokenPath(t))
          /\ dumpfp' = TokenPath(t)
          /\ UNCHANGED <<spc, dropped>>
     \/ /\ spc' = "done"         \* fopen fails: all messages are dropped
        /\ dropped' = dropped \cup Contents(smsg.data)
        /\ UNCHANGED <<disk, dumpfp>>
  /\ UNCHANGED <<proc, g_quit, queue, rvars, smsg, ret, dpend, arrived, history, mvars>>

dump_write ==
  /\ SGoto("dump", "dumppop")
  /\ smsg.type # 1 /\ dumpfp # NULL
  /\ \/ /\ files' = Flushed(files, dumpfp, dpend \o smsg.data)
        /\ dpend' = <<>>
        /\ UNCHANGED dropped
     \/ /\ dpend' = dpend \o smsg.data
        /\ UNCHANGED <<files, dropped>>
     \/ /\ dropped' = dropped \cup Contents(smsg.data)    \* fwrite fails
        /\ UNCHANGED <<files, dpend>>
  /\ smsg' = NULL
  /\ UNCHANGED <<proc, g_quit, queue, clock, rvars, ret, dumpfp, arrived, history, mvars>>

dump_pop ==
  /\ SGoto("dumppop", "dump")
  /\ queue # <<>>
  /\ smsg' = Head(queue)
  /\ queue' = Tail(queue)
  /\ UNCHANGED <<proc, g_quit, disk, rvars, ret, dumpfp, dpend, outside, mvars>>

dump_pop_timeout ==
  /\ SGoto("dumppop", "done")
  /\ queue = <<>>
  /\ UNCHANGED <<proc, g_quit, queue, disk, rvars, slocal, outside, mvars>>

SenderStep ==
  \/ sender_pop \/ sender_pop_timeout \/ sender_quitcheck
  \/ send_log_buff \/ send_log_file \/ send_files_end
  \/ sender_check
  \/ dump_rename \/ dump_names_end
  \/ dump_open \/ dump_write
  \/ dump_pop \/ dump_pop_timeout
================================================================================
