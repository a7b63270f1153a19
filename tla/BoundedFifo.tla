------------------------------ MODULE BoundedFifo ------------------------------
(***************************************************************************)
(* What useapp/queue.c promises its callers: a first-in first-out buffer   *)
(* of at most Max pointers.  There are no semaphores, no positions and no  *)
(* ring here.  A call waits until it is admitted, takes effect in one      *)
(* step and returns; a timed call may give up instead, but only when the   *)
(* buffer, together with the calls already admitted, leaves no room for it *)
(* (push) or nothing for it to take (pop).                                 *)
(***************************************************************************)
EXTENDS Integers, Sequences, FiniteSets

CONSTANTS Producers,  \* threads that push
          Consumers,  \* threads that pop
          Values,     \* the pointers that are pushed
          NULL,       \* the null pointer
          Max         \* capacity given to queue_init

VARIABLES fifo,  \* the pointers stored, oldest first
          op,    \* op[t]: how far thread t's call has got
          val,   \* val[t]: the pointer t's call pushes, or has popped
          ret    \* ret[p]: the code the last push of p returned

vars == <<fifo, op, val, ret>>

Threads == Producers \cup Consumers

At(S, o) == {t \in S : op[t] = o}

(* Places no admitted call has claimed, and pointers no admitted call will *)
(* take or has yet to announce.                                            *)
Room  == Max - Len(fifo) - Cardinality(At(Producers, "busy"))
                         - Cardinality(At(Consumers, "done"))
Stock == Len(fifo) - Cardinality(At(Producers, "done"))
                   - Cardinality(At(Consumers, "busy"))

Moves(t, from, to) == op[t] = from /\ op' = [op EXCEPT ![t] = to]

Init ==
  /\ fifo = <<>>
  /\ op  = [t \in Threads |-> "idle"]
  /\ val = [t \in Threads |-> NULL]
  /\ ret = [p \in Producers |-> 0]

Call(t, how, v) ==
  /\ Moves(t, "idle", how)
  /\ val' = [val EXCEPT ![t] = v]
  /\ UNCHANGED <<fifo, ret>>

Admit(t) ==
  /\ \E how \in {"wait", "twait"} : Moves(t, how, "busy")
  /\ IF t \in Producers THEN Room > 0 ELSE Stock > 0
  /\ UNCHANGED <<fifo, val, ret>>

Put(p) ==
  /\ Moves(p, "busy", "done")
  /\ Len(fifo) < Max
  /\ fifo' = Append(fifo, val[p])
  /\ ret' = [ret EXCEPT ![p] = 0]
  /\ UNCHANGED val

Take(c) ==
  /\ Moves(c, "busy", "done")
  /\ fifo # <<>>
  /\ val' = [val EXCEPT ![c] = Head(fifo)]
  /\ fifo' = Tail(fifo)
  /\ UNCHANGED ret

Return(t) ==
  /\ Moves(t, "done", "idle")
  /\ UNCHANGED <<fifo, val, ret>>

GiveUpPush(p) ==
  /\ Moves(p, "twait", "idle")
  /\ Room = 0
  /\ ret' = [ret EXCEPT ![p] = 1]
  /\ UNCHANGED <<fifo, val>>

GiveUpPop(c) ==
  /\ Moves(c, "twait", "idle")
  /\ Stock = 0
  /\ UNCHANGED <<fifo, val, ret>>

Next ==
  \/ \E p \in Producers :
       \/ \E how \in {"wait", "twait"}, v \in Values : Call(p, how, v)
       \/ Put(p)
       \/ GiveUpPush(p)
  \/ \E c \in Consumers :
       \/ \E how \in {"wait", "twait"} : Call(c, how, NULL)
       \/ Take(c)
       \/ GiveUpPop(c)
  \/ \E t \in Threads : Admit(t) \/ Return(t)

Spec == Init /\ [][Next]_vars
================================================================================
