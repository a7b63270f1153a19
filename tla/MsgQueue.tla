------------------------------- MODULE MsgQueue --------------------------------
(***************************************************************************)
(* useapp/queue.c: a ring of Max pointers guarded by three semaphores.     *)
(* nempty counts the places a push may still claim, nstored the pointers a *)
(* pop may still claim, mutex serialises the ring.  One action per         *)
(* semaphore operation, so that every interleaving of the threads inside   *)
(* push and pop is explored.                                               *)
(***************************************************************************)
EXTENDS Integers, Sequences, FiniteSets

CONSTANTS Producers, Consumers, Values, NULL, Max

ASSUME MaxAssumption == Max \in Nat \ {0}

ASSUME ThreadsAssumption ==
  /\ IsFiniteSet(Producers)
  /\ IsFiniteSet(Consumers)
  /\ Producers \cap Consumers = {}

ASSUME NullAssumption == NULL \notin Values

VARIABLES cirq, wpos, rpos, size,  \* the ring of struct queue
          mutex, nempty, nstored,  \* values of the three semaphores
          pc,                      \* pc[t]: where thread t is inside a call
          val,                     \* val[t]: pointer pushed, or popped, by t
          ret                      \* ret[p]: code returned to producer p

ring == <<cirq, wpos, rpos, size>>
sems == <<mutex, nempty, nstored>>
vars == <<cirq, wpos, rpos, size, mutex, nempty, nstored, pc, val, ret>>

Threads == Producers \cup Consumers
Slots   == 0 .. (Max - 1)

At(S, L) == {t \in S : pc[t] \in L}

Goto(t, from, to) == pc[t] = from /\ pc' = [pc EXCEPT ![t] = to]
--------------------------------------------------------------------------------
(* queue_init(max).                                                        *)
queue_init ==
  /\ cirq = [i \in Slots |-> NULL]
  /\ wpos = -1
  /\ rpos = 0
  /\ size = 0
  /\ mutex = 1
  /\ nempty = Max
  /\ nstored = 0

Init ==
  /\ queue_init
  /\ pc  = [t \in Threads |-> "idle"]
  /\ val = [t \in Threads |-> NULL]
  /\ ret = [p \in Producers |-> 0]

(* Entry of queue_push ("wait") and queue_push_wait ("twait"): the caller  *)
(* is about to wait on nempty.                                             *)
push_call(p, how, v) ==
  /\ Goto(p, "idle", how)
  /\ val' = [val EXCEPT ![p] = v]
  /\ UNCHANGED <<ring, sems, ret>>

(* Entry of queue_pop and queue_pop_wait; v starts as NULL.                *)
pop_call(c, how) ==
  /\ Goto(c, "idle", how)
  /\ val' = [val EXCEPT ![c] = NULL]
  /\ UNCHANGED <<ring, sems, ret>>

(* A sem_wait or a sem_timedwait that succeeds.                            *)
sem_wait_nempty(p) ==
  /\ \E how \in {"wait", "twait"} : Goto(p, how, "lock")
  /\ nempty > 0
  /\ nempty' = nempty - 1
  /\ UNCHANGED <<ring, mutex, nstored, val, ret>>

sem_wait_nstored(c) ==
  /\ \E how \in {"wait", "twait"} : Goto(c, how, "lock")
  /\ nstored > 0
  /\ nstored' = nstored - 1
  /\ UNCHANGED <<ring, mutex, nempty, val, ret>>

(* Mutants: the result of a push's sem_timedwait is not looked at; the     *)
(* posts of queue_pop_wait stand outside its if.                           *)
push_timeout_ignored(p) ==
  /\ Goto(p, "twait", "lock")
  /\ nempty = 0
  /\ UNCHANGED <<ring, sems, val, ret>>

pop_timeout_posts(c) ==
  /\ Goto(c, "twait", "idle")
  /\ nstored = 0
  /\ nempty' = nempty + 1
  /\ UNCHANGED <<ring, mutex, nstored, val, ret>>

(* sem_timedwait fails: only a semaphore that cannot be taken times out,   *)
(* however short the deadline.  The push returns 1, the pop NULL.          *)
push_timeout(p) ==
  /\ Goto(p, "twait", "idle")
  /\ nempty = 0
  /\ ret' = [ret EXCEPT ![p] = 1]
  /\ UNCHANGED <<ring, sems, val>>

pop_timeout(c) ==
  /\ Goto(c, "twait", "idle")
  /\ nstored = 0
  /\ UNCHANGED <<ring, sems, val, ret>>

(* Mutant: the ring is entered without taking mutex.                       *)
sem_wait_mutex_skipped(t) ==
  /\ Goto(t, "lock", "crit")
  /\ UNCHANGED <<ring, sems, val, ret>>

sem_wait_mutex(t) ==
  /\ Goto(t, "lock", "crit")
  /\ mutex > 0
  /\ mutex' = mutex - 1
  /\ UNCHANGED <<ring, nempty, nstored, val, ret>>

(* Mutants: the slot is filled before wpos steps; rpos is not wrapped; the *)
(* newest pointer is taken instead of the oldest.                          *)
circle_push_early(p) ==
  /\ Goto(p, "crit", "unlock")
  /\ cirq' = [cirq EXCEPT ![wpos] = val[p]]
  /\ wpos' = (wpos + 1) % Max
  /\ size' = size + 1
  /\ ret' = [ret EXCEPT ![p] = 0]
  /\ UNCHANGED <<rpos, sems, val>>

circle_pop_nowrap(c) ==
  /\ Goto(c, "crit", "unlock")
  /\ val' = [val EXCEPT ![c] = cirq[rpos]]
  /\ cirq' = [cirq EXCEPT ![rpos] = NULL]
  /\ rpos' = rpos + 1
  /\ size' = size - 1
  /\ UNCHANGED <<wpos, sems, ret>>

circle_pop_newest(c) ==
  /\ Goto(c, "crit", "unlock")
  /\ val' = [val EXCEPT ![c] = cirq[wpos]]
  /\ cirq' = [cirq EXCEPT ![wpos] = NULL]
  /\ wpos' = (wpos + Max - 1) % Max
  /\ size' = size - 1
  /\ UNCHANGED <<rpos, sems, ret>>

(* _circle_push and _circle_pop, with the assignment of their result.      *)
circle_push(p) ==
  /\ Goto(p, "crit", "unlock")
  /\ LET pos == (wpos + 1) % Max
     IN  IF size >= Max
         THEN /\ ret' = [ret EXCEPT ![p] = -1]
              /\ UNCHANGED ring
         ELSE /\ cirq' = [cirq EXCEPT ![pos] = val[p]]
              /\ wpos' = pos
              /\ size' = size + 1
              /\ ret' = [ret EXCEPT ![p] = 0]
              /\ UNCHANGED rpos
  /\ UNCHANGED <<sems, val>>

circle_pop(c) ==
  /\ Goto(c, "crit", "unlock")
  /\ IF size <= 0
     THEN /\ val' = [val EXCEPT ![c] = NULL]
          /\ UNCHANGED ring
     ELSE /\ val' = [val EXCEPT ![c] = cirq[rpos]]
          /\ cirq' = [cirq EXCEPT ![rpos] = NULL]
          /\ rpos' = (rpos + 1) % Max
          /\ size' = size - 1
          /\ UNCHANGED wpos
  /\ UNCHANGED <<sems, ret>>

(* Mutant: mutex is not released.                                          *)
sem_post_mutex_lost(t) ==
  /\ Goto(t, "unlock", "post")
  /\ UNCHANGED <<ring, sems, val, ret>>

sem_post_mutex(t) ==
  /\ Goto(t, "unlock", "post")
  /\ mutex' = mutex + 1
  /\ UNCHANGED <<ring, nempty, nstored, val, ret>>

(* The last sem_post of a call; the call returns.                          *)
sem_post_nstored(p) ==
  /\ Goto(p, "post", "idle")
  /\ nstored' = nstored + 1
  /\ UNCHANGED <<ring, mutex, nempty, val, ret>>

sem_post_nempty(c) ==
  /\ Goto(c, "post", "idle")
  /\ nempty' = nempty + 1
  /\ UNCHANGED <<ring, mutex, nstored, val, ret>>
--------------------------------------------------------------------------------
(* The steps a thread takes by itself once it is inside a call.            *)
PushStep(p) ==
  \/ sem_wait_nempty(p)
  \/ push_timeout(p)
  \/ sem_wait_mutex(p)
  \/ circle_push(p)
  \/ sem_post_mutex(p)
  \/ sem_post_nstored(p)

PopStep(c) ==
  \/ sem_wait_nstored(c)
  \/ pop_timeout(c)
  \/ sem_wait_mutex(c)
  \/ circle_pop(c)
  \/ sem_post_mutex(c)
  \/ sem_post_nempty(c)

Next ==
  \/ \E p \in Producers :
       \/ \E how \in {"wait", "twait"}, v \in Values : push_call(p, how, v)
       \/ PushStep(p)
  \/ \E c \in Consumers :
       \/ \E how \in {"wait", "twait"} : pop_call(c, how)
       \/ PopStep(c)

Spec == Init /\ [][Next]_vars

(* A thread inside a call is not suspended for ever; whether and when a    *)
(* caller makes a call is its own affair.  No fairness between waiters of  *)
(* one semaphore is assumed, since sem_wait gives none.                    *)
FairSpec ==
  /\ Spec
  /\ \A p \in Producers : WF_vars(PushStep(p))
  /\ \A c \in Consumers : WF_vars(PopStep(c))
--------------------------------------------------------------------------------
Labels == {"idle", "wait", "twait", "lock", "crit", "unlock", "post"}

(* Every variable stays in its range; the semaphores never go negative or  *)
(* above what queue_init gave them, and a push under way holds a pointer.  *)
TypeOK ==
  /\ cirq \in [Slots -> Values \cup {NULL}]
  /\ wpos \in -1 .. (Max - 1)
  /\ rpos \in Slots
  /\ size \in 0 .. Max
  /\ mutex \in 0 .. 1
  /\ nempty \in 0 .. Max
  /\ nstored \in 0 .. Max
  /\ pc \in [Threads -> Labels]
  /\ val \in [Threads -> Values \cup {NULL}]
  /\ ret \in [Producers -> {-1, 0, 1}]
  /\ \A p \in Producers : pc[p] # "idle" => val[p] \in Values

(* The ring is only ever touched by one thread: whoever is between         *)
(* sem_wait(mutex) and sem_post(mutex) is alone there, and the semaphore   *)
(* is available exactly when nobody is.                                    *)
MutualExclusion ==
  /\ \A t, u \in At(Threads, {"crit", "unlock"}) : t = u
  /\ mutex = 0 <=> At(Threads, {"crit", "unlock"}) # {}

(* The pushes that hold a claim on a place and those that have filled one; *)
(* the pops that hold a claim on a pointer and those that have taken one.  *)
PushClaimed == At(Producers, {"lock", "crit"})
PushStored  == At(Producers, {"unlock", "post"})
PopClaimed  == At(Consumers, {"lock", "crit"})
PopTaken    == At(Consumers, {"unlock", "post"})

(* No place and no pointer is counted twice or lost, whatever the          *)
(* interleaving: nempty, the places claimed by pushes under way, the       *)
(* pointers stored and the places vacated but not yet posted make up the   *)
(* whole ring; every stored pointer is posted in nstored, about to be      *)
(* posted by its push, or claimed by a pop.                                *)
SlotsAccounted ==
  /\ nempty + size + Cardinality(PushClaimed) + Cardinality(PopTaken) = Max
  /\ size = nstored + Cardinality(PushStored) + Cardinality(PopClaimed)

(* The "full" test of _circle_push and the "empty" test of _circle_pop     *)
(* never fire: a thread that got past its counting semaphore always finds  *)
(* a place, or a pointer, so queue_push never returns -1 and no pop that   *)
(* was admitted returns NULL.                                              *)
AdmittedSucceeds ==
  /\ \A p \in Producers : pc[p] = "crit" => size < Max
  /\ \A c \in Consumers : pc[c] = "crit" => size > 0
  /\ \A p \in Producers : ret[p] # -1
  /\ \A c \in Consumers : pc[c] \in {"unlock", "post"} => val[c] \in Values

(* The size slots from rpos on hold pointers, the others NULL, and the     *)
(* last one written is wpos: no pop reads a slot no push filled and no     *)
(* push overwrites one that was not read.                                  *)
RingShape ==
  /\ (rpos + size) % Max = (wpos + 1) % Max
  /\ \A i \in Slots : cirq[(rpos + i) % Max] # NULL <=> i < size

(* The refinement mapping: the stored pointers in the order they will be   *)
(* popped, and how far each call has got.                                  *)
Contents == [i \in 1 .. size |-> cirq[(rpos + i - 1) % Max]]

Progress(l) ==
  CASE l \in {"lock", "crit"}   -> "busy"
    [] l \in {"unlock", "post"} -> "done"
    [] OTHER                    -> l

Stage == [t \in Threads |-> Progress(pc[t])]

Fifo == INSTANCE BoundedFifo WITH fifo <- Contents, op <- Stage

(* queue.c implements the bounded FIFO it is used as: each push and pop    *)
(* takes effect at one instant, in _circle_push or _circle_pop, in order;  *)
(* a timed call gives up only when no place, or no pointer, is unclaimed.  *)
ImplementsFifo == Fifo!Spec

(* With one producer and one consumer, as in the daemon, a timed call      *)
(* always comes back, and an untimed one does once it is admitted: nobody  *)
(* is left waiting for mutex.                                              *)
CallsReturn ==
  \A t \in Threads : pc[t] \in {"twait", "lock", "crit", "unlock", "post"} ~> pc[t] = "idle"
================================================================================
