-------------------------- MODULE MsgQueueRefinement ---------------------------
(***************************************************************************)
(* useapp/queue.c implements BoundedFifo, for every capacity and every     *)
(* finite set of threads.  The argument: by IndInv the stored slots, read  *)
(* from rpos on, are a sequence of size pointers; circle_push appends to   *)
(* it, circle_pop takes its head, nothing else changes it, and nempty and  *)
(* nstored are exactly the Room and the Stock of the abstract buffer.      *)
(***************************************************************************)
EXTENDS MsgQueueProofs, SequenceTheorems

(* The mapped contents are a sequence of size pointers.                    *)
LEMMA ContentsSeq ==
  ASSUME TypeOK
  PROVE  /\ Contents \in Seq(Values \cup {NULL})
         /\ Len(Contents) = size
         /\ \A i \in 1 .. size : Contents[i] = cirq[(rpos + i - 1) % Max]
<1>1. size \in Nat
  BY MaxAssumption DEF TypeOK
<1>2. ASSUME NEW i \in 1 .. size
      PROVE  cirq[(rpos + i - 1) % Max] \in Values \cup {NULL}
  <2>1. (rpos + i - 1) % Max \in Slots
    BY MaxAssumption DEF TypeOK, Slots
  <2>2. QED
    BY <2>1 DEF TypeOK
<1>3. Contents \in [1 .. size -> Values \cup {NULL}]
  BY <1>2 DEF Contents
<1>4. Contents \in Seq(Values \cup {NULL})
  BY <1>1, <1>3, SeqDef
<1>5. QED
  BY <1>1, <1>3, <1>4 DEF Contents

(* _circle_push appends the pointer to the contents.                       *)
LEMMA ContentsPush ==
  ASSUME IndInv, TypeOK', NEW p \in Producers, circle_push(p)
  PROVE  /\ Len(Contents) < Max
         /\ Contents' = Append(Contents, val[p])
         /\ ret' = [ret EXCEPT ![p] = 0]
<1>0. (Contents \in Seq(Values \cup {NULL}) /\ Len(Contents) = size)'
  BY ContentsSeq, PTL
<1> USE MaxAssumption DEF IndInv, TypeOK
<1>1. size < Max
  BY ClaimsGood, AtLabel DEF circle_push, Goto
<1>2. /\ cirq' = [cirq EXCEPT ![(rpos + size) % Max] = val[p]]
      /\ rpos' = rpos /\ size' = size + 1
      /\ ret' = [ret EXCEPT ![p] = 0]
  BY <1>1 DEF circle_push, RingShape
<1>3. ASSUME NEW i \in 1 .. size'
      PROVE  Contents'[i] = IF i <= size THEN Contents[i] ELSE val[p]
  <2>1. /\ i - 1 \in Slots /\ size \in Slots
        /\ rpos + i - 1 = rpos + (i - 1)
        /\ (rpos + (i - 1)) % Max \in Slots /\ (rpos + size) % Max \in Slots
    BY <1>1, <1>2 DEF Slots
  <2>2. Contents'[i] = cirq'[(rpos + (i - 1)) % Max]
    BY <1>2, <2>1 DEF Contents
  <2>3. CASE i <= size
    <3>1. (rpos + (i - 1)) % Max # (rpos + size) % Max
      <4>1. i - 1 # size /\ rpos \in Slots
        BY <2>3
      <4>2. QED
        BY <2>1, <4>1, WrapApart
    <3>2. Contents[i] = cirq[(rpos + (i - 1)) % Max]
      BY <2>1, <2>3, ContentsSeq
    <3>3. QED
      BY <1>2, <2>1, <2>2, <2>3, <3>1, <3>2
  <2>4. CASE i > size
    <3>1. i - 1 = size
      BY <1>2, <2>4
    <3>2. QED
      BY <1>2, <2>1, <2>2, <2>4, <3>1
  <2>5. QED
    BY <2>3, <2>4
<1>4. Contents' = Append(Contents, val[p])
  <2>1. val[p] \in Values \cup {NULL}
    BY DEF Threads
  <2>2. Contents \in Seq(Values \cup {NULL}) /\ Len(Contents) = size
    BY ContentsSeq
  <2>3. Contents' \in Seq(Values \cup {NULL}) /\ Len(Contents') = size'
    BY <1>0
  <2>4. /\ Append(Contents, val[p]) \in Seq(Values \cup {NULL})
        /\ Len(Append(Contents, val[p])) = size + 1
        /\ \A i \in 1 .. size : Append(Contents, val[p])[i] = Contents[i]
        /\ Append(Contents, val[p])[size + 1] = val[p]
    BY <2>1, <2>2, AppendProperties
  <2>5. \A i \in 1 .. (size + 1) : Contents'[i] = Append(Contents, val[p])[i]
    BY <1>2, <1>3, <2>4
  <2>6. QED
    BY <1>2, <2>3, <2>4, <2>5, SeqEqual
<1>5. Len(Contents) < Max
  BY <1>1, ContentsSeq
<1>6. QED
  BY <1>2, <1>4, <1>5

(* _circle_pop takes the oldest pointer off the contents.                  *)
LEMMA ContentsPop ==
  ASSUME IndInv, TypeOK', NEW c \in Consumers, circle_pop(c)
  PROVE  /\ Contents # <<>>
         /\ val' = [val EXCEPT ![c] = Head(Contents)]
         /\ Contents' = Tail(Contents)
<1>0. (Contents \in Seq(Values \cup {NULL}) /\ Len(Contents) = size)'
  BY ContentsSeq, PTL
<1> USE MaxAssumption DEF IndInv, TypeOK
<1>1. size > 0
  BY ClaimsGood, AtLabel DEF circle_pop, Goto
<1>2. /\ val' = [val EXCEPT ![c] = cirq[rpos]]
      /\ cirq' = [cirq EXCEPT ![rpos] = NULL]
      /\ rpos' = (rpos + 1) % Max /\ size' = size - 1
  BY <1>1 DEF circle_pop
<1>3. /\ Contents \in Seq(Values \cup {NULL}) /\ Len(Contents) = size
      /\ Contents # <<>>
  BY <1>1, ContentsSeq
<1>4. Head(Contents) = cirq[rpos]
  <2>1. Contents[1] = cirq[(rpos + 1 - 1) % Max]
    BY <1>1, ContentsSeq
  <2>2. (rpos + 1 - 1) % Max = rpos
    <3>1. rpos + 1 - 1 = rpos
      BY DEF Slots
    <3>2. QED
      BY <3>1, WrapRound
  <2>3. QED
    BY <1>3, <2>1, <2>2
<1>5. ASSUME NEW i \in 1 .. size'
      PROVE  Contents'[i] = Contents[i + 1]
  <2>1. /\ i - 1 \in Slots /\ i \in Slots /\ i + 1 \in 1 .. size
        /\ rpos + (i + 1) - 1 = rpos + i
        /\ rpos + (i - 1) + 1 = rpos + i
    BY <1>1, <1>2 DEF Slots
  <2>2. Contents'[i] = cirq'[(rpos' + i - 1) % Max]
    BY DEF Contents
  <2>3. rpos' + i - 1 = rpos' + (i - 1)
    BY DEF Slots
  <2>4. (rpos' + (i - 1)) % Max = (rpos + i) % Max
    <3>1. ASSUME NEW k \in Slots
          PROVE  (rpos' + k) % Max = (rpos + k + 1) % Max
      BY ONLY <1>2, WrapStep, rpos \in Slots
    <3>2. (rpos' + (i - 1)) % Max = (rpos + (i - 1) + 1) % Max
      BY ONLY <2>1, <3>1
    <3>3. QED
      BY ONLY <2>1, <3>2
  <2>5. (rpos + i) % Max \in Slots /\ (rpos + i) % Max # rpos
    <3>1. 0 \in Slots /\ i # 0 /\ rpos + 0 = rpos
      BY DEF Slots
    <3>2. (rpos + i) % Max # (rpos + 0) % Max
      BY <2>1, <3>1, WrapApart
    <3>3. rpos % Max = rpos
      BY WrapRound
    <3>4. (rpos + i) % Max \in Slots
      BY <2>1 DEF Slots
    <3>5. QED
      BY <3>1, <3>2, <3>3, <3>4
  <2>6. Contents[i + 1] = cirq[(rpos + i) % Max]
    BY <2>1, ContentsSeq
  <2>7. QED
    BY <1>2, <2>2, <2>3, <2>4, <2>5, <2>6
<1>6. Contents' = Tail(Contents)
  <2>1. /\ Tail(Contents) \in Seq(Values \cup {NULL})
        /\ Len(Tail(Contents)) = size - 1
        /\ \A i \in 1 .. (size - 1) : Tail(Contents)[i] = Contents[i + 1]
    BY <1>3, HeadTailProperties
  <2>2. \A i \in 1 .. (size - 1) : Contents'[i] = Tail(Contents)[i]
    BY <1>2, <1>5, <2>1
  <2>3. QED
    BY <1>0, <1>2, <2>1, <2>2, SeqEqual
<1>7. QED
  BY <1>2, <1>3, <1>4, <1>6

--------------------------------------------------------------------------------
(* A step of a thread is a step, or a stutter, of its abstract call.       *)
LEMMA StageMoves ==
  ASSUME TypeOK, NEW t \in Threads, NEW from \in Labels, NEW to \in Labels, Goto(t, from, to)
  PROVE  Stage[t] = Progress(from) /\ Stage' = [Stage EXCEPT ![t] = Progress(to)]
  BY DEF TypeOK, Goto, Stage

(* BoundedFifo counts with the same Cardinality.                           *)
LEMMA SameCardinality == \A S : Fifo!Cardinality(S) = Cardinality(S)
  BY DEF Fifo!Cardinality, Cardinality

(* nempty and nstored are the abstract buffer's Room and Stock.            *)
LEMMA SemaphoresMap ==
  ASSUME TypeOK, SlotsAccounted
  PROVE  Fifo!Room = nempty /\ Fifo!Stock = nstored
<1>1. /\ Fifo!At(Producers, "busy") = PushClaimed
      /\ Fifo!At(Producers, "done") = PushStored
  BY DEF Fifo!At, PushClaimed, PushStored, At, Stage, Progress, TypeOK, Threads, Labels
<1>2. /\ Fifo!At(Consumers, "busy") = PopClaimed
      /\ Fifo!At(Consumers, "done") = PopTaken
  BY DEF Fifo!At, PopClaimed, PopTaken, At, Stage, Progress, TypeOK, Threads, Labels
<1>3. /\ Cardinality(PushClaimed) \in Nat /\ Cardinality(PushStored) \in Nat
      /\ Cardinality(PopClaimed) \in Nat /\ Cardinality(PopTaken) \in Nat
  BY CountsFinite, FS_CardinalityType
<1>4. size \in Nat /\ nempty \in Nat /\ nstored \in Nat
  BY MaxAssumption DEF TypeOK
<1>5. Max - size - Cardinality(PushClaimed) - Cardinality(PopTaken) = nempty
  BY <1>3, <1>4, MaxAssumption DEF SlotsAccounted
<1>6. size - Cardinality(PushStored) - Cardinality(PopClaimed) = nstored
  BY <1>3, <1>4 DEF SlotsAccounted
<1>7. /\ Fifo!Room = Max - Len(Contents) - Cardinality(PushClaimed) - Cardinality(PopTaken)
      /\ Fifo!Stock = Len(Contents) - Cardinality(PushStored) - Cardinality(PopClaimed)
  BY <1>1, <1>2, SameCardinality DEF Fifo!Room, Fifo!Stock
<1>8. QED
  BY <1>5, <1>6, <1>7, ContentsSeq

(* The ring of queue_init is the empty buffer.                             *)
LEMMA InitRefines ==
  ASSUME Init
  PROVE  Fifo!Init
<1>1. Contents = <<>>
  BY DEF Init, queue_init, Contents
<1>2. Stage = [t \in Threads |-> "idle"]
  BY DEF Init, Stage, Progress
<1>3. QED
  BY <1>1, <1>2 DEF Init, Fifo!Init, Fifo!Threads, Threads

(* Every step of queue.c is a step of the buffer or leaves it unchanged:   *)
(* sem_wait on a counting semaphore admits the call, circle_push and       *)
(* circle_pop make it take effect, the last sem_post returns it.           *)
LEMMA StepRefines ==
  ASSUME IndInv, IndInv', [Next]_vars
  PROVE  [Fifo!Next]_(Fifo!vars)
<1> USE DEF IndInv
<1>0. /\ Producers \subseteq Threads /\ Consumers \subseteq Threads
      /\ Fifo!Threads = Threads
      /\ \A c \in Consumers : c \notin Producers
  BY ThreadsAssumption DEF Threads, Fifo!Threads
<1>1. UNCHANGED ring => UNCHANGED Contents
  BY DEF ring, Contents
<1>2. Fifo!Room = nempty /\ Fifo!Stock = nstored
  BY SemaphoresMap
<1>3. ASSUME NEW t \in Threads, NEW from \in Labels, NEW to \in Labels, Goto(t, from, to)
      PROVE  /\ Fifo!Moves(t, Progress(from), Progress(to))
             /\ Progress(from) = Progress(to) => UNCHANGED Stage
  <2>1. Stage[t] = Progress(from) /\ Stage' = [Stage EXCEPT ![t] = Progress(to)]
    BY <1>3, StageMoves
  <2>2. QED
    BY <2>1 DEF Fifo!Moves, Stage
<1>4. /\ Progress("idle") = "idle" /\ Progress("wait") = "wait" /\ Progress("twait") = "twait"
      /\ Progress("lock") = "busy" /\ Progress("crit") = "busy"
      /\ Progress("unlock") = "done" /\ Progress("post") = "done"
  BY DEF Progress
<1>5. ASSUME NEW p \in Producers, NEW how \in {"wait", "twait"}, NEW v \in Values,
             push_call(p, how, v)
      PROVE  Fifo!Next
  <2>1. Fifo!Moves(p, "idle", how)
    BY <1>0, <1>3, <1>4, <1>5 DEF push_call, Labels
  <2>2. Fifo!Call(p, how, v)
    BY <1>1, <1>5, <2>1 DEF push_call, Fifo!Call
  <2>3. QED
    BY <2>2 DEF Fifo!Next
<1>6. ASSUME NEW c \in Consumers, NEW how \in {"wait", "twait"}, pop_call(c, how)
      PROVE  Fifo!Next
  <2>1. Fifo!Moves(c, "idle", how)
    BY <1>0, <1>3, <1>4, <1>6 DEF pop_call, Labels
  <2>2. Fifo!Call(c, how, NULL)
    BY <1>1, <1>6, <2>1 DEF pop_call, Fifo!Call
  <2>3. QED
    BY <2>2 DEF Fifo!Next
<1>7. ASSUME NEW p \in Producers, sem_wait_nempty(p)
      PROVE  Fifo!Next
  <2>1. \E how \in {"wait", "twait"} : Fifo!Moves(p, how, "busy")
    BY <1>0, <1>3, <1>4, <1>7 DEF sem_wait_nempty, Labels
  <2>2. Fifo!Admit(p)
    BY <1>1, <1>2, <1>7, <2>1 DEF sem_wait_nempty, Fifo!Admit
  <2>3. QED
    BY <1>0, <2>2 DEF Fifo!Next
<1>8. ASSUME NEW c \in Consumers, sem_wait_nstored(c)
      PROVE  Fifo!Next
  <2>1. \E how \in {"wait", "twait"} : Fifo!Moves(c, how, "busy")
    BY <1>0, <1>3, <1>4, <1>8 DEF sem_wait_nstored, Labels
  <2>2. Fifo!Admit(c)
    BY <1>0, <1>1, <1>2, <1>8, <2>1 DEF sem_wait_nstored, Fifo!Admit
  <2>3. QED
    BY <1>0, <2>2 DEF Fifo!Next
<1>9. ASSUME NEW p \in Producers, push_timeout(p)
      PROVE  Fifo!Next
  <2>1. Fifo!Moves(p, "twait", "idle")
    BY <1>0, <1>3, <1>4, <1>9 DEF push_timeout, Labels
  <2>2. Fifo!GiveUpPush(p)
    BY <1>1, <1>2, <1>9, <2>1 DEF push_timeout, Fifo!GiveUpPush
  <2>3. QED
    BY <2>2 DEF Fifo!Next
<1>10. ASSUME NEW c \in Consumers, pop_timeout(c)
       PROVE  Fifo!Next
  <2>1. Fifo!Moves(c, "twait", "idle")
    BY <1>0, <1>3, <1>4, <1>10 DEF pop_timeout, Labels
  <2>2. Fifo!GiveUpPop(c)
    BY <1>1, <1>2, <1>10, <2>1 DEF pop_timeout, Fifo!GiveUpPop
  <2>3. QED
    BY <2>2 DEF Fifo!Next
<1>11. ASSUME NEW p \in Producers, circle_push(p)
       PROVE  Fifo!Next
  <2>1. Fifo!Moves(p, "busy", "done")
    BY <1>0, <1>3, <1>4, <1>11 DEF circle_push, Labels
  <2>2. /\ Len(Contents) < Max
        /\ Contents' = Append(Contents, val[p])
        /\ ret' = [ret EXCEPT ![p] = 0]
    BY <1>11, ContentsPush
  <2>3. Fifo!Put(p)
    BY <1>11, <2>1, <2>2 DEF circle_push, Fifo!Put
  <2>4. QED
    BY <2>3 DEF Fifo!Next
<1>12. ASSUME NEW c \in Consumers, circle_pop(c)
       PROVE  Fifo!Next
  <2>1. Fifo!Moves(c, "busy", "done")
    BY <1>0, <1>3, <1>4, <1>12 DEF circle_pop, Labels
  <2>2. /\ Contents # <<>>
        /\ val' = [val EXCEPT ![c] = Head(Contents)]
        /\ Contents' = Tail(Contents)
    BY <1>12, ContentsPop
  <2>3. Fifo!Take(c)
    BY <1>12, <2>1, <2>2 DEF circle_pop, Fifo!Take
  <2>4. QED
    BY <2>3 DEF Fifo!Next
<1>13. ASSUME NEW t \in Threads, sem_wait_mutex(t) \/ sem_post_mutex(t)
       PROVE  UNCHANGED Fifo!vars
  <2>1. UNCHANGED Stage
    BY <1>3, <1>4, <1>13 DEF sem_wait_mutex, sem_post_mutex, Labels
  <2>2. QED
    BY <1>1, <1>13, <2>1 DEF sem_wait_mutex, sem_post_mutex, Fifo!vars
<1>14. ASSUME NEW t \in Threads, sem_post_nstored(t) \/ sem_post_nempty(t)
       PROVE  Fifo!Next
  <2>1. Fifo!Moves(t, "done", "idle")
    BY <1>3, <1>4, <1>14 DEF sem_post_nstored, sem_post_nempty, Labels
  <2>2. Fifo!Return(t)
    BY <1>1, <1>14, <2>1 DEF sem_post_nstored, sem_post_nempty, Fifo!Return
  <2>3. QED
    BY <1>0, <2>2 DEF Fifo!Next
<1>15. CASE UNCHANGED vars
  BY <1>15 DEF vars, Fifo!vars, Contents, Stage
<1>16. QED
  BY <1>0, <1>5, <1>6, <1>7, <1>8, <1>9, <1>10, <1>11, <1>12, <1>13, <1>14, <1>15
     DEF Next, PushStep, PopStep

(* queue.c implements the bounded FIFO its callers rely on.                *)
THEOREM Refinement == Spec => ImplementsFifo
  BY Inductive, InitRefines, StepRefines, PTL DEF Spec, Fifo!Spec, ImplementsFifo
================================================================================
