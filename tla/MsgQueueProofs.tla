---------------------------- MODULE MsgQueueProofs -----------------------------
(***************************************************************************)
(* The safety of useapp/queue.c for any capacity, any finite number of     *)
(* producers and consumers and any set of pointers.                        *)
(*                                                                         *)
(* The argument.  No one property of MsgQueue is inductive: that the ring  *)
(* keeps its shape needs the "full" and "empty" tests never to fire, which *)
(* needs the counts of SlotsAccounted, which need the ring to be changed   *)
(* only by a thread that holds mutex.  Their conjunction IndInv is         *)
(* inductive, and every theorem below is read off it.                      *)
(***************************************************************************)
EXTENDS MsgQueue, FiniteSetTheorems, TLAPS

IndInv ==
  /\ TypeOK
  /\ MutualExclusion
  /\ SlotsAccounted
  /\ AdmittedSucceeds
  /\ RingShape

--------------------------------------------------------------------------------
(* Arithmetic of the ring.                                                 *)

(* What % Max is on the positions the ring computes.                       *)
LEMMA Wrap ==
  ASSUME NEW a \in 0 .. (2 * Max)
  PROVE  a % Max = IF a < Max THEN a ELSE IF a < 2 * Max THEN a - Max ELSE 0
<1>1. Max \in Nat /\ Max > 0
  BY MaxAssumption
<1>2. CASE a < Max
  BY <1>1, <1>2
<1>3. CASE a >= Max /\ a < 2 * Max
  BY <1>1, <1>3
<1>4. CASE a = 2 * Max
  BY <1>1, <1>4
<1>5. QED
  BY <1>1, <1>2, <1>3, <1>4

(* Different offsets from one position are different slots.                *)
LEMMA WrapApart ==
  ASSUME NEW r \in Slots, NEW i \in Slots, NEW j \in Slots, i # j
  PROVE  (r + i) % Max # (r + j) % Max
<1>1. (r + i) % Max = IF r + i < Max THEN r + i ELSE r + i - Max
  BY Wrap, MaxAssumption DEF Slots
<1>2. (r + j) % Max = IF r + j < Max THEN r + j ELSE r + j - Max
  BY Wrap, MaxAssumption DEF Slots
<1>3. QED
  BY <1>1, <1>2, MaxAssumption DEF Slots

(* A position is its own remainder, and comes back after Max steps.        *)
LEMMA WrapRound ==
  ASSUME NEW r \in Slots
  PROVE  r % Max = r /\ (r + Max) % Max = r
<1>1. r \in 0 .. (2 * Max) /\ r + Max \in 0 .. (2 * Max) /\ r + Max < 2 * Max
  BY MaxAssumption DEF Slots
<1>2. QED
  BY <1>1, Wrap, MaxAssumption DEF Slots

(* Wrapping first and stepping k further is the same as stepping first.    *)
LEMMA WrapStep ==
  ASSUME NEW r \in Slots, NEW k \in Slots
  PROVE  /\ (((r + 1) % Max) + k) % Max = (r + k + 1) % Max
         /\ (((r + k) % Max) + 1) % Max = (r + k + 1) % Max
<1>1. r + k + 1 \in 0 .. (2 * Max) /\ r + k + 1 < 2 * Max
  BY MaxAssumption DEF Slots
<1>2. (r + k + 1) % Max = IF r + k + 1 < Max THEN r + k + 1 ELSE r + k + 1 - Max
  BY <1>1, Wrap, MaxAssumption DEF Slots
<1>3. (((r + 1) % Max) + k) % Max = (r + k + 1) % Max
  <2>1. (r + 1) % Max = IF r + 1 < Max THEN r + 1 ELSE 0
    BY Wrap, MaxAssumption DEF Slots
  <2>2. CASE r + 1 < Max
    <3>1. ((r + 1) % Max) + k = r + k + 1
      BY <2>1, <2>2 DEF Slots
    <3>2. QED
      BY <3>1
  <2>3. CASE r + 1 >= Max
    <3>1. ((r + 1) % Max) + k = k /\ r = Max - 1
      BY <2>1, <2>3, MaxAssumption DEF Slots
    <3>2. QED
      BY <1>2, <3>1, WrapRound, MaxAssumption DEF Slots
  <2>4. QED
    BY <2>2, <2>3, MaxAssumption DEF Slots
<1>4. (((r + k) % Max) + 1) % Max = (r + k + 1) % Max
  <2>1. (r + k) % Max = IF r + k < Max THEN r + k ELSE r + k - Max
    BY Wrap, MaxAssumption DEF Slots
  <2>2. CASE r + k < Max
    <3>1. ((r + k) % Max) + 1 = r + k + 1
      BY <2>1, <2>2 DEF Slots
    <3>2. QED
      BY <3>1
  <2>3. CASE r + k >= Max
    <3>1. ((r + k) % Max) + 1 = r + k + 1 - Max /\ r + k + 1 - Max \in Slots
      BY <2>1, <2>3, MaxAssumption DEF Slots
    <3>2. QED
      BY <1>2, <2>3, <3>1, WrapRound, MaxAssumption DEF Slots
  <2>4. QED
    BY <2>2, <2>3, MaxAssumption DEF Slots
<1>5. QED
  BY <1>3, <1>4

--------------------------------------------------------------------------------
(* Counting threads.                                                       *)

(* Adding a thread to a finite set of threads, or removing one, moves its  *)
(* cardinality by at most one.                                             *)
LEMMA CountOne ==
  ASSUME NEW T, IsFiniteSet(T), NEW t
  PROVE  /\ Cardinality(T) \in Nat
         /\ t \in T => Cardinality(T) > 0
         /\ Cardinality(T \cup {t}) = Cardinality(T) + (IF t \in T THEN 0 ELSE 1)
         /\ Cardinality(T \ {t}) = Cardinality(T) - (IF t \in T THEN 1 ELSE 0)
<1>1. Cardinality(T) \in Nat
  BY FS_CardinalityType
<1>2. t \in T => Cardinality(T) > 0
  BY <1>1, FS_EmptySet
<1>3. Cardinality(T \cup {t}) = Cardinality(T) + (IF t \in T THEN 0 ELSE 1)
  BY <1>1, FS_AddElement
<1>4. Cardinality(T \ {t}) = Cardinality(T) - (IF t \in T THEN 1 ELSE 0)
  BY <1>1, FS_RemoveElement
<1>5. QED
  BY <1>1, <1>2, <1>3, <1>4

(* The four sets of threads under way are finite, so they can be counted.  *)
LEMMA CountsFinite ==
  /\ IsFiniteSet(PushClaimed) /\ IsFiniteSet(PushStored)
  /\ IsFiniteSet(PopClaimed) /\ IsFiniteSet(PopTaken)
<1>1. PushClaimed \subseteq Producers /\ PushStored \subseteq Producers
  BY DEF PushClaimed, PushStored, At
<1>2. PopClaimed \subseteq Consumers /\ PopTaken \subseteq Consumers
  BY DEF PopClaimed, PopTaken, At
<1>3. QED
  BY <1>1, <1>2, FS_Subset, ThreadsAssumption

(* How the four sets follow a step of a producer, and of a consumer.       *)
LEMMA ProducerMoves ==
  ASSUME TypeOK, NEW p \in Producers, NEW from, NEW to, Goto(p, from, to)
  PROVE  /\ PushClaimed' = IF to \in {"lock", "crit"} THEN PushClaimed \cup {p} ELSE PushClaimed \ {p}
         /\ PushStored' = IF to \in {"unlock", "post"} THEN PushStored \cup {p} ELSE PushStored \ {p}
         /\ PopClaimed' = PopClaimed
         /\ PopTaken' = PopTaken
         /\ p \in PushClaimed <=> from \in {"lock", "crit"}
         /\ p \in PushStored <=> from \in {"unlock", "post"}
<1>1. p \in Threads /\ p \notin Consumers
  BY ThreadsAssumption DEF Threads
<1>2. QED
  BY <1>1 DEF TypeOK, Goto, PushClaimed, PushStored, PopClaimed, PopTaken, At, Threads

(* The same for a consumer: it moves between the sets of pops only.        *)
LEMMA ConsumerMoves ==
  ASSUME TypeOK, NEW c \in Consumers, NEW from, NEW to, Goto(c, from, to)
  PROVE  /\ PopClaimed' = IF to \in {"lock", "crit"} THEN PopClaimed \cup {c} ELSE PopClaimed \ {c}
         /\ PopTaken' = IF to \in {"unlock", "post"} THEN PopTaken \cup {c} ELSE PopTaken \ {c}
         /\ PushClaimed' = PushClaimed
         /\ PushStored' = PushStored
         /\ c \in PopClaimed <=> from \in {"lock", "crit"}
         /\ c \in PopTaken <=> from \in {"unlock", "post"}
<1>1. c \in Threads /\ c \notin Producers
  BY ThreadsAssumption DEF Threads
<1>2. QED
  BY <1>1 DEF TypeOK, Goto, PushClaimed, PushStored, PopClaimed, PopTaken, At, Threads

(* A claim is always good: whoever holds one finds a place, or a pointer,  *)
(* and whoever is about to post finds the semaphore below its ceiling.     *)
LEMMA ClaimsGood ==
  ASSUME TypeOK, SlotsAccounted
  PROVE  /\ \A p \in PushClaimed : size < Max
         /\ \A p \in PushStored : nstored < Max
         /\ \A c \in PopClaimed : size > 0
         /\ \A c \in PopTaken : nempty < Max
<1>1. /\ Cardinality(PushClaimed) \in Nat /\ Cardinality(PushStored) \in Nat
      /\ Cardinality(PopClaimed) \in Nat /\ Cardinality(PopTaken) \in Nat
  BY CountsFinite, FS_CardinalityType
<1>2. \A p \in PushClaimed : size < Max
  <2>1. ASSUME NEW p \in PushClaimed
        PROVE  Cardinality(PushClaimed) > 0
    BY CountsFinite, CountOne
  <2>2. QED
    BY <1>1, <2>1, MaxAssumption DEF TypeOK, SlotsAccounted
<1>3. \A p \in PushStored : nstored < Max
  <2>1. ASSUME NEW p \in PushStored
        PROVE  Cardinality(PushStored) > 0
    BY CountsFinite, CountOne
  <2>2. QED
    BY <1>1, <2>1, MaxAssumption DEF TypeOK, SlotsAccounted
<1>4. \A c \in PopClaimed : size > 0
  <2>1. ASSUME NEW c \in PopClaimed
        PROVE  Cardinality(PopClaimed) > 0
    BY CountsFinite, CountOne
  <2>2. QED
    BY <1>1, <2>1, MaxAssumption DEF TypeOK, SlotsAccounted
<1>5. \A c \in PopTaken : nempty < Max
  <2>1. ASSUME NEW c \in PopTaken
        PROVE  Cardinality(PopTaken) > 0
    BY CountsFinite, CountOne
  <2>2. QED
    BY <1>1, <2>1, MaxAssumption DEF TypeOK, SlotsAccounted
<1>6. QED
  BY <1>2, <1>3, <1>4, <1>5

(* A thread's label says which of the four sets it is in.                  *)
LEMMA AtLabel ==
  /\ \A p \in Producers : /\ pc[p] \in {"lock", "crit"} <=> p \in PushClaimed
                          /\ pc[p] \in {"unlock", "post"} <=> p \in PushStored
  /\ \A c \in Consumers : /\ pc[c] \in {"lock", "crit"} <=> c \in PopClaimed
                          /\ pc[c] \in {"unlock", "post"} <=> c \in PopTaken
  BY DEF PushClaimed, PushStored, PopClaimed, PopTaken, At

--------------------------------------------------------------------------------
(* Preservation, one lemma for each part of IndInv, one step per action.   *)

(* No step of push or pop leaves the types of the queue's state.           *)
LEMMA TypeStep ==
  ASSUME IndInv, [Next]_vars
  PROVE  TypeOK'
<1> USE MaxAssumption DEF IndInv, TypeOK, Goto, Threads, Slots, Labels, ring, sems
<1>0. /\ \A p \in Producers : p \in Threads /\ p \notin Consumers
      /\ \A c \in Consumers : c \in Threads /\ c \notin Producers
  BY ThreadsAssumption
<1>1. ASSUME NEW p \in Producers, NEW how \in {"wait", "twait"}, NEW v \in Values,
             push_call(p, how, v)
      PROVE  TypeOK'
  BY <1>0, <1>1 DEF push_call
<1>2. ASSUME NEW p \in Producers, sem_wait_nempty(p)
      PROVE  TypeOK'
  BY <1>0, <1>2 DEF sem_wait_nempty
<1>3. ASSUME NEW p \in Producers, push_timeout(p)
      PROVE  TypeOK'
  BY <1>0, <1>3 DEF push_timeout
<1>4. ASSUME NEW t \in Threads, sem_wait_mutex(t)
      PROVE  TypeOK'
  BY <1>0, <1>4 DEF sem_wait_mutex
<1>5. ASSUME NEW p \in Producers, circle_push(p)
      PROVE  TypeOK'
  <2>1. size < Max
    BY <1>5, ClaimsGood, AtLabel DEF circle_push
  <2>2. (wpos + 1) % Max \in Slots
    OBVIOUS
  <2>3. QED
    BY <1>0, <1>5, <2>1, <2>2 DEF circle_push
<1>6. ASSUME NEW t \in Threads, sem_post_mutex(t)
      PROVE  TypeOK'
  <2>1. mutex = 0
    BY <1>6 DEF sem_post_mutex, MutualExclusion, At
  <2>2. QED
    BY <1>0, <1>6, <2>1 DEF sem_post_mutex
<1>7. ASSUME NEW p \in Producers, sem_post_nstored(p)
      PROVE  TypeOK'
  <2>1. nstored < Max
    BY <1>7, ClaimsGood, AtLabel DEF sem_post_nstored
  <2>2. QED
    BY <1>0, <1>7, <2>1 DEF sem_post_nstored
<1>8. ASSUME NEW c \in Consumers, NEW how \in {"wait", "twait"}, pop_call(c, how)
      PROVE  TypeOK'
  BY <1>0, <1>8 DEF pop_call
<1>9. ASSUME NEW c \in Consumers, sem_wait_nstored(c)
      PROVE  TypeOK'
  BY <1>0, <1>9 DEF sem_wait_nstored
<1>10. ASSUME NEW c \in Consumers, pop_timeout(c)
       PROVE  TypeOK'
  BY <1>0, <1>10 DEF pop_timeout
<1>11. ASSUME NEW c \in Consumers, circle_pop(c)
       PROVE  TypeOK'
  <2>1. (rpos + 1) % Max \in Slots
    OBVIOUS
  <2>2. QED
    BY <1>0, <1>11, <2>1 DEF circle_pop
<1>12. ASSUME NEW c \in Consumers, sem_post_nempty(c)
       PROVE  TypeOK'
  <2>1. nempty < Max
    BY <1>12, ClaimsGood, AtLabel DEF sem_post_nempty
  <2>2. QED
    BY <1>0, <1>12, <2>1 DEF sem_post_nempty
<1>13. CASE UNCHANGED vars
  BY <1>13 DEF vars
<1>14. QED
  BY <1>0, <1>1, <1>2, <1>3, <1>4, <1>5, <1>6, <1>7, <1>8, <1>9, <1>10, <1>11, <1>12,
     <1>13 DEF Next, PushStep, PopStep

(* Only sem_wait_mutex enters the critical section, and only when mutex is *)
(* 1, that is when nobody is inside; only sem_post_mutex leaves it.        *)
LEMMA MutexStep ==
  ASSUME IndInv, [Next]_vars
  PROVE  MutualExclusion'
<1> DEFINE In == At(Threads, {"crit", "unlock"})
<1> USE DEF IndInv, TypeOK, MutualExclusion, Goto, ring, sems
<1>0. Producers \subseteq Threads /\ Consumers \subseteq Threads
  BY DEF Threads
<1>1. ASSUME NEW t \in Threads, NEW from, NEW to, Goto(t, from, to), UNCHANGED mutex,
             from \in {"crit", "unlock"} <=> to \in {"crit", "unlock"}
      PROVE  MutualExclusion'
  <2>1. In' = In
    BY <1>1 DEF At
  <2>2. QED
    BY <1>1, <2>1
<1>2. ASSUME NEW t \in Threads, sem_wait_mutex(t)
      PROVE  MutualExclusion'
  <2>1. In = {} /\ mutex = 1
    BY <1>2 DEF sem_wait_mutex
  <2>2. In' = {t}
    BY <1>2, <2>1 DEF sem_wait_mutex, At
  <2>3. QED
    BY <1>2, <2>1, <2>2 DEF sem_wait_mutex
<1>3. ASSUME NEW t \in Threads, sem_post_mutex(t)
      PROVE  MutualExclusion'
  <2>1. t \in In
    BY <1>3 DEF sem_post_mutex, At
  <2>2. In = {t} /\ mutex = 0
    BY <2>1
  <2>3. In' = {}
    BY <1>3, <2>2 DEF sem_post_mutex, At
  <2>4. QED
    BY <1>3, <2>2, <2>3 DEF sem_post_mutex
<1>4. CASE UNCHANGED vars
  BY <1>4 DEF vars, At
<1>5. ASSUME NEW p \in Producers, NEW how \in {"wait", "twait"}, NEW v \in Values,
             push_call(p, how, v)
      PROVE  MutualExclusion'
  BY <1>0, <1>1, <1>5 DEF push_call
<1>6. ASSUME NEW c \in Consumers, NEW how \in {"wait", "twait"}, pop_call(c, how)
      PROVE  MutualExclusion'
  BY <1>0, <1>1, <1>6 DEF pop_call
<1>7. ASSUME NEW p \in Producers,
             sem_wait_nempty(p) \/ push_timeout(p) \/ circle_push(p) \/ sem_post_nstored(p)
      PROVE  MutualExclusion'
  BY <1>0, <1>1, <1>7 DEF sem_wait_nempty, push_timeout, circle_push, sem_post_nstored
<1>8. ASSUME NEW c \in Consumers,
             sem_wait_nstored(c) \/ pop_timeout(c) \/ circle_pop(c) \/ sem_post_nempty(c)
      PROVE  MutualExclusion'
  BY <1>0, <1>1, <1>8 DEF sem_wait_nstored, pop_timeout, circle_pop, sem_post_nempty
<1>9. QED
  BY <1>0, <1>2, <1>3, <1>4, <1>5, <1>6, <1>7, <1>8 DEF Next, PushStep, PopStep

(* Each step moves one unit between a semaphore, the ring and the counts   *)
(* of the threads under way, so the two sums do not change.                *)
LEMMA CountStep ==
  ASSUME IndInv, [Next]_vars
  PROVE  SlotsAccounted'
<1> DEFINE pushing == Cardinality(PushClaimed)  stored == Cardinality(PushStored)
           popping == Cardinality(PopClaimed)   taken  == Cardinality(PopTaken)
<1> USE MaxAssumption DEF IndInv, ring, sems
<1>0. /\ pushing \in Nat /\ stored \in Nat /\ popping \in Nat /\ taken \in Nat
      /\ size \in Nat /\ nempty \in Nat /\ nstored \in Nat
  BY CountsFinite, FS_CardinalityType DEF TypeOK
<1>1. ASSUME NEW p \in Producers, NEW from, NEW to, Goto(p, from, to)
      PROVE  /\ pushing' = pushing + (IF to \in {"lock", "crit"} THEN 1 ELSE 0)
                                   - (IF from \in {"lock", "crit"} THEN 1 ELSE 0)
             /\ stored' = stored + (IF to \in {"unlock", "post"} THEN 1 ELSE 0)
                                 - (IF from \in {"unlock", "post"} THEN 1 ELSE 0)
             /\ popping' = popping
             /\ taken' = taken
  <2>1. /\ Cardinality(PushClaimed \cup {p}) = pushing + (IF p \in PushClaimed THEN 0 ELSE 1)
        /\ Cardinality(PushClaimed \ {p}) = pushing - (IF p \in PushClaimed THEN 1 ELSE 0)
    BY CountsFinite, CountOne
  <2>2. /\ Cardinality(PushStored \cup {p}) = stored + (IF p \in PushStored THEN 0 ELSE 1)
        /\ Cardinality(PushStored \ {p}) = stored - (IF p \in PushStored THEN 1 ELSE 0)
    BY CountsFinite, CountOne
  <2>3. pushing' = pushing + (IF to \in {"lock", "crit"} THEN 1 ELSE 0)
                      - (IF from \in {"lock", "crit"} THEN 1 ELSE 0)
    <3>1. PushClaimed' = IF to \in {"lock", "crit"} THEN PushClaimed \cup {p} ELSE PushClaimed \ {p}
      BY <1>1, ProducerMoves
    <3>2. p \in PushClaimed <=> from \in {"lock", "crit"}
      BY <1>1, ProducerMoves
    <3>3. CASE to \in {"lock", "crit"}
      BY <1>0, <2>1, <3>1, <3>2, <3>3
    <3>4. CASE to \notin {"lock", "crit"}
      BY <1>0, <2>1, <3>1, <3>2, <3>4
    <3>5. QED
      BY <3>3, <3>4
  <2>4. stored' = stored + (IF to \in {"unlock", "post"} THEN 1 ELSE 0)
                    - (IF from \in {"unlock", "post"} THEN 1 ELSE 0)
    <3>1. PushStored' = IF to \in {"unlock", "post"} THEN PushStored \cup {p} ELSE PushStored \ {p}
      BY <1>1, ProducerMoves
    <3>2. p \in PushStored <=> from \in {"unlock", "post"}
      BY <1>1, ProducerMoves
    <3>3. CASE to \in {"unlock", "post"}
      BY <1>0, <2>2, <3>1, <3>2, <3>3
    <3>4. CASE to \notin {"unlock", "post"}
      BY <1>0, <2>2, <3>1, <3>2, <3>4
    <3>5. QED
      BY <3>3, <3>4
  <2>5. QED
    BY <1>1, <2>3, <2>4, ProducerMoves
<1>2. ASSUME NEW c \in Consumers, NEW from, NEW to, Goto(c, from, to)
      PROVE  /\ popping' = popping + (IF to \in {"lock", "crit"} THEN 1 ELSE 0)
                                   - (IF from \in {"lock", "crit"} THEN 1 ELSE 0)
             /\ taken' = taken + (IF to \in {"unlock", "post"} THEN 1 ELSE 0)
                               - (IF from \in {"unlock", "post"} THEN 1 ELSE 0)
             /\ pushing' = pushing
             /\ stored' = stored
  <2>1. /\ Cardinality(PopClaimed \cup {c}) = popping + (IF c \in PopClaimed THEN 0 ELSE 1)
        /\ Cardinality(PopClaimed \ {c}) = popping - (IF c \in PopClaimed THEN 1 ELSE 0)
    BY CountsFinite, CountOne
  <2>2. /\ Cardinality(PopTaken \cup {c}) = taken + (IF c \in PopTaken THEN 0 ELSE 1)
        /\ Cardinality(PopTaken \ {c}) = taken - (IF c \in PopTaken THEN 1 ELSE 0)
    BY CountsFinite, CountOne
  <2>3. popping' = popping + (IF to \in {"lock", "crit"} THEN 1 ELSE 0)
                      - (IF from \in {"lock", "crit"} THEN 1 ELSE 0)
    <3>1. PopClaimed' = IF to \in {"lock", "crit"} THEN PopClaimed \cup {c} ELSE PopClaimed \ {c}
      BY <1>2, ConsumerMoves
    <3>2. c \in PopClaimed <=> from \in {"lock", "crit"}
      BY <1>2, ConsumerMoves
    <3>3. CASE to \in {"lock", "crit"}
      BY <1>0, <2>1, <3>1, <3>2, <3>3
    <3>4. CASE to \notin {"lock", "crit"}
      BY <1>0, <2>1, <3>1, <3>2, <3>4
    <3>5. QED
      BY <3>3, <3>4
  <2>4. taken' = taken + (IF to \in {"unlock", "post"} THEN 1 ELSE 0)
                    - (IF from \in {"unlock", "post"} THEN 1 ELSE 0)
    <3>1. PopTaken' = IF to \in {"unlock", "post"} THEN PopTaken \cup {c} ELSE PopTaken \ {c}
      BY <1>2, ConsumerMoves
    <3>2. c \in PopTaken <=> from \in {"unlock", "post"}
      BY <1>2, ConsumerMoves
    <3>3. CASE to \in {"unlock", "post"}
      BY <1>0, <2>2, <3>1, <3>2, <3>3
    <3>4. CASE to \notin {"unlock", "post"}
      BY <1>0, <2>2, <3>1, <3>2, <3>4
    <3>5. QED
      BY <3>3, <3>4
  <2>5. QED
    BY <1>2, <2>3, <2>4, ConsumerMoves
<1>3. ASSUME NEW p \in Producers, NEW how \in {"wait", "twait"}, NEW v \in Values,
             push_call(p, how, v)
      PROVE  SlotsAccounted'
  BY <1>0, <1>1, <1>3 DEF SlotsAccounted, push_call
<1>4. ASSUME NEW p \in Producers, sem_wait_nempty(p)
      PROVE  SlotsAccounted'
  BY <1>0, <1>1, <1>4 DEF SlotsAccounted, sem_wait_nempty
<1>5. ASSUME NEW p \in Producers, push_timeout(p)
      PROVE  SlotsAccounted'
  BY <1>0, <1>1, <1>5 DEF SlotsAccounted, push_timeout
<1>6. ASSUME NEW p \in Producers, sem_wait_mutex(p) \/ sem_post_mutex(p)
      PROVE  SlotsAccounted'
  BY <1>0, <1>1, <1>6 DEF SlotsAccounted, sem_wait_mutex, sem_post_mutex
<1>7. ASSUME NEW p \in Producers, circle_push(p)
      PROVE  SlotsAccounted'
  <2>1. size < Max
    BY <1>7, ClaimsGood, AtLabel DEF circle_push, Goto
  <2>2. QED
    BY <1>0, <1>1, <1>7, <2>1 DEF SlotsAccounted, circle_push
<1>8. ASSUME NEW p \in Producers, sem_post_nstored(p)
      PROVE  SlotsAccounted'
  BY <1>0, <1>1, <1>8 DEF SlotsAccounted, sem_post_nstored
<1>9. ASSUME NEW c \in Consumers, NEW how \in {"wait", "twait"}, pop_call(c, how)
      PROVE  SlotsAccounted'
  BY <1>0, <1>2, <1>9 DEF SlotsAccounted, pop_call
<1>10. ASSUME NEW c \in Consumers, sem_wait_nstored(c)
       PROVE  SlotsAccounted'
  BY <1>0, <1>2, <1>10 DEF SlotsAccounted, sem_wait_nstored
<1>11. ASSUME NEW c \in Consumers, pop_timeout(c)
       PROVE  SlotsAccounted'
  BY <1>0, <1>2, <1>11 DEF SlotsAccounted, pop_timeout
<1>12. ASSUME NEW c \in Consumers, sem_wait_mutex(c) \/ sem_post_mutex(c)
       PROVE  SlotsAccounted'
  BY <1>0, <1>2, <1>12 DEF SlotsAccounted, sem_wait_mutex, sem_post_mutex
<1>13. ASSUME NEW c \in Consumers, circle_pop(c)
       PROVE  SlotsAccounted'
  <2>1. size > 0
    BY <1>13, ClaimsGood, AtLabel DEF circle_pop, Goto
  <2>2. QED
    BY <1>0, <1>2, <1>13, <2>1 DEF SlotsAccounted, circle_pop
<1>14. ASSUME NEW c \in Consumers, sem_post_nempty(c)
       PROVE  SlotsAccounted'
  BY <1>0, <1>2, <1>14 DEF SlotsAccounted, sem_post_nempty
<1>15. CASE UNCHANGED vars
  BY <1>15 DEF vars, SlotsAccounted, PushClaimed, PushStored, PopClaimed, PopTaken, At
<1>16. QED
  BY <1>3, <1>4, <1>5, <1>6, <1>7, <1>8, <1>9, <1>10, <1>11, <1>12, <1>13, <1>14, <1>15
     DEF Next, PushStep, PopStep

(* The ring is changed only by circle_push and circle_pop.                 *)
LEMMA RingUntouched ==
  ASSUME [Next]_vars,
         \A p \in Producers : ~circle_push(p),
         \A c \in Consumers : ~circle_pop(c)
  PROVE  UNCHANGED ring
  BY DEF Next, PushStep, PopStep, vars, ring, sems, push_call, pop_call, sem_wait_nempty,
         sem_wait_nstored, push_timeout, pop_timeout, sem_wait_mutex, sem_post_mutex,
         sem_post_nstored, sem_post_nempty

(* A push fills the first slot after the stored ones, a pop empties the    *)
(* first stored one; neither touches another slot.                         *)
LEMMA RingStep ==
  ASSUME IndInv, [Next]_vars
  PROVE  RingShape'
<1> USE MaxAssumption, NullAssumption DEF IndInv, TypeOK, Slots
<1>1. ASSUME NEW p \in Producers, circle_push(p)
      PROVE  RingShape'
  <2>1. size < Max
    BY <1>1, ClaimsGood, AtLabel DEF circle_push, Goto
  <2> DEFINE pos == (rpos + size) % Max
  <2>2. (wpos + 1) % Max = pos /\ pos \in Slots
    BY DEF RingShape
  <2>3. /\ cirq' = [cirq EXCEPT ![pos] = val[p]]
        /\ wpos' = pos /\ rpos' = rpos /\ size' = size + 1
    BY <1>1, <2>1, <2>2 DEF circle_push
  <2>4. val[p] # NULL
    BY <1>1 DEF circle_push, Goto
  <2>5. (rpos' + size') % Max = (wpos' + 1) % Max
    <3>1. size \in Slots /\ rpos + size' = rpos + size + 1
      BY <2>1, <2>3
    <3>2. QED
      BY <2>3, <3>1, WrapStep
  <2>6. ASSUME NEW i \in Slots
        PROVE  cirq'[(rpos' + i) % Max] # NULL <=> i < size'
    <3>1. (rpos + i) % Max \in Slots
      OBVIOUS
    <3>2. CASE i = size
      BY <2>2, <2>3, <2>4, <3>2
    <3>3. CASE i # size
      <4>1. (rpos + i) % Max # pos
        <5>1. size \in Slots /\ i # size
          BY <2>1, <3>3
        <5> HIDE DEF Slots
        <5>2. QED
          BY <5>1, WrapApart
      <4>2. cirq'[(rpos' + i) % Max] = cirq[(rpos + i) % Max]
        BY <2>2, <2>3, <3>1, <4>1
      <4>3. i < size' <=> i < size
        BY <2>3, <3>3
      <4>4. QED
        BY <4>2, <4>3 DEF RingShape
    <3>4. QED
      BY <3>2, <3>3
  <2>7. QED
    BY <2>5, <2>6 DEF RingShape
<1>2. ASSUME NEW c \in Consumers, circle_pop(c)
      PROVE  RingShape'
  <2>1. size > 0
    BY <1>2, ClaimsGood, AtLabel DEF circle_pop, Goto
  <2>2. /\ cirq' = [cirq EXCEPT ![rpos] = NULL]
        /\ wpos' = wpos /\ rpos' = (rpos + 1) % Max /\ size' = size - 1
    BY <1>2, <2>1 DEF circle_pop
  <2>3. (rpos' + size') % Max = (rpos + size) % Max
    <3>1. size - 1 \in Slots /\ rpos + (size - 1) + 1 = rpos + size
      BY <2>1
    <3>2. QED
      BY <2>2, <3>1, WrapStep
  <2>4. (rpos' + size') % Max = (wpos' + 1) % Max
    BY <2>2, <2>3 DEF RingShape
  <2>5. ASSUME NEW i \in Slots
        PROVE  cirq'[(rpos' + i) % Max] # NULL <=> i < size'
    <3>1. CASE i = Max - 1
      <4>1. (rpos' + i) % Max = rpos
        <5>1. rpos + i + 1 = rpos + Max
          BY <3>1
        <5>2. (rpos' + i) % Max = (rpos + i + 1) % Max
          BY <2>2, WrapStep
        <5>3. (rpos + Max) % Max = rpos
          BY WrapRound
        <5>4. QED
          BY <5>1, <5>2, <5>3
      <4>2. QED
        BY <2>2, <3>1, <4>1
    <3>2. CASE i # Max - 1
      <4>1. i + 1 \in Slots
        BY <3>2
      <4>2. (rpos' + i) % Max = (rpos + (i + 1)) % Max
        <5>1. rpos + (i + 1) = rpos + i + 1
          OBVIOUS
        <5>2. QED
          BY <2>2, <5>1, WrapStep
      <4>3. (rpos + (i + 1)) % Max \in Slots /\ (rpos + (i + 1)) % Max # rpos
        <5>1. (rpos + (i + 1)) % Max # (rpos + 0) % Max
          <6>1. 0 \in Slots /\ i + 1 # 0
            OBVIOUS
          <6> HIDE DEF Slots
          <6>2. QED
            BY <4>1, <6>1, WrapApart
        <5>2. (rpos + 0) % Max = rpos
          BY WrapRound
        <5>3. QED
          BY <5>1, <5>2
      <4>4. cirq[(rpos + (i + 1)) % Max] # NULL <=> i + 1 < size
        BY <4>1 DEF RingShape
      <4>5. QED
        BY <2>1, <2>2, <4>2, <4>3, <4>4
    <3>3. QED
      BY <3>1, <3>2
  <2>6. QED
    BY <2>4, <2>5 DEF RingShape
<1>3. CASE /\ \A p \in Producers : ~circle_push(p)
           /\ \A c \in Consumers : ~circle_pop(c)
  BY <1>3, RingUntouched DEF RingShape, ring
<1>4. QED
  BY <1>1, <1>2, <1>3

(* The two tests inside the ring never fire, so their error results are    *)
(* never handed out.                                                       *)
LEMMA AdmittedStep ==
  ASSUME IndInv, [Next]_vars, TypeOK', SlotsAccounted'
  PROVE  AdmittedSucceeds'
<1> USE DEF IndInv
<1>1. (\A p \in Producers : pc[p] = "crit" => size < Max)'
  <2>1. (\A p \in PushClaimed : size < Max)'
    BY ClaimsGood, PTL
  <2>2. QED
    BY <2>1 DEF PushClaimed, At
<1>2. (\A c \in Consumers : pc[c] = "crit" => size > 0)'
  <2>1. (\A c \in PopClaimed : size > 0)'
    BY ClaimsGood, PTL
  <2>2. QED
    BY <2>1 DEF PopClaimed, At
<1>3. (\A p \in Producers : ret[p] # -1)'
  <2>1. ASSUME NEW p \in Producers, circle_push(p)
        PROVE  ret' = [ret EXCEPT ![p] = 0]
    BY <2>1, ClaimsGood, AtLabel, MaxAssumption DEF circle_push, Goto, TypeOK
  <2>2. ASSUME NEW p \in Producers, push_timeout(p)
        PROVE  ret' = [ret EXCEPT ![p] = 1]
    BY <2>2 DEF push_timeout
  <2>3. CASE \A p \in Producers : ~circle_push(p) /\ ~push_timeout(p)
    <3>1. UNCHANGED ret
      BY <2>3 DEF Next, PushStep, PopStep, vars, push_call, pop_call, sem_wait_nempty,
         sem_wait_nstored, pop_timeout, sem_wait_mutex, circle_pop, sem_post_mutex,
         sem_post_nstored, sem_post_nempty
    <3>2. QED
      BY <3>1 DEF AdmittedSucceeds
  <2>4. QED
    BY <2>1, <2>2, <2>3 DEF AdmittedSucceeds, TypeOK
<1>4. (\A c \in Consumers : pc[c] \in {"unlock", "post"} => val[c] \in Values)'
  <2>0. /\ \A p \in Producers : p \in Threads /\ p \notin Consumers
        /\ \A c \in Consumers : c \in Threads
    BY ThreadsAssumption DEF Threads
  <2> USE DEF TypeOK, AdmittedSucceeds, Goto
  <2>1. ASSUME NEW c \in Consumers, circle_pop(c)
        PROVE  val'[c] \in Values /\ \A d \in Consumers : d # c => val'[d] = val[d] /\ pc'[d] = pc[d]
    <3>1. size > 0
      BY <2>1, ClaimsGood, AtLabel DEF circle_pop
    <3>2. cirq[rpos] # NULL
      <4>1. 0 \in Slots /\ rpos + 0 = rpos
        BY MaxAssumption DEF Slots
      <4>2. cirq[(rpos + 0) % Max] # NULL
        BY <3>1, <4>1 DEF RingShape
      <4>3. QED
        BY <4>1, <4>2, WrapRound
    <3>3. cirq[rpos] \in Values
      BY <3>2
    <3>4. val' = [val EXCEPT ![c] = cirq[rpos]]
      BY <2>1, <3>1, MaxAssumption DEF circle_pop
    <3>5. QED
      BY <2>0, <2>1, <3>3, <3>4 DEF circle_pop
  <2>2. ASSUME NEW c \in Consumers, NEW how \in {"wait", "twait"}, pop_call(c, how)
        PROVE  (\A d \in Consumers : pc[d] \in {"unlock", "post"} => val[d] \in Values)'
    BY <2>0, <2>2 DEF pop_call
  <2>3. ASSUME NEW p \in Producers, NEW how \in {"wait", "twait"}, NEW v \in Values,
               push_call(p, how, v)
        PROVE  (\A d \in Consumers : pc[d] \in {"unlock", "post"} => val[d] \in Values)'
    BY <2>0, <2>3 DEF push_call
  <2>4. ASSUME NEW t \in Threads,
               \/ sem_wait_mutex(t) \/ sem_post_mutex(t) \/ sem_wait_nempty(t)
               \/ sem_wait_nstored(t) \/ push_timeout(t) \/ pop_timeout(t)
               \/ sem_post_nstored(t) \/ sem_post_nempty(t)
        PROVE  (\A d \in Consumers : pc[d] \in {"unlock", "post"} => val[d] \in Values)'
    BY <2>0, <2>4 DEF sem_wait_mutex, sem_post_mutex, sem_wait_nempty, sem_wait_nstored,
       push_timeout, pop_timeout, sem_post_nstored, sem_post_nempty
  <2>5. ASSUME NEW p \in Producers, circle_push(p)
        PROVE  (\A d \in Consumers : pc[d] \in {"unlock", "post"} => val[d] \in Values)'
    BY <2>0, <2>5 DEF circle_push
  <2>6. CASE UNCHANGED vars
    BY <2>6 DEF vars
  <2>7. QED
    BY <2>0, <2>1, <2>2, <2>3, <2>4, <2>5, <2>6 DEF Next, PushStep, PopStep
<1>5. QED
  BY <1>1, <1>2, <1>3, <1>4 DEF AdmittedSucceeds

(* The queue queue_init makes satisfies the inductive invariant.           *)
LEMMA InitHolds ==
  ASSUME Init
  PROVE  IndInv
<1> USE MaxAssumption, NullAssumption DEF Init, queue_init, Slots, Threads
<1>1. TypeOK
  BY DEF TypeOK, Labels
<1>2. MutualExclusion
  BY DEF MutualExclusion, At
<1>3. PushClaimed = {} /\ PushStored = {} /\ PopClaimed = {} /\ PopTaken = {}
  BY DEF PushClaimed, PushStored, PopClaimed, PopTaken, At
<1>4. SlotsAccounted
  BY <1>3, FS_EmptySet DEF SlotsAccounted
<1>5. AdmittedSucceeds
  BY DEF AdmittedSucceeds
<1>6. RingShape
  BY DEF RingShape
<1>7. QED
  BY <1>1, <1>2, <1>4, <1>5, <1>6 DEF IndInv

(* Every step of push and pop preserves it.                                *)
LEMMA IndInvStep == IndInv /\ [Next]_vars => IndInv'
  BY TypeStep, MutexStep, CountStep, AdmittedStep, RingStep DEF IndInv

--------------------------------------------------------------------------------
(* The invariant the whole proof rests on holds in every reachable state   *)
(* of queue.c.                                                             *)
THEOREM Inductive == Spec => []IndInv
  BY InitHolds, IndInvStep, PTL DEF Spec

(* Type correctness of the ring, the semaphores and the threads of         *)
(* queue.c, for every capacity and every finite set of threads.            *)
THEOREM TypeCorrect == Spec => []TypeOK
<1>1. IndInv => TypeOK
  BY DEF IndInv
<1>2. QED
  BY <1>1, Inductive, PTL

(* _circle_push and _circle_pop are never run by two threads at once.      *)
THEOREM RingIsExclusive == Spec => []MutualExclusion
<1>1. IndInv => MutualExclusion
  BY DEF IndInv
<1>2. QED
  BY <1>1, Inductive, PTL

(* The semaphores nempty and nstored account for every slot of the ring.   *)
THEOREM SlotsAlwaysAccounted == Spec => []SlotsAccounted
<1>1. IndInv => SlotsAccounted
  BY DEF IndInv
<1>2. QED
  BY <1>1, Inductive, PTL

(* queue_push never returns -1 and an admitted pop never returns NULL.     *)
THEOREM AdmittedAlwaysSucceeds == Spec => []AdmittedSucceeds
<1>1. IndInv => AdmittedSucceeds
  BY DEF IndInv
<1>2. QED
  BY <1>1, Inductive, PTL

(* The stored pointers are the size slots from rpos on, and only those.    *)
THEOREM RingKeepsShape == Spec => []RingShape
<1>1. IndInv => RingShape
  BY DEF IndInv
<1>2. QED
  BY <1>1, Inductive, PTL
================================================================================
