---------------------------- MODULE TLogRingProofs -----------------------------
(***************************************************************************)
(* The safety of the byte ring of useapp/tlog.c for any buffer of at least *)
(* two lines, any line length, any finite number of threads that log and   *)
(* any number of calls.                                                    *)
(*                                                                         *)
(* The argument.  Everything rests on where the data is.  The ring is in   *)
(* one of two shapes: not wrapped (ext_end is 0), the data in start .. end *)
(* - 1, or wrapped, the data in start .. ext_end - 1 followed by 0 .. end  *)
(* - 1; a wrapped ring is never filled up to start, except that it may     *)
(* wrap with start still at 0, and "end = start with ext_end set" can only *)
(* be that.  In either shape every other byte has been released            *)
(* (Contents), so a writer may use it.  What the worker has noted before   *)
(* it gave the mutex back (Snapshot) stays the beginning of the data,      *)
(* whatever the writers add, so the bytes it reads without the mutex are   *)
(* the next ones and what it releases is what it has output.  The counts   *)
(* (DropsCounted, waiters) move with the threads' labels.                  *)
(***************************************************************************)
EXTENDS TLogRing, FiniteSetTheorems, SequenceTheorems, TLAPS

(* The two shapes of the ring.                                             *)
Shape ==
  /\ ext_end = 0 => start <= end
  /\ ext_end > 0 => end < start \/ (end = 0 /\ start = 0)

(* The data: where its first part stops, and how long it is.               *)
Stop == IF ext_end = 0 THEN end ELSE ext_end
Held == IF ext_end = 0 THEN end - start ELSE (ext_end - start) + end

(* Whether position p is in the second part of wrapped data.               *)
Wrapped(p) == ext_end > 0 /\ p < end

(* Every byte that is held is where the worker will look for it, in the    *)
(* order it was accepted, and every other byte has been released.          *)
Contents ==
  /\ wr = rd + Held
  /\ \A p \in Pos :
       /\ start <= p /\ p < Stop => buff[p] = rd + 1 + p - start
       /\ Wrapped(p) => buff[p] = rd + 1 + (ext_end - start) + p
       /\ ~(start <= p /\ p < Stop) /\ ~Wrapped(p) => buff[p] <= rd

(* The worker holds a snapshot from next_log or wait_log to release.       *)
Noted == wpc \in {"output", "output_ext", "output_dropped", "release"}

(* A snapshot is the beginning of the data.                                *)
Snapshot ==
  Noted =>
    /\ log_extend > 0 => /\ ext_end = log_extend
                         /\ log_len = log_extend - start
                         /\ log_extlen = log_end /\ log_end <= end
    /\ log_extend = 0 => /\ start < log_end
                         /\ log_len = log_end - start
                         /\ log_extlen = 0 /\ log_end <= Stop
    /\ log_end <= BuffSize - MaxLine

(* What is output is what was released, and the parts of the snapshot the  *)
(* output function has been given.                                         *)
OutputLen ==
  Len(out) = rd + (IF wpc = "output_ext" THEN log_len
                   ELSE IF wpc \in {"output_dropped", "release"} THEN log_len + log_extlen
                   ELSE 0)

(* tlog_exit and the end of the worker.                                    *)
Ending ==
  /\ run <=> xpc = "no"
  /\ wpc = "done" => ~run

IndInv ==
  /\ TypeOK /\ Shape /\ Contents /\ Snapshot
  /\ OutputLen /\ OutputInOrder /\ DropsCounted /\ Ending /\ ExitFlushes

-----------------------------------------------------------------------------
(* The ring: what a writer, the snapshot and the release do to it.         *)

(* The types of the ring and of the snapshot.                              *)
RingType ==
  /\ buff \in [Pos -> Nat]
  /\ start \in 0 .. BuffSize - MaxLine
  /\ end \in 0 .. BuffSize - MaxLine
  /\ ext_end \in {0} \cup (BuffSize - MaxLine + 1 .. BuffSize - 1)
  /\ log_len \in 0 .. BuffSize - 1 /\ log_extlen \in Pos
  /\ log_end \in Pos /\ log_extend \in 0 .. BuffSize - 1
  /\ wr \in Nat /\ rd \in 0 .. wr

RingInv == RingType /\ Shape /\ Contents /\ Snapshot

(* There is room for a line only behind the data: up to the end of the     *)
(* buffer, or, when the ring is wrapped, up to start and not as far as it. *)
LEMMA RoomIsFree ==
  ASSUME RingInv, Fits, NEW len \in LineLen
  PROVE  /\ end + len <= BuffSize - 1
         /\ ext_end > 0 => end + len < start
         /\ \A p \in end .. end + len - 1 : p \in Pos /\ buff[p] <= rd
<1>1. /\ end + len <= BuffSize - 1
      /\ ext_end > 0 => end + len < start
  BY RingAssumption DEF RingInv, RingType, Shape, Fits, Room, LineLen
<1>2. ASSUME NEW p \in end .. end + len - 1
      PROVE  p \in Pos /\ buff[p] <= rd
  <2>1. p \in Pos
    BY <1>1, RingAssumption DEF RingInv, RingType, Pos, LineLen
  <2>2. ~(start <= p /\ p < Stop) /\ ~Wrapped(p)
    BY <1>1, RingAssumption DEF RingInv, RingType, Shape, Stop, Wrapped, LineLen
  <2>3. QED
    BY <2>1, <2>2 DEF RingInv, Contents
<1>3. QED
  BY <1>1, <1>2

(* A line is put behind the data: the shape, the contents and what the     *)
(* worker has noted survive, whether or not the ring wraps.                *)
LEMMA WriteKeeps ==
  ASSUME RingInv, Fits, NEW len \in LineLen,
         Write(len, end + len > BuffSize - MaxLine),
         UNCHANGED <<start, rd, wpc, snapshot>>
  PROVE  RingInv' /\ \A p \in Pos : buff'[p] # buff[p] => buff[p] <= rd
<1> DEFINE wraps == end + len > BuffSize - MaxLine
<1> USE RingAssumption
<1>1. /\ end + len <= BuffSize - 1
      /\ ext_end > 0 => end + len < start
      /\ \A p \in end .. end + len - 1 : p \in Pos /\ buff[p] <= rd
  BY RoomIsFree
<1>2. /\ buff' = [p \in Pos |-> IF p \in end .. end + len - 1 THEN wr + 1 + p - end ELSE buff[p]]
      /\ wr' = wr + len
      /\ wraps => ext_end' = end + len /\ end' = 0 /\ ext_end = 0
      /\ ~wraps => ext_end' = ext_end /\ end' = end + len
  BY <1>1 DEF Write, RingInv, RingType, LineLen
<1>3. \A p \in Pos : buff'[p] # buff[p] => buff[p] <= rd
  BY <1>1, <1>2
<1>4. RingType'
  <2>1. buff' \in [Pos -> Nat]
    BY <1>2 DEF RingInv, RingType, Pos, LineLen
  <2>2. QED
    BY <1>1, <1>2, <2>1 DEF RingInv, RingType, LineLen, snapshot, Pos
<1>5. Shape'
  BY <1>1, <1>2 DEF RingInv, RingType, Shape, LineLen
<1>6. Contents'
  <2>1. wr' = rd' + Held'
    BY <1>1, <1>2 DEF RingInv, RingType, Contents, Held, LineLen
  <2>2. ASSUME NEW p \in Pos
        PROVE  /\ (start <= p /\ p < Stop)' => buff'[p] = rd' + 1 + p - start'
               /\ Wrapped(p)' => buff'[p] = rd' + 1 + (ext_end' - start') + p
               /\ ~(start <= p /\ p < Stop)' /\ ~Wrapped(p)' => buff'[p] <= rd'
    <3>1. /\ buff'[p] = IF end <= p /\ p < end + len THEN wr + 1 + p - end ELSE buff[p]
          /\ p \in 0 .. BuffSize - 1
      BY <1>2 DEF Pos, RingInv, RingType, LineLen
    <3>2. wr = rd + Held
      BY DEF RingInv, Contents
    <3>3. /\ start <= p /\ p < Stop => buff[p] = rd + 1 + p - start
          /\ Wrapped(p) => buff[p] = rd + 1 + (ext_end - start) + p
          /\ ~(start <= p /\ p < Stop) /\ ~Wrapped(p) => buff[p] <= rd
      BY DEF RingInv, Contents
    <3>4. QED
      BY <1>1, <1>2, <3>1, <3>2, <3>3, SMTT(30)
      DEF RingInv, RingType, Shape, Held, Stop, Wrapped, LineLen, Pos
  <2>3. QED
    BY <2>1, <2>2 DEF Contents
<1>7. Snapshot'
  BY <1>1, <1>2 DEF RingInv, RingType, Shape, Snapshot, Noted, Stop, snapshot, LineLen, Pos
<1>8. QED
  BY <1>3, <1>4, <1>5, <1>6, <1>7 DEF RingInv

(* The worker notes what the ring holds.                                   *)
LEMMA SnapshotKeeps ==
  ASSUME RingInv, has_data, TakeSnapshot, UNCHANGED <<ring, wr, rd>>
  PROVE  RingInv'
<1> USE RingAssumption
<1>1. RingType' /\ Shape' /\ Contents'
  <2>1. RingType'
    BY DEF RingInv, RingType, Shape, has_data, TakeSnapshot, ring, Pos
  <2>2. Shape'
    BY DEF RingInv, Shape, ring
  <2>3. Contents'
    BY DEF RingInv, Contents, Held, Stop, Wrapped, ring
  <2>4. QED
    BY <2>1, <2>2, <2>3
<1>2. Snapshot'
  BY DEF RingInv, RingType, Shape, Snapshot, Stop, has_data, TakeSnapshot, ring
<1>3. QED
  BY <1>1, <1>2 DEF RingInv

(* What was noted is released: the data is now what the writers have added *)
(* since, and the bytes of the snapshot are free.                          *)
LEMMA ReleaseKeeps ==
  ASSUME RingInv, release
  PROVE  RingInv'
<1> USE RingAssumption
<1>1. /\ start' = log_end /\ ext_end' = (IF log_extend > 0 THEN 0 ELSE ext_end)
      /\ rd' = rd + log_len + log_extlen
      /\ buff' = buff /\ end' = end /\ wr' = wr /\ UNCHANGED snapshot
      /\ wpc = "release" /\ wpc' = "wakeup"
  BY DEF release, KeepsLogging, input
<1>2. /\ log_extend > 0 => /\ ext_end = log_extend
                           /\ log_len = log_extend - start
                           /\ log_extlen = log_end /\ log_end <= end
      /\ log_extend = 0 => /\ start < log_end
                           /\ log_len = log_end - start
                           /\ log_extlen = 0 /\ log_end <= Stop
      /\ log_end <= BuffSize - MaxLine
  BY <1>1 DEF RingInv, Snapshot, Noted
<1>3. wr' = rd' + Held'
  BY <1>1, <1>2 DEF RingInv, RingType, Contents, Held, Stop, Pos
<1>4. RingType'
  <2>1. Held' >= 0
    BY <1>1, <1>2 DEF RingInv, RingType, Shape, Held, Stop, Pos
  <2>2. QED
    BY <1>1, <1>2, <1>3, <2>1 DEF RingInv, RingType, snapshot, Pos, Held
<1>5. Shape'
  BY <1>1, <1>2 DEF RingInv, RingType, Shape, Stop, Pos
<1>6. Contents'
  <2>1. ASSUME NEW p \in Pos
        PROVE  /\ (start <= p /\ p < Stop)' => buff'[p] = rd' + 1 + p - start'
               /\ Wrapped(p)' => buff'[p] = rd' + 1 + (ext_end' - start') + p
               /\ ~(start <= p /\ p < Stop)' /\ ~Wrapped(p)' => buff'[p] <= rd'
    <3>1. /\ start <= p /\ p < Stop => buff[p] = rd + 1 + p - start
          /\ Wrapped(p) => buff[p] = rd + 1 + (ext_end - start) + p
          /\ ~(start <= p /\ p < Stop) /\ ~Wrapped(p) => buff[p] <= rd
      BY DEF RingInv, Contents
    <3>2. buff'[p] = buff[p] /\ buff[p] \in Nat /\ p \in 0 .. BuffSize - 1
      BY <1>1 DEF RingInv, RingType, Pos
    <3>3. QED
      BY <1>1, <1>2, <3>1, <3>2 DEF RingInv, RingType, Shape, Stop, Wrapped, Pos
  <2>2. QED
    BY <1>3, <2>1 DEF Contents
<1>7. Snapshot'
  BY <1>1 DEF Snapshot, Noted
<1>8. QED
  BY <1>4, <1>5, <1>6, <1>7 DEF RingInv

(* A step that touches neither the ring nor the snapshot.                  *)
LEMMA RingIdle ==
  ASSUME RingInv, UNCHANGED <<ring, wr, rd, snapshot>>, Noted' => Noted
  PROVE  RingInv'
<1>1. RingType' /\ Shape'
  BY DEF RingInv, RingType, Shape, ring, snapshot
<1>2. Contents'
  BY DEF RingInv, Contents, Held, Stop, Wrapped, ring
<1>3. Snapshot'
  BY DEF RingInv, Snapshot, Stop, ring, snapshot
<1>4. QED
  BY <1>1, <1>2, <1>3 DEF RingInv

(* The ring through every step of the logger; and no step changes a byte   *)
(* that is not released.                                                   *)
LEMMA RingStep ==
  ASSUME IndInv, [Next]_vars
  PROVE  RingInv' /\ \A p \in Pos : buff'[p] # buff[p] => buff[p] <= rd
<1>0. RingInv
  BY DEF IndInv, TypeOK, RingInv, RingType
<1>1. ASSUME UNCHANGED <<ring, wr, rd, snapshot>>, Noted' => Noted
      PROVE  RingInv' /\ \A p \in Pos : buff'[p] # buff[p] => buff[p] <= rd
  BY <1>0, <1>1, RingIdle DEF ring
<1>2. ASSUME has_data, TakeSnapshot, UNCHANGED <<ring, wr, rd>>
      PROVE  RingInv' /\ \A p \in Pos : buff'[p] # buff[p] => buff[p] <= rd
  BY <1>0, <1>2, SnapshotKeeps DEF ring
<1>3. CASE work_top
  BY <1>1, <1>3 DEF work_top, KeepsLogging, input, Noted
<1>4. CASE next_log
  <2>1. UNCHANGED <<ring, wr, rd>>
    BY <1>4 DEF next_log, KeepsLogging, input
  <2>2. \/ has_data /\ TakeSnapshot
        \/ UNCHANGED snapshot /\ wpc' \in {"top", "wait"}
    BY <1>4 DEF next_log, Take
  <2>3. QED
    BY <1>1, <1>2, <2>1, <2>2 DEF Noted
<1>5. CASE wait_log
  <2>1. UNCHANGED <<ring, wr, rd>>
    BY <1>5 DEF wait_log, KeepsLogging, input
  <2>2. \/ has_data /\ TakeSnapshot
        \/ UNCHANGED snapshot /\ wpc' = "top"
    BY <1>5 DEF wait_log, Take
  <2>3. QED
    BY <1>1, <1>2, <2>1, <2>2 DEF Noted
<1>6. CASE output_part \/ output_ext_part \/ output_dropped
  BY <1>1, <1>6 DEF output_part, output_ext_part, Outputs, output_dropped, KeepsLogging, input,
                    Noted
<1>7. CASE release
  <2>1. buff' = buff
    BY <1>7 DEF release
  <2>2. QED
    BY <1>0, <1>7, <2>1, ReleaseKeeps
<1>8. CASE wakeup_waiters
  BY <1>1, <1>8 DEF wakeup_waiters, input, Noted
<1>9. ASSUME NEW w \in Writers, write_line(w)
      PROVE  RingInv' /\ \A p \in Pos : buff'[p] # buff[p] => buff[p] <= rd
  <2>1. /\ Fits /\ UNCHANGED <<start, rd, wpc, snapshot>>
        /\ \E len \in LineLen : Write(len, end + len > BuffSize - MaxLine)
    BY <1>9 DEF write_line, worker
  <2>2. QED
    BY <1>0, <2>1, WriteKeeps
<1>10. ASSUME NEW w \in Writers,
              vprintf(w) \/ no_room(w) \/ cond_wait(w) \/ leave_wait(w) \/ spurious_wakeup(w)
       PROVE  RingInv' /\ \A p \in Pos : buff'[p] # buff[p] => buff[p] <= rd
  BY <1>1, <1>10 DEF vprintf, no_room, cond_wait, leave_wait, spurious_wakeup, worker, input, Noted
<1>11. CASE exit_stop \/ exit_close
  BY <1>1, <1>11 DEF exit_stop, exit_close, worker, input, Noted
<1>12. CASE UNCHANGED vars
  BY <1>1, <1>12 DEF vars, worker, input, Noted
<1>13. QED
  BY <1>3, <1>4, <1>5, <1>6, <1>7, <1>8, <1>9, <1>10, <1>11, <1>12
  DEF Next, WorkerStep, CallStep

-----------------------------------------------------------------------------
(* The output.                                                             *)

(* The next n numbers behind the first numbers are the first numbers.      *)
LEMMA CountOn ==
  ASSUME NEW s \in Seq(Nat), s = [i \in 1 .. Len(s) |-> i], NEW n \in Nat,
         NEW t, t = [i \in 1 .. n |-> Len(s) + i]
  PROVE  /\ s \o t \in Seq(Nat)
         /\ Len(s \o t) = Len(s) + n
         /\ s \o t = [i \in 1 .. Len(s \o t) |-> i]
<1>1. Len(s) \in Nat
  BY LenProperties
<1>2. t \in Seq(Nat) /\ Len(t) = n
  <2>1. \A i \in 1 .. n : Len(s) + i \in Nat
    BY <1>1
  <2>2. QED
    BY <2>1, IsASeq, LenProperties
<1>3. /\ s \o t \in Seq(Nat) /\ Len(s \o t) = Len(s) + n
      /\ \A i \in 1 .. Len(s) + n : (s \o t)[i] = IF i <= Len(s) THEN s[i] ELSE t[i - Len(s)]
  BY <1>2, ConcatProperties
<1>4. \A i \in 1 .. Len(s) + n : (s \o t)[i] = i
  BY <1>1, <1>3
<1>5. s \o t = [i \in 1 .. Len(s) + n |-> (s \o t)[i]]
  BY <1>3, LenProperties
<1>6. QED
  BY <1>3, <1>4, <1>5

OutputInv == out \in Seq(Nat) /\ OutputLen /\ OutputInOrder

(* The two parts of the snapshot, as the output function reads them from   *)
(* the ring without the mutex, are the bytes that come next.               *)
LEMMA OutputStep ==
  ASSUME IndInv, [Next]_vars
  PROVE  OutputInv'
<1>0. OutputInv /\ RingType
  BY DEF IndInv, TypeOK, OutputInv, RingType
<1>1. ASSUME UNCHANGED <<out, rd, log_len, log_extlen>>,
             wpc' = wpc \/ {wpc, wpc'} \subseteq {"top", "lock", "wait", "output", "wakeup", "done"}
                        \/ {wpc, wpc'} \subseteq {"output_dropped", "release"}
      PROVE  OutputInv'
  BY <1>0, <1>1 DEF OutputInv, OutputLen, OutputInOrder
<1>2. ASSUME UNCHANGED <<out, rd>>, {wpc, wpc'} \subseteq {"top", "lock", "wait", "output"}
      PROVE  OutputInv'
  BY <1>0, <1>2 DEF OutputInv, OutputLen, OutputInOrder
<1>3. CASE output_part
  <2>1. /\ wpc = "output" /\ wpc' = "output_ext" /\ out' = out \o Bytes(start, log_len)
        /\ UNCHANGED <<rd, log_len>>
    BY <1>3 DEF output_part, Outputs, snapshot
  <2>2. Len(out) = rd
    BY <1>0, <2>1 DEF OutputInv, OutputLen, RingType
  <2>3. Bytes(start, log_len) = [i \in 1 .. log_len |-> Len(out) + i]
    <3>1. log_len <= Stop - start
      BY <1>0, <2>1 DEF IndInv, Snapshot, Noted, Stop, RingType, Pos
    <3>2. ASSUME NEW i \in 1 .. log_len
          PROVE  buff[start + i - 1] = Len(out) + i
      <4>1. start + i - 1 \in Pos /\ start <= start + i - 1 /\ start + i - 1 < Stop
        BY <1>0, <3>1, RingAssumption DEF RingType, Stop, Pos
      <4>2. buff[start + i - 1] = rd + 1 + (start + i - 1) - start
        BY <4>1 DEF IndInv, Contents
      <4>3. QED
        BY <1>0, <2>2, <4>2 DEF RingType
    <3>3. QED
      BY <3>2 DEF Bytes
  <2>4. /\ out' \in Seq(Nat) /\ Len(out') = Len(out) + log_len
        /\ out' = [i \in 1 .. Len(out') |-> i]
    BY <1>0, <2>1, <2>3, CountOn DEF OutputInv, OutputInOrder, RingType
  <2>5. QED
    BY <2>1, <2>2, <2>4 DEF OutputInv, OutputLen, OutputInOrder
<1>4. CASE output_ext_part
  <2>1. /\ wpc = "output_ext" /\ wpc' = "output_dropped" /\ out' = out \o Bytes(0, log_extlen)
        /\ UNCHANGED <<rd, log_len, log_extlen>>
    BY <1>4 DEF output_ext_part, Outputs, snapshot
  <2>2. Len(out) = rd + log_len
    BY <1>0, <2>1 DEF OutputInv, OutputLen, RingType
  <2>3. Bytes(0, log_extlen) = [i \in 1 .. log_extlen |-> Len(out) + i]
    <3>1. \/ log_extlen = 0
          \/ ext_end > 0 /\ log_extlen <= end /\ log_len = ext_end - start
      BY <1>0, <2>1 DEF IndInv, Snapshot, Noted, RingType, Pos
    <3>2. ASSUME NEW i \in 1 .. log_extlen
          PROVE  buff[0 + i - 1] = Len(out) + i
      <4>1. i - 1 \in Pos /\ Wrapped(i - 1)
        BY <1>0, <3>1, RingAssumption DEF RingType, Wrapped, Pos
      <4>2. buff[i - 1] = rd + 1 + (ext_end - start) + (i - 1)
        BY <4>1 DEF IndInv, Contents
      <4>3. QED
        BY <1>0, <2>2, <3>1, <4>2 DEF RingType, Pos
    <3>3. QED
      BY <3>2 DEF Bytes
  <2>4. /\ out' \in Seq(Nat) /\ Len(out') = Len(out) + log_extlen
        /\ out' = [i \in 1 .. Len(out') |-> i]
    <3>1. log_extlen \in Nat
      BY <1>0 DEF RingType, Pos
    <3>2. QED
      BY <1>0, <2>1, <2>3, <3>1, CountOn DEF OutputInv, OutputInOrder
  <2>5. QED
    BY <1>0, <2>1, <2>2, <2>4 DEF OutputInv, OutputLen, OutputInOrder, RingType, Pos
<1>5. CASE release
  BY <1>0, <1>5 DEF release, output, snapshot, OutputInv, OutputLen, OutputInOrder, RingType, Pos
<1>6. CASE work_top \/ output_dropped \/ wakeup_waiters
  BY <1>1, <1>6 DEF work_top, output_dropped, wakeup_waiters, snapshot, output
<1>7. CASE next_log \/ wait_log
  BY <1>2, <1>7 DEF next_log, wait_log, Take, output
<1>8. ASSUME NEW w \in Writers,
             vprintf(w) \/ CallStep(w) \/ spurious_wakeup(w)
      PROVE  OutputInv'
  BY <1>1, <1>8 DEF vprintf, CallStep, write_line, no_room, cond_wait, leave_wait,
                    spurious_wakeup, worker, snapshot, output
<1>9. CASE exit_stop \/ exit_close \/ UNCHANGED vars
  BY <1>1, <1>9 DEF exit_stop, exit_close, vars, worker, snapshot, output
<1>10. QED
  BY <1>3, <1>4, <1>5, <1>6, <1>7, <1>8, <1>9 DEF Next, WorkerStep

-----------------------------------------------------------------------------
(* Counting the threads.                                                   *)

(* The threads whose call is at one of the labels.                         *)
At(labels) == {w \in Writers : pc[w] \in labels}

Busy  == {"print", "unlocked", "waiting", "woken"}
Asleep == {"waiting", "woken"}

(* They can be counted, before a step and after it.                        *)
LEMMA CountIsNat ==
  ASSUME NEW labels
  PROVE  /\ IsFiniteSet(At(labels)) /\ Cardinality(At(labels)) \in Nat
         /\ Cardinality(At(labels)') \in Nat
<1>1. At(labels) \subseteq Writers /\ At(labels)' \subseteq Writers
  BY DEF At
<1>2. QED
  BY <1>1, FS_Subset, FS_CardinalityType, RingAssumption

(* How many there are follows a thread from one label to another.          *)
LEMMA ThreadMoves ==
  ASSUME NEW labels, NEW w \in Writers, NEW to, pc' = [pc EXCEPT ![w] = to],
         DOMAIN pc = Writers
  PROVE  Cardinality(At(labels)') = Cardinality(At(labels))
                                    + (IF to \in labels THEN 1 ELSE 0)
                                    - (IF pc[w] \in labels THEN 1 ELSE 0)
<1>1. IsFiniteSet(At(labels)) /\ Cardinality(At(labels)) \in Nat
  BY CountIsNat
<1>2. w \in At(labels) <=> pc[w] \in labels
  BY DEF At
<1>3. \A v \in Writers : pc'[v] = IF v = w THEN to ELSE pc[v]
  OBVIOUS
<1>4. CASE to \in labels
  <2>1. At(labels)' = At(labels) \cup {w}
    BY <1>3, <1>4, Zenon DEF At
  <2>2. Cardinality(At(labels) \cup {w}) =
          IF w \in At(labels) THEN Cardinality(At(labels)) ELSE Cardinality(At(labels)) + 1
    BY <1>1, FS_AddElement
  <2>3. QED
    BY <1>1, <1>2, <1>4, <2>1, <2>2
<1>5. CASE to \notin labels
  <2>1. At(labels)' = At(labels) \ {w}
    BY <1>3, <1>5, Zenon DEF At
  <2>2. Cardinality(At(labels) \ {w}) =
          IF w \in At(labels) THEN Cardinality(At(labels)) - 1 ELSE Cardinality(At(labels))
    BY <1>1, FS_RemoveElement
  <2>3. QED
    BY <1>1, <1>2, <1>5, <2>1, <2>2
<1>6. QED
  BY <1>4, <1>5

(* Drops: counted by the writers, taken along by the worker, reported.     *)
Carried == IF wpc \in {"output", "output_ext", "output_dropped"} THEN log_dropped ELSE 0
Drops   == dropped + (reported + Carried)

(* The counters of the logger and what they count.                         *)
CountType ==
  /\ dropped \in Nat /\ log_dropped \in Nat /\ reported \in Nat
  /\ pc \in [Writers -> {"idle"} \cup Busy]
  /\ calls \in 0 .. Calls /\ lines \in Nat

CountInv ==
  /\ CountType
  /\ waiters = Cardinality(At(Asleep))
  /\ calls = lines + Cardinality(At(Busy)) + Drops

(* CountInv says what TypeOK and DropsCounted say of the counters.         *)
LEMMA CountInvEq ==
  /\ IndInv => CountInv
  /\ CountInv => /\ lines \in 0 .. Calls
                 /\ waiters = Cardinality({w \in Writers : pc[w] \in {"waiting", "woken"}})
                 /\ pc \in [Writers -> {"idle", "print", "unlocked", "waiting", "woken"}]
                 /\ DropsCounted
<1>1. ASSUME pc \in [Writers -> {"idle"} \cup Busy]
      PROVE  {w \in Writers : pc[w] # "idle"} = At(Busy)
  BY <1>1 DEF At, Busy
<1>2. {w \in Writers : pc[w] \in {"waiting", "woken"}} = At(Asleep)
  BY DEF At, Asleep
<1>3. {"idle"} \cup Busy = {"idle", "print", "unlocked", "waiting", "woken"}
  BY DEF Busy
<1>4. Cardinality(At(Busy)) \in Nat
  BY CountIsNat
<1>5. ASSUME CountType
      PROVE  DropsCounted <=> calls = lines + Cardinality(At(Busy)) + Drops
  <2>1. lines \in Nat /\ dropped \in Nat /\ reported \in Nat /\ Carried \in Nat
    BY <1>5 DEF CountType, Carried
  <2>2. DropsCounted <=> calls = lines + Cardinality(At(Busy)) + dropped + reported + Carried
    BY <1>1, <1>5, Zenon DEF CountType, DropsCounted, Carried
  <2>3. QED
    BY <1>4, <2>1, <2>2 DEF Drops
<1>6. IndInv => CountInv
  <2>1. ASSUME IndInv
        PROVE  /\ CountType /\ DropsCounted
               /\ waiters = Cardinality({w \in Writers : pc[w] \in {"waiting", "woken"}})
    BY <1>3, <2>1 DEF IndInv, TypeOK, CountType
  <2>2. QED
    BY <1>2, <1>5, <2>1 DEF CountInv
<1>7. CountInv => lines \in 0 .. Calls
  BY <1>4, RingAssumption DEF CountInv, CountType, Drops, Carried
<1>8. QED
  BY <1>2, <1>3, <1>5, <1>6, <1>7 DEF CountInv, CountType

(* What a label adds to the two counts.                                    *)
InCall(label) == IF label = "idle" THEN 0 ELSE 1
InWait(label) == IF label \in {"waiting", "woken"} THEN 1 ELSE 0

(* What a step of one thread does to the counts.                           *)
LEMMA CallMoves ==
  ASSUME CountInv, NEW w \in Writers, NEW to \in {"idle"} \cup Busy,
         pc' = [pc EXCEPT ![w] = to]
  PROVE  /\ pc' \in [Writers -> {"idle"} \cup Busy]
         /\ Cardinality(At(Busy)') = Cardinality(At(Busy)) + InCall(to) - InCall(pc[w])
         /\ Cardinality(At(Asleep)') = Cardinality(At(Asleep)) + InWait(to) - InWait(pc[w])
<1>1. DOMAIN pc = Writers /\ pc[w] \in {"idle"} \cup Busy
  BY DEF CountInv, CountType
<1>2. pc' \in [Writers -> {"idle"} \cup Busy]
  BY DEF CountInv, CountType
<1>3. Cardinality(At(Busy)') = Cardinality(At(Busy)) + (IF to \in Busy THEN 1 ELSE 0)
                               - (IF pc[w] \in Busy THEN 1 ELSE 0)
  BY <1>1, ThreadMoves
<1>4. Cardinality(At(Asleep)') = Cardinality(At(Asleep)) + (IF to \in Asleep THEN 1 ELSE 0)
                                 - (IF pc[w] \in Asleep THEN 1 ELSE 0)
  BY <1>1, ThreadMoves
<1>5. (to \in Busy <=> to # "idle") /\ (pc[w] \in Busy <=> pc[w] # "idle")
  BY <1>1 DEF Busy
<1>6. QED
  BY <1>2, <1>3, <1>4, <1>5 DEF Asleep, InCall, InWait

(* A step that leaves every thread where it is and every drop counted.     *)
LEMMA CountIdle ==
  ASSUME CountInv, UNCHANGED <<pc, waiters, calls, lines>>,
         dropped' \in Nat, log_dropped' \in Nat, reported' \in Nat, Drops' = Drops
  PROVE  CountInv'
<1>1. At(Busy)' = At(Busy) /\ At(Asleep)' = At(Asleep)
  BY DEF At
<1>2. CountType'
  BY DEF CountInv, CountType
<1>3. QED
  BY <1>1, <1>2 DEF CountInv

(* The counters move as a thread does that goes to label to.               *)
Balanced(w, to) ==
  /\ calls' \in 0 .. Calls /\ lines' \in Nat /\ dropped' \in Nat
  /\ waiters' = waiters + InWait(to) - InWait(pc[w])
  /\ calls' - calls = (lines' - lines) + (dropped' - dropped) + InCall(to) - InCall(pc[w])

(* A step of one thread that adds up.                                      *)
LEMMA CountCall ==
  ASSUME CountInv, NEW w \in Writers, NEW to \in {"idle"} \cup Busy,
         pc' = [pc EXCEPT ![w] = to], UNCHANGED <<log_dropped, reported, wpc>>,
         Balanced(w, to)
  PROVE  CountInv'
<1>1. /\ pc' \in [Writers -> {"idle"} \cup Busy]
      /\ Cardinality(At(Busy)') = Cardinality(At(Busy)) + InCall(to) - InCall(pc[w])
      /\ Cardinality(At(Asleep)') = Cardinality(At(Asleep)) + InWait(to) - InWait(pc[w])
  BY CallMoves
<1>2. CountType' /\ waiters' = Cardinality(At(Asleep)')
  BY <1>1 DEF CountInv, CountType, Balanced
<1>3. calls' = lines' + Cardinality(At(Busy)') + Drops'
  <2>1. Cardinality(At(Busy)) \in Nat
    BY CountIsNat
  <2>2. /\ calls = lines + Cardinality(At(Busy)) + Drops
        /\ calls \in Nat /\ lines \in Nat /\ dropped \in Nat
    BY DEF CountInv, CountType
  <2>3. reported + Carried \in Nat /\ Drops' = dropped' + (reported + Carried)
    BY DEF CountInv, CountType, Drops, Carried
  <2>4. Drops \in Nat /\ Drops' = Drops + (dropped' - dropped)
    BY <2>2, <2>3 DEF Drops, Balanced
  <2>5. QED
    BY <1>1, <2>1, <2>2, <2>4 DEF InCall, Balanced
<1>4. QED
  BY <1>2, <1>3 DEF CountInv

(* No call leaves the counts: a thread that finds no room either waits, or *)
(* is counted, and the worker carries the count it takes to its report.    *)
LEMMA CountStep ==
  ASSUME IndInv, [Next]_vars
  PROVE  CountInv'
<1>0. CountInv
  BY CountInvEq
<1>1. CountType /\ {"idle", "print", "unlocked", "waiting", "woken"} = {"idle"} \cup Busy
  BY <1>0 DEF CountInv, Busy
<1>2. ASSUME UNCHANGED <<pc, waiters, calls, lines, dropped, log_dropped, reported>>,
             Carried' = Carried
      PROVE  CountInv'
  BY <1>0, <1>1, <1>2, CountIdle DEF CountType, Drops
<1>3. CASE work_top \/ release
  BY <1>2, <1>3 DEF work_top, release, KeepsLogging, input, output, snapshot, Carried
<1>4. CASE next_log \/ wait_log
  <2>1. UNCHANGED <<pc, waiters, calls, lines, reported>> /\ Carried = 0
    BY <1>4 DEF next_log, wait_log, KeepsLogging, input, output, Carried
  <2>2. \/ UNCHANGED <<dropped, log_dropped>> /\ wpc' \in {"top", "wait"}
        \/ dropped' = 0 /\ log_dropped' = dropped /\ wpc' = "output"
    BY <1>4 DEF next_log, wait_log, Take, TakeSnapshot, snapshot
  <2>3. Drops' = Drops /\ dropped' \in Nat /\ log_dropped' \in Nat /\ reported' \in Nat
    BY <1>1, <2>1, <2>2 DEF CountType, Drops, Carried
  <2>4. QED
    BY <1>0, <2>1, <2>3, CountIdle
<1>5. CASE output_part \/ output_ext_part
  BY <1>2, <1>5 DEF output_part, output_ext_part, Outputs, KeepsLogging, input, snapshot, Carried
<1>6. CASE output_dropped
  <2>1. /\ UNCHANGED <<pc, waiters, calls, lines, dropped, log_dropped>>
        /\ reported' = reported + log_dropped /\ Carried = log_dropped /\ Carried' = 0
    BY <1>6 DEF output_dropped, KeepsLogging, input, snapshot, Carried
  <2>2. Drops' = Drops /\ dropped' \in Nat /\ log_dropped' \in Nat /\ reported' \in Nat
    BY <1>1, <2>1 DEF CountType, Drops
  <2>3. QED
    BY <1>0, <2>1, <2>2, CountIdle
<1>7. CASE wakeup_waiters
  <2>1. /\ UNCHANGED <<waiters, calls, lines, dropped, log_dropped, reported>> /\ Carried' = Carried
        /\ \/ pc' = [w \in Writers |-> IF pc[w] = "waiting" THEN "woken" ELSE pc[w]]
           \/ pc' = pc
    BY <1>7 DEF wakeup_waiters, input, output, snapshot, Carried
  <2>2. pc' \in [Writers -> {"idle"} \cup Busy]
    BY <1>1, <2>1 DEF CountType, Busy
  <2>3. At(Busy)' = At(Busy) /\ At(Asleep)' = At(Asleep)
    BY <1>1, <2>1 DEF CountType, At, Busy, Asleep
  <2>4. QED
    BY <1>0, <2>1, <2>2, <2>3 DEF CountInv, CountType, Drops
<1>14. /\ InCall("idle") = 0 /\ InCall("print") = 1 /\ InCall("unlocked") = 1
       /\ InCall("waiting") = 1 /\ InCall("woken") = 1
       /\ InWait("idle") = 0 /\ InWait("print") = 0 /\ InWait("unlocked") = 0
       /\ InWait("waiting") = 1 /\ InWait("woken") = 1
  BY DEF InCall, InWait
<1>8. ASSUME NEW w \in Writers, vprintf(w)
      PROVE  CountInv'
  <2>1. /\ pc[w] = "idle" /\ calls < Calls /\ calls' = calls + 1
        /\ UNCHANGED <<waiters, lines, log_dropped, reported, wpc>>
        /\ \/ pc' = [pc EXCEPT ![w] = "print"] /\ dropped' = dropped
           \/ pc' = [pc EXCEPT ![w] = "idle"] /\ dropped' = dropped + 1
    BY <1>1, <1>8 DEF vprintf, worker, snapshot, output, CountType
  <2>2. waiters \in Nat
    BY <1>0, CountIsNat DEF CountInv
  <2>3. CASE pc' = [pc EXCEPT ![w] = "print"] /\ dropped' = dropped
    <3>1. Balanced(w, "print") /\ "print" \in {"idle"} \cup Busy
      BY <1>1, <1>14, <2>1, <2>2, <2>3, RingAssumption DEF Balanced, CountType
    <3>2. QED
      BY <1>0, <2>1, <2>3, <3>1, CountCall
  <2>4. CASE pc' = [pc EXCEPT ![w] = "idle"] /\ dropped' = dropped + 1
    <3>1. Balanced(w, "idle") /\ "idle" \in {"idle"} \cup Busy
      BY <1>1, <1>14, <2>1, <2>2, <2>4, RingAssumption DEF Balanced, CountType
    <3>2. QED
      BY <1>0, <2>1, <2>4, <3>1, CountCall
  <2>5. QED
    BY <2>1, <2>3, <2>4
<1>9. ASSUME NEW w \in Writers, write_line(w)
      PROVE  CountInv'
  <2>1. /\ pc[w] = "print" /\ pc' = [pc EXCEPT ![w] = "idle"] /\ lines' = lines + 1
        /\ UNCHANGED <<waiters, calls, dropped, log_dropped, reported, wpc>>
    BY <1>9 DEF write_line, worker, snapshot, output
  <2>2. waiters \in Nat
    BY <1>0, CountIsNat DEF CountInv
  <2>3. Balanced(w, "idle") /\ "idle" \in {"idle"} \cup Busy
    BY <1>1, <1>14, <2>1, <2>2 DEF Balanced, CountType
  <2>4. QED
    BY <1>0, <2>1, <2>3, CountCall
<1>10. ASSUME NEW w \in Writers, no_room(w)
       PROVE  CountInv'
  <2>1. /\ pc[w] = "print"
        /\ UNCHANGED <<waiters, calls, lines, log_dropped, reported, wpc>>
        /\ \/ pc' = [pc EXCEPT ![w] = "unlocked"] /\ dropped' = dropped
           \/ pc' = [pc EXCEPT ![w] = "idle"] /\ dropped' = dropped + 1
    BY <1>10 DEF no_room, worker, snapshot, input, output
  <2>2. waiters \in Nat
    BY <1>0, CountIsNat DEF CountInv
  <2>3. CASE pc' = [pc EXCEPT ![w] = "unlocked"] /\ dropped' = dropped
    <3>1. Balanced(w, "unlocked") /\ "unlocked" \in {"idle"} \cup Busy
      BY <1>1, <1>14, <2>1, <2>2, <2>3 DEF Balanced, CountType
    <3>2. QED
      BY <1>0, <2>1, <2>3, <3>1, CountCall
  <2>4. CASE pc' = [pc EXCEPT ![w] = "idle"] /\ dropped' = dropped + 1
    <3>1. Balanced(w, "idle") /\ "idle" \in {"idle"} \cup Busy
      BY <1>1, <1>14, <2>1, <2>2, <2>4 DEF Balanced, CountType
    <3>2. QED
      BY <1>0, <2>1, <2>4, <3>1, CountCall
  <2>5. QED
    BY <2>1, <2>3, <2>4
<1>11. ASSUME NEW w \in Writers, cond_wait(w) \/ leave_wait(w) \/ spurious_wakeup(w)
       PROVE  CountInv'
  <2>1. UNCHANGED <<calls, lines, dropped, log_dropped, reported, wpc>>
    BY <1>11 DEF cond_wait, leave_wait, spurious_wakeup, worker, snapshot, input, output
  <2>2. waiters \in Nat
    BY <1>0, CountIsNat DEF CountInv
  <2>3. CASE cond_wait(w)
    <3>1. Balanced(w, "waiting") /\ "waiting" \in {"idle"} \cup Busy
      BY <1>1, <1>14, <2>1, <2>2, <2>3 DEF Balanced, CountType, cond_wait
    <3>2. QED
      BY <1>0, <2>1, <2>3, <3>1, CountCall DEF cond_wait
  <2>4. CASE leave_wait(w)
    <3>1. Balanced(w, "print") /\ "print" \in {"idle"} \cup Busy
      BY <1>1, <1>14, <2>1, <2>2, <2>4 DEF Balanced, CountType, leave_wait
    <3>2. QED
      BY <1>0, <2>1, <2>4, <3>1, CountCall DEF leave_wait
  <2>5. CASE spurious_wakeup(w)
    <3>1. Balanced(w, "woken") /\ "woken" \in {"idle"} \cup Busy
      BY <1>1, <1>14, <2>1, <2>2, <2>5 DEF Balanced, CountType, spurious_wakeup
    <3>2. QED
      BY <1>0, <2>1, <2>5, <3>1, CountCall DEF spurious_wakeup
  <2>6. QED
    BY <1>11, <2>3, <2>4, <2>5
<1>12. CASE exit_stop \/ exit_close \/ UNCHANGED vars
  BY <1>2, <1>12 DEF exit_stop, exit_close, vars, worker, snapshot, input, output, Carried
<1>13. QED
  BY <1>3, <1>4, <1>5, <1>6, <1>7, <1>8, <1>9, <1>10, <1>11, <1>12
  DEF Next, WorkerStep, CallStep

-----------------------------------------------------------------------------
(* The labels, and the end.                                                *)

(* The rest of TypeOK.                                                     *)
FlagType ==
  /\ block \in BOOLEAN /\ run \in BOOLEAN /\ is_wait \in BOOLEAN
  /\ notify_log \in BOOLEAN /\ log \in BOOLEAN
  /\ wpc \in {"top", "lock", "wait", "output", "output_ext", "output_dropped",
              "release", "wakeup", "done"}
  /\ xpc \in {"no", "joining", "closed"}

(* No step leaves the labels of the code.                                  *)
LEMMA FlagStep ==
  ASSUME IndInv, [Next]_vars
  PROVE  FlagType'
<1>0. FlagType
  BY DEF IndInv, TypeOK, FlagType
<1>1. CASE work_top \/ release \/ wakeup_waiters
  BY <1>0, <1>1 DEF work_top, release, wakeup_waiters, KeepsLogging, conf, FlagType
<1>2. CASE next_log
  BY <1>0, <1>2 DEF next_log, Take, KeepsLogging, conf, FlagType
<1>3. CASE wait_log
  BY <1>0, <1>3 DEF wait_log, Take, KeepsLogging, conf, FlagType
<1>4. CASE output_part \/ output_ext_part \/ output_dropped
  BY <1>0, <1>4 DEF output_part, output_ext_part, Outputs, output_dropped, KeepsLogging, conf,
                    FlagType
<1>5. ASSUME NEW w \in Writers, vprintf(w) \/ CallStep(w) \/ spurious_wakeup(w)
      PROVE  FlagType'
  <2>1. CASE vprintf(w) \/ spurious_wakeup(w)
    BY <1>0, <2>1 DEF vprintf, spurious_wakeup, worker, conf, FlagType
  <2>2. CASE write_line(w) \/ no_room(w)
    BY <1>0, <2>2 DEF write_line, no_room, worker, conf, FlagType
  <2>3. CASE cond_wait(w) \/ leave_wait(w)
    BY <1>0, <2>3 DEF cond_wait, leave_wait, worker, conf, FlagType
  <2>4. QED
    BY <1>5, <2>1, <2>2, <2>3 DEF CallStep
<1>6. CASE exit_stop \/ exit_close \/ UNCHANGED vars
  BY <1>0, <1>6 DEF exit_stop, exit_close, vars, worker, FlagType
<1>7. QED
  BY <1>1, <1>2, <1>3, <1>4, <1>5, <1>6 DEF Next, WorkerStep

EndInv == wr_exit \in 0 .. wr /\ Ending /\ ExitFlushes

(* The worker ends when tlog_exit was called and the ring is empty: what   *)
(* was accepted before is output then, and nothing is accepted before the  *)
(* call any more.                                                          *)
LEMMA EndStep ==
  ASSUME IndInv, [Next]_vars
  PROVE  EndInv'
<1>0. EndInv /\ FlagType /\ wr \in Nat
  BY DEF IndInv, TypeOK, EndInv, FlagType
<1>1. ASSUME UNCHANGED <<run, xpc, wr_exit>>, wr' \in Nat, wr' >= wr,
             wpc' = "done" => wpc = "done" /\ UNCHANGED out
      PROVE  EndInv'
  BY <1>0, <1>1 DEF EndInv, Ending, ExitFlushes
<1>2. CASE work_top
  <2>1. UNCHANGED <<run, xpc, wr_exit, wr, out>> /\ wpc = "top"
    BY <1>2 DEF work_top, KeepsLogging, conf, input, output
  <2>2. CASE wpc' # "done"
    BY <1>0, <1>1, <2>1, <2>2
  <2>3. CASE wpc' = "done"
    <3>1. ~run /\ end = start /\ ext_end = 0
      <4>1. ~run /\ ~has_data
        BY <1>2, <2>3 DEF work_top
      <4>2. QED
        BY <4>1, RingAssumption DEF has_data, IndInv, TypeOK
    <3>2. Len(out) = wr
      BY <2>1, <3>1 DEF IndInv, TypeOK, OutputLen, Contents, Held
    <3>3. QED
      BY <1>0, <2>1, <3>1, <3>2 DEF EndInv, Ending, ExitFlushes
  <2>4. QED
    BY <2>2, <2>3
<1>3. CASE next_log \/ wait_log
  BY <1>0, <1>1, <1>3 DEF next_log, wait_log, Take, KeepsLogging, conf, input
<1>4. CASE output_part \/ output_ext_part \/ output_dropped \/ release
  BY <1>0, <1>1, <1>4 DEF output_part, output_ext_part, Outputs, output_dropped, release,
                          KeepsLogging, conf, input
<1>5. CASE wakeup_waiters
  BY <1>0, <1>1, <1>5 DEF wakeup_waiters, conf, input
<1>6. ASSUME NEW w \in Writers, write_line(w)
      PROVE  EndInv'
  <2>1. \E len \in LineLen : wr' = wr + len
    BY <1>6 DEF write_line, Write
  <2>2. wr' \in Nat /\ wr' >= wr
    BY <1>0, <2>1, RingAssumption DEF LineLen
  <2>3. QED
    BY <1>1, <1>6, <2>2 DEF write_line, worker, conf, output
<1>7. ASSUME NEW w \in Writers,
             vprintf(w) \/ no_room(w) \/ cond_wait(w) \/ leave_wait(w) \/ spurious_wakeup(w)
      PROVE  EndInv'
  BY <1>0, <1>1, <1>7 DEF vprintf, no_room, cond_wait, leave_wait, spurious_wakeup, worker, conf,
                          input, output
<1>8. CASE exit_stop
  <2>1. wpc # "done"
    BY <1>0, <1>8 DEF exit_stop, EndInv, Ending
  <2>2. QED
    BY <1>0, <1>8, <2>1 DEF exit_stop, worker, input, EndInv, Ending, ExitFlushes
<1>9. CASE exit_close
  BY <1>0, <1>9 DEF exit_close, worker, input, output, EndInv, Ending, ExitFlushes
<1>10. CASE UNCHANGED vars
  BY <1>0, <1>1, <1>10 DEF vars, worker, input, output
<1>11. QED
  BY <1>2, <1>3, <1>4, <1>5, <1>6, <1>7, <1>8, <1>9, <1>10 DEF Next, WorkerStep, CallStep

-----------------------------------------------------------------------------
(* The theorems.                                                           *)

(* The logger as tlog_init leaves it satisfies the invariant.              *)
LEMMA InitInd ==
  Init => IndInv
<1> SUFFICES ASSUME Init PROVE IndInv
  OBVIOUS
<1>1. {w \in Writers : pc[w] \in {"waiting", "woken"}} = {}
      /\ {w \in Writers : pc[w] # "idle"} = {}
  BY DEF Init
<1>2. Cardinality({}) = 0
  BY FS_EmptySet
<1>3. TypeOK
  <2>1. waiters = Cardinality({w \in Writers : pc[w] \in {"waiting", "woken"}})
    BY <1>1, <1>2, Zenon DEF Init
  <2>2. RingType /\ FlagType
    <3>1. RingType
      BY RingAssumption DEF Init, RingType, Pos
    <3>2. FlagType
      BY Zenon DEF Init, FlagType
    <3>3. QED
      BY <3>1, <3>2
  <2>3. /\ dropped \in Nat /\ log_dropped \in Nat /\ reported \in Nat
        /\ pc \in [Writers -> {"idle", "print", "unlocked", "waiting", "woken"}]
        /\ calls \in 0 .. Calls /\ lines \in 0 .. Calls
        /\ wr_exit \in 0 .. wr /\ out \in Seq(Nat)
    BY RingAssumption DEF Init
  <2>4. QED
    BY <2>1, <2>2, <2>3 DEF TypeOK, RingType, FlagType
<1>4. Shape /\ Contents /\ Snapshot
  BY RingAssumption DEF Init, Shape, Contents, Held, Stop, Wrapped, Snapshot, Noted, Pos
<1>5. OutputLen /\ OutputInOrder
  BY DEF Init, OutputLen, OutputInOrder
<1>6. DropsCounted
  <2>1. Cardinality({w \in Writers : pc[w] # "idle"}) = 0
    BY <1>1, <1>2, Zenon
  <2>2. QED
    BY <2>1 DEF Init, DropsCounted
<1>7. Ending /\ ExitFlushes
  BY DEF Init, Ending, ExitFlushes
<1>8. QED
  BY <1>3, <1>4, <1>5, <1>6, <1>7 DEF IndInv

(* Every step of the threads, the worker and tlog_exit preserves it.       *)
LEMMA StepInd ==
  IndInv /\ [Next]_vars => IndInv'
<1> SUFFICES ASSUME IndInv, [Next]_vars PROVE IndInv'
  OBVIOUS
<1>1. RingInv'
  BY RingStep
<1>2. OutputInv'
  BY OutputStep
<1>3. CountInv'
  BY CountStep
<1>4. FlagType'
  BY FlagStep
<1>5. EndInv'
  BY EndStep
<1>6. /\ lines' \in 0 .. Calls
      /\ waiters' = Cardinality({w \in Writers : pc'[w] \in {"waiting", "woken"}})
      /\ pc' \in [Writers -> {"idle", "print", "unlocked", "waiting", "woken"}]
      /\ DropsCounted'
  <2>1. CountInv' => /\ (lines \in 0 .. Calls)'
                     /\ (waiters = Cardinality({w \in Writers : pc[w] \in {"waiting", "woken"}}))'
                     /\ (pc \in [Writers -> {"idle", "print", "unlocked", "waiting", "woken"}])'
                     /\ DropsCounted'
    BY CountInvEq, PTL
  <2>2. QED
    BY <1>3, <2>1
<1>7. TypeOK'
  BY <1>1, <1>2, <1>3, <1>4, <1>5, <1>6
  DEF TypeOK, RingInv, RingType, OutputInv, CountInv, CountType, FlagType, EndInv
<1>8. QED
  BY <1>1, <1>2, <1>5, <1>6, <1>7 DEF IndInv, RingInv, OutputInv, EndInv

(* The inductive invariant holds in every state of the logger.             *)
LEMMA AlwaysInd ==
  Spec => []IndInv
  BY InitInd, StepInd, PTL DEF Spec

(* Type correctness: in particular start and end never leave the part of   *)
(* the buffer where a whole line still fits, and the count of waiters is   *)
(* that of the threads that wait.                                          *)
THEOREM TypeCorrect ==
  Spec => []TypeOK
<1>1. IndInv => TypeOK
  BY DEF IndInv
<1>2. QED
  BY <1>1, AlwaysInd, PTL

(* Every byte that was accepted reaches the output function once and in    *)
(* order, wherever the ring wraps and whatever is added while the worker   *)
(* reads it without the mutex.                                             *)
THEOREM OutputOrdered ==
  Spec => []OutputInOrder
<1>1. IndInv => OutputInOrder
  BY DEF IndInv
<1>2. QED
  BY <1>1, AlwaysInd, PTL

(* No writer changes a byte of the ring that has not been released.        *)
THEOREM NeverOverwritten ==
  Spec => NoOverwrite
<1>1. IndInv /\ [Next]_vars => [\A p \in Pos : buff'[p] # buff[p] => buff[p] <= rd]_vars
  BY RingStep
<1>2. QED
  BY <1>1, AlwaysInd, PTL DEF Spec, NoOverwrite

(* Every call is under way, accepted, or counted once as dropped.          *)
THEOREM EveryDropCounted ==
  Spec => []DropsCounted
<1>1. IndInv => DropsCounted
  BY DEF IndInv
<1>2. QED
  BY <1>1, AlwaysInd, PTL

(* When the worker has ended, everything accepted before tlog_exit is out. *)
THEOREM FlushedAtExit ==
  Spec => []ExitFlushes
<1>1. IndInv => ExitFlushes
  BY DEF IndInv
<1>2. QED
  BY <1>1, AlwaysInd, PTL
=============================================================================
