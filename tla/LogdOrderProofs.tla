----------------------------- MODULE LogdOrderProofs ---------------------------
(***************************************************************************)
(* The order in which the chunks reach the server (ArrivesInOrder), for    *)
(* any configuration of the log daemon of useapp/.                         *)
(*                                                                         *)
(* The argument.  As long as the sender has not met a message with names,  *)
(* chunks stand in one line: at the server, in the sender's message, in    *)
(* the data messages at the front of the queue, on disk, in the message at *)
(* hand (InLine).  Data go to the queue behind chunks on disk only when    *)
(* the names of their files were queued before them.  A message with names *)
(* is never let go of before the dump: from then on only its files are     *)
(* sent, in the order of their seconds, and a file that grows while it is  *)
(* sent grows at its end; so no chunk of a file still to be sent has been  *)
(* overtaken, unless it was sent before (NotOvertaken).  Both need the     *)
(* order of the chunks on disk (DiskOrder) and that the message at hand    *)
(* holds the newest ones (Newest).                                         *)
(***************************************************************************)
EXTENDS LogdProofs

Increasing(s) == \A i, j \in 1 .. Len(s) : i < j => s[i] < s[j]
Below(S, T)   == \A x \in S, y \in T : x < y

(* The sender still sends.                                                 *)
Live == Running /\ spc \in {"off", "pop", "quitcheck", "send", "check"}

HoldsNames  == smsg # NULL /\ smsg.type # 0
NamesQueued == \E i \in 1 .. Len(queue) : queue[i].type # 0

(* The data messages before the first message with names.                  *)
FrontOf(q) == {i \in 1 .. Len(q) : \A k \in 1 .. i : q[k].type = 0}

(* Chunks that have left the message at hand, and those on their way to a  *)
(* data file.                                                              *)
Older == IF rpc = "done" THEN got ELSE got - AtHand
Wet   == OnDisk \cup Contents(pend)

(* The message at hand holds the newest chunks, and once a file was        *)
(* written it is to be written too.                                        *)
Newest ==
  /\ msg # NULL =>
       /\ \A i \in 1 .. Len(msg.data) : msg.data[i] = (got - Len(msg.data)) + i
       /\ msg.names = <<>>
       /\ names_msg # NULL /\ (msg.len > 0 \/ rpc \in {"recv", "flush"}) => msg.type = 1
  /\ Contents(arrived) \cup InMessage(smsg) \cup QueueChunks(queue) \cup Wet \subseteq 1 .. Older

(* A directory fs with data files in the order of their seconds, and what  *)
(* stdio holds for the one that is open, the newest of them.               *)
Ordered(fs, fp, held, clk) ==
  /\ fs \in Directory /\ held \in Seq(Chunk) /\ clk \in 0 .. (Traffic + 1)
  /\ \A p \in Path : fs[p] # NULL => p[1] = "data" /\ p[2] <= clk /\ Increasing(fs[p])
  /\ \A p, q \in Path : fs[p] # NULL /\ fs[q] # NULL /\ p[2] < q[2] =>
       Below(Contents(fs[p]), Contents(fs[q]))
  /\ Increasing(held) /\ Below(DiskChunks(fs), Contents(held))
  /\ fp # NULL => clk \in Second /\ fp = DataPath(clk) /\ fs[fp] # NULL
  /\ fp = NULL => held = <<>>

DiskOrder == Ordered(files, curr_fp, pend, clock)

(* Names are listed in the order of their seconds.                         *)
Sorted(m) == \A i, j \in 1 .. Len(m.names) : i < j => m.names[i] <= m.names[j]

NamesOrder ==
  /\ names_msg # NULL => Sorted(names_msg) /\ \A i \in 1 .. Len(names_msg.names) : names_msg.names[i] <= clock
  /\ smsg # NULL => Sorted(smsg) /\ Increasing(smsg.data)
  /\ \A i \in 1 .. Len(queue) : Sorted(queue[i]) /\ Increasing(queue[i].data)
  /\ rpc = "detach" => HoldsNames \/ NamesQueued

(* Before the sender has met a message with names.                         *)
InLine ==
  ~HoldsNames =>
    /\ Increasing(arrived)
    /\ Below(Contents(arrived), InMessage(smsg))
    /\ Below(Contents(arrived) \cup InMessage(smsg), Wet)
    /\ \A i \in FrontOf(queue) :
         /\ Below(Contents(arrived) \cup InMessage(smsg), InMessage(queue[i]))
         /\ Below(InMessage(queue[i]), Wet)
         /\ \A k \in 1 .. (i - 1) : Below(InMessage(queue[k]), InMessage(queue[i]))
    /\ ~NamesQueued /\ names_msg = NULL => Wet = {}

(* A chunk that no larger one has overtaken on its first way to the server.*)
Ahead(v) == \A i \in 1 .. Len(arrived) : arrived[i] >= v => \E k \in 1 .. i : arrived[k] = v

(* The chunks of a data file, written or held by stdio.                    *)
FileChunks(fs, fp, held, t) ==
  (IF fs[DataPath(t)] = NULL THEN {} ELSE Contents(fs[DataPath(t)]))
    \cup (IF fp = DataPath(t) THEN Contents(held) ELSE {})

(* The files still to be sent.                                             *)
NotOvertaken ==
  HoldsNames => \A i \in 1 .. Len(smsg.names) :
      \A v \in FileChunks(files, curr_fp, pend, smsg.names[i]) : Ahead(v)

InOrder  == Newest /\ DiskOrder /\ NamesOrder /\ InLine /\ NotOvertaken
OrderInv == Live => InOrder

--------------------------------------------------------------------------------
(* Sequences and sets of chunks.                                           *)

(* The members of a sequence of chunks.                                    *)
LEMMA Members ==
  ASSUME NEW s \in Seq(Chunk)
  PROVE  /\ Len(s) \in Nat /\ \A i \in 1 .. Len(s) : s[i] \in Chunk /\ s[i] \in Contents(s) /\ s[i] \in Int
         /\ \A c \in Contents(s) : \E i \in 1 .. Len(s) : c = s[i]
         /\ Contents(s) \subseteq Chunk /\ \A c \in Contents(s) : c \in Int
<1>1. \A c \in Chunk : c \in Int
  BY DEF Chunk
<1>2. Contents(s) \subseteq Chunk
  BY ContentsIn
<1>3. Len(s) \in Nat /\ \A i \in 1 .. Len(s) : s[i] \in Chunk
  OBVIOUS
<1>4. QED
  BY <1>1, <1>2, <1>3 DEF Contents

(* Two increasing sequences, one below the other.                          *)
LEMMA IncreasingConcat ==
  ASSUME NEW s \in Seq(Chunk), NEW t \in Seq(Chunk),
         Increasing(s), Increasing(t), Below(Contents(s), Contents(t))
  PROVE  s \o t \in Seq(Chunk) /\ Increasing(s \o t)
<1>1. /\ Len(s) \in Nat /\ Len(t) \in Nat /\ Len(s \o t) = Len(s) + Len(t) /\ s \o t \in Seq(Chunk)
      /\ \A i \in 1 .. (Len(s) + Len(t)) : (s \o t)[i] = IF i <= Len(s) THEN s[i] ELSE t[i - Len(s)]
  OBVIOUS
<1>2. ASSUME NEW i \in 1 .. (Len(s) + Len(t)), NEW j \in 1 .. (Len(s) + Len(t)), i < j
      PROVE  (s \o t)[i] < (s \o t)[j]
  <2>1. CASE j <= Len(s)
    <3>1. i <= Len(s) /\ i \in 1 .. Len(s) /\ j \in 1 .. Len(s)
      BY <1>1, <1>2, <2>1
    <3>2. QED
      BY <1>1, <1>2, <2>1, <3>1 DEF Increasing
  <2>2. CASE i <= Len(s) /\ ~(j <= Len(s))
    <3>1. i \in 1 .. Len(s) /\ j - Len(s) \in 1 .. Len(t)
      BY <1>1, <1>2, <2>2
    <3>2. s[i] \in Contents(s) /\ t[j - Len(s)] \in Contents(t)
      BY <3>1 DEF Contents
    <3>3. QED
      BY <1>1, <2>2, <3>2 DEF Below
  <2>3. CASE ~(i <= Len(s)) /\ ~(j <= Len(s))
    <3>1. i - Len(s) \in 1 .. Len(t) /\ j - Len(s) \in 1 .. Len(t) /\ i - Len(s) < j - Len(s)
      BY <1>1, <1>2, <2>3
    <3>2. t[i - Len(s)] < t[j - Len(s)]
      BY <3>1 DEF Increasing
    <3>3. QED
      BY <1>1, <2>3, <3>2
  <2>4. QED
    BY <1>1, <1>2, <2>1, <2>2, <2>3
<1>3. QED
  BY <1>1, <1>2 DEF Increasing

(* Nothing is in order, and below and above everything.                    *)
LEMMA NothingOrdered ==
  /\ <<>> \in Seq(Chunk) /\ Contents(<<>>) = {} /\ Increasing(<<>>)
  /\ \A S : Below({}, S) /\ Below(S, {})
  BY ContentsSmall DEF Increasing, Below

--------------------------------------------------------------------------------
(* The directory, step by step.                                            *)

(* stdio writes out what it holds; the file stays open.                    *)
LEMMA FlushOrdered ==
  ASSUME NEW fs, NEW fp, NEW held, NEW clk, Ordered(fs, fp, held, clk), fp # NULL
  PROVE  /\ Ordered(Flushed(fs, fp, held), fp, <<>>, clk)
         /\ DiskChunks(Flushed(fs, fp, held)) = DiskChunks(fs) \cup Contents(held)
         /\ \A t \in Second : FileChunks(Flushed(fs, fp, held), fp, <<>>, t) = FileChunks(fs, fp, held, t)
<1> DEFINE ff == Flushed(fs, fp, held)
<1>1. /\ fs \in Directory /\ held \in Seq(Chunk) /\ clk \in Second /\ fp = DataPath(clk)
      /\ fp \in Path /\ fs[fp] # NULL /\ fp[2] = clk /\ fp[1] = "data" /\ clk \in Int
  BY Paths DEF Ordered, Second
<1>2. fs[fp] \in Seq(Chunk)
  BY <1>1 DEF Directory
<1>3. ff \in Directory /\ \A q \in Path : ff[q] = NULL <=> fs[q] = NULL
  BY <1>1, FlushedFiles
<1>4. ff[fp] = fs[fp] \o held /\ \A q \in Path \ {fp} : ff[q] = fs[q]
  <2>1. ff = [fs EXCEPT ![fp] = fs[fp] \o held]
    BY <1>1, NotPaths DEF Flushed
  <2>2. QED
    BY <1>1, <2>1 DEF Directory
<1>5. Contents(ff[fp]) = Contents(fs[fp]) \cup Contents(held)
  BY <1>1, <1>2, <1>4, ContentsConcat
<1> HIDE DEF ff
<1>6. \A p \in Path : fs[p] # NULL => Contents(fs[p]) \subseteq DiskChunks(fs)
  BY DEF DiskChunks
<1>7. Increasing(ff[fp])
  <2>1. Below(Contents(fs[fp]), Contents(held))
    BY <1>1, <1>6 DEF Ordered, Below
  <2>2. Increasing(fs[fp]) /\ Increasing(held)
    BY <1>1 DEF Ordered
  <2>3. QED
    BY <1>1, <1>2, <1>4, <2>1, <2>2, IncreasingConcat
<1>8. \A p \in Path : ff[p] # NULL => p[1] = "data" /\ p[2] <= clk /\ Increasing(ff[p])
  BY <1>1, <1>3, <1>4, <1>7 DEF Ordered
<1>9. ASSUME NEW p \in Path, NEW q \in Path, ff[p] # NULL, ff[q] # NULL, p[2] < q[2]
      PROVE  Below(Contents(ff[p]), Contents(ff[q]))
  <2>1. Below(Contents(fs[p]), Contents(fs[q]))
    BY <1>3, <1>9 DEF Ordered
  <2>2. p # fp
    <3>1. q[2] <= clk /\ q[2] \in Int
      BY <1>3, <1>9 DEF Ordered, Path, Second
    <3>2. QED
      BY <1>1, <1>9, <3>1
  <2>3. CASE q = fp
    BY <1>3, <1>4, <1>5, <1>6, <1>9, <2>1, <2>2, <2>3 DEF Ordered, Below
  <2>4. CASE q # fp
    BY <1>4, <2>1, <2>2, <2>4
  <2>5. QED
    BY <2>3, <2>4
<1>10. Ordered(ff, fp, <<>>, clk)
  BY <1>1, <1>3, <1>8, <1>9, NothingOrdered DEF Ordered
<1>11. DiskChunks(ff) = DiskChunks(fs) \cup Contents(held)
  <2>1. ASSUME NEW x \in DiskChunks(ff)
        PROVE  x \in DiskChunks(fs) \cup Contents(held)
    <3>1. PICK p \in Path : ff[p] # NULL /\ x \in Contents(ff[p])
      BY DEF DiskChunks
    <3>2. CASE p = fp
      BY <1>1, <1>5, <1>6, <3>1, <3>2
    <3>3. CASE p # fp
      BY <1>3, <1>4, <1>6, <3>1, <3>3
    <3>4. QED
      BY <3>2, <3>3
  <2>2. DiskChunks(fs) \cup Contents(held) \subseteq DiskChunks(ff)
    BY <1>1, DiskFlushed DEF ff
  <2>3. QED
    BY <2>1, <2>2
<1>12. ASSUME NEW t \in Second
       PROVE  FileChunks(ff, fp, <<>>, t) = FileChunks(fs, fp, held, t)
  <2>1. DataPath(t) \in Path
    BY Paths
  <2>2. CASE DataPath(t) = fp
    BY <1>1, <1>3, <1>5, <2>2, NothingOrdered DEF FileChunks
  <2>3. CASE DataPath(t) # fp
    BY <1>3, <1>4, <2>1, <2>3 DEF FileChunks
  <2>4. QED
    BY <2>2, <2>3
<1>13. QED
  BY <1>10, <1>11, <1>12 DEF ff

(* Closing the file, if one is open.                                       *)
LEMMA CloseOrdered ==
  ASSUME NEW fs, NEW fp, NEW held, NEW clk, Ordered(fs, fp, held, clk)
  PROVE  /\ Ordered(Flushed(fs, fp, held), NULL, <<>>, clk)
         /\ DiskChunks(Flushed(fs, fp, held)) = DiskChunks(fs) \cup Contents(held)
         /\ \A t \in Second : FileChunks(Flushed(fs, fp, held), NULL, <<>>, t) = FileChunks(fs, fp, held, t)
<1> DEFINE ff == Flushed(fs, fp, held)
<1>0. \A t \in Second : DataPath(t) # NULL
  BY Paths, NotPaths
<1>1. CASE fp = NULL
  <2>1. ff = fs /\ held = <<>>
    BY <1>1 DEF Flushed, Ordered
  <2>2. QED
    BY <1>0, <1>1, <2>1, NothingOrdered DEF FileChunks
<1>2. CASE fp # NULL
  <2>1. /\ Ordered(ff, fp, <<>>, clk)
        /\ DiskChunks(ff) = DiskChunks(fs) \cup Contents(held)
        /\ \A t \in Second : FileChunks(ff, fp, <<>>, t) = FileChunks(fs, fp, held, t)
    BY <1>2, FlushOrdered
  <2> HIDE DEF ff
  <2>2. Ordered(ff, NULL, <<>>, clk)
    BY <2>1 DEF Ordered
  <2>3. \A t \in Second : FileChunks(ff, NULL, <<>>, t) = FileChunks(ff, fp, <<>>, t)
    BY NothingOrdered DEF FileChunks
  <2>4. QED
    BY <2>1, <2>2, <2>3 DEF ff
<1>3. QED
  BY <1>1, <1>2

(* fclose writes out a part of what stdio holds.                           *)
LEMMA ClosePart ==
  ASSUME NEW fs, NEW fp, NEW held, NEW clk, Ordered(fs, fp, held, clk), NEW out \in Written(held)
  PROVE  /\ Ordered(Flushed(fs, fp, out), NULL, <<>>, clk)
         /\ DiskChunks(Flushed(fs, fp, out)) \subseteq DiskChunks(fs) \cup Contents(held)
         /\ \A t \in Second : FileChunks(Flushed(fs, fp, out), NULL, <<>>, t) \subseteq FileChunks(fs, fp, held, t)
<1>1. held \in Seq(Chunk) /\ Increasing(held) /\ Below(DiskChunks(fs), Contents(held))
  BY DEF Ordered
<1>2. out \in Seq(Chunk) /\ Contents(out) \subseteq Contents(held)
  BY <1>1, WrittenPart
<1>3. Increasing(out) /\ (held = <<>> => out = <<>>)
  <2>1. PICK n \in 0 .. Len(held) : out = SubSeq(held, 1, n)
    BY DEF Written
  <2>2. Len(out) = n /\ \A i \in 1 .. n : out[i] = held[i] /\ i \in 1 .. Len(held)
    BY <1>1, <2>1
  <2>3. Increasing(out)
    BY <1>1, <2>2 DEF Increasing
  <2>4. held = <<>> => out = <<>>
    BY <1>1, <1>2, <2>1, <2>2
  <2>5. QED
    BY <2>3, <2>4
<1>4. Below(DiskChunks(fs), Contents(out))
  BY <1>1, <1>2 DEF Below
<1>5. Ordered(fs, fp, out, clk)
  BY <1>2, <1>3, <1>4 DEF Ordered
<1>6. \A t \in Second : FileChunks(fs, fp, out, t) \subseteq FileChunks(fs, fp, held, t)
  BY <1>2 DEF FileChunks
<1>7. /\ Ordered(Flushed(fs, fp, out), NULL, <<>>, clk)
      /\ DiskChunks(Flushed(fs, fp, out)) = DiskChunks(fs) \cup Contents(out)
      /\ \A t \in Second : FileChunks(Flushed(fs, fp, out), NULL, <<>>, t) = FileChunks(fs, fp, out, t)
  BY <1>5, CloseOrdered
<1>8. QED
  BY <1>2, <1>6, <1>7

(* A file is created, or opened again, in the second of the newest one or  *)
(* the next.                                                               *)
LEMMA OpenOrdered ==
  ASSUME NEW fs, NEW clk, Ordered(fs, NULL, <<>>, clk), NEW t \in Second, t \in {clk, clk + 1}
  PROVE  /\ Ordered(Opened(fs, DataPath(t)), DataPath(t), <<>>, t)
         /\ DiskChunks(Opened(fs, DataPath(t))) = DiskChunks(fs)
         /\ \A u \in Second : FileChunks(Opened(fs, DataPath(t)), DataPath(t), <<>>, u)
                               = FileChunks(fs, NULL, <<>>, u)
<1> DEFINE p == DataPath(t)
           ff == Opened(fs, p)
<1>1. /\ fs \in Directory /\ p \in Path /\ p[1] = "data" /\ p[2] = t /\ p # NULL
      /\ clk \in Int /\ t \in Int /\ clk <= t /\ t \in 0 .. (Traffic + 1)
  BY Paths, NotPaths DEF Ordered, Second
<1>2. /\ ff \in Directory /\ ff[p] # NULL
      /\ \A q \in Path : q # p \/ fs[q] # NULL => ff[q] = fs[q]
  BY <1>1, OpenedFiles
<1>3. fs[p] = NULL => ff[p] = <<>> /\ Contents(ff[p]) = {}
  BY <1>1, NothingOrdered DEF Opened, Directory
<1>4. \A q \in Path : q[2] \in Int
  BY DEF Path, Second
<1> HIDE DEF ff, p
<1>5. \A q \in Path : ff[q] # NULL => q[1] = "data" /\ q[2] <= t /\ Increasing(ff[q])
  <2>1. \A q \in Path : fs[q] # NULL => q[1] = "data" /\ q[2] <= clk /\ Increasing(fs[q])
    BY DEF Ordered
  <2>2. \A q \in Path : fs[q] # NULL => q[1] = "data" /\ q[2] <= t /\ Increasing(fs[q])
    BY <1>1, <1>4, <2>1
  <2>3. QED
    BY <1>1, <1>2, <1>3, <2>2, NothingOrdered
<1>6. ASSUME NEW q \in Path, NEW r \in Path, ff[q] # NULL, ff[r] # NULL, q[2] < r[2]
      PROVE  Below(Contents(ff[q]), Contents(ff[r]))
  <2>1. CASE fs[q] # NULL /\ fs[r] # NULL
    BY <1>2, <1>6, <2>1 DEF Ordered
  <2>2. CASE fs[q] = NULL
    <3>1. q = p
      BY <1>2, <1>6, <2>2
    <3>2. QED
      BY <1>3, <2>2, <3>1, NothingOrdered
  <2>3. CASE fs[r] = NULL
    <3>1. r = p
      BY <1>2, <1>6, <2>3
    <3>2. QED
      BY <1>3, <2>3, <3>1, NothingOrdered
  <2>4. QED
    BY <2>1, <2>2, <2>3
<1>7. Ordered(ff, p, <<>>, t)
  <2>1. p = DataPath(t)
    BY DEF p
  <2>2. QED
    BY <1>1, <1>2, <1>5, <1>6, <2>1, NothingOrdered DEF Ordered
<1>8. DiskChunks(ff) = DiskChunks(fs)
  <2>1. ASSUME NEW x \in DiskChunks(ff)
        PROVE  x \in DiskChunks(fs)
    <3>1. PICK q \in Path : ff[q] # NULL /\ x \in Contents(ff[q])
      BY DEF DiskChunks
    <3>2. fs[q] # NULL /\ ff[q] = fs[q]
      BY <1>2, <1>3, <3>1
    <3>3. QED
      BY <3>1, <3>2 DEF DiskChunks
  <2>2. DiskChunks(fs) \subseteq DiskChunks(ff)
    BY <1>2 DEF DiskChunks
  <2>3. QED
    BY <2>1, <2>2
<1>9. ASSUME NEW u \in Second
      PROVE  FileChunks(ff, p, <<>>, u) = FileChunks(fs, NULL, <<>>, u)
  <2>1. DataPath(u) \in Path /\ DataPath(u) # NULL
    BY Paths, NotPaths
  <2>2. CASE fs[DataPath(u)] = NULL
    BY <1>2, <1>3, <2>1, <2>2, NothingOrdered DEF FileChunks
  <2>3. CASE fs[DataPath(u)] # NULL
    BY <1>2, <2>1, <2>3, NothingOrdered DEF FileChunks
  <2>4. QED
    BY <2>2, <2>3
<1>10. QED
  BY <1>7, <1>8, <1>9 DEF ff, p

(* Newer data are handed to stdio.                                         *)
LEMMA AddOrdered ==
  ASSUME NEW fs, NEW fp, NEW held, NEW clk, Ordered(fs, fp, held, clk), fp # NULL,
         NEW data \in Seq(Chunk), Increasing(data),
         Below(DiskChunks(fs) \cup Contents(held), Contents(data))
  PROVE  /\ Ordered(fs, fp, held \o data, clk)
         /\ Contents(held \o data) = Contents(held) \cup Contents(data)
         /\ \A t \in Second : FileChunks(fs, fp, held \o data, t)
                               \subseteq FileChunks(fs, fp, held, t) \cup Contents(data)
<1>1. held \in Seq(Chunk) /\ Increasing(held) /\ Below(DiskChunks(fs), Contents(held))
  BY DEF Ordered
<1>2. Below(Contents(held), Contents(data)) /\ Below(DiskChunks(fs), Contents(data))
  BY DEF Below
<1>3. held \o data \in Seq(Chunk) /\ Increasing(held \o data)
  BY <1>1, <1>2, IncreasingConcat
<1>4. Contents(held \o data) = Contents(held) \cup Contents(data)
  BY <1>1, ContentsConcat
<1> DEFINE h == held \o data
<1>5. h \in Seq(Chunk) /\ Increasing(h) /\ Contents(h) = Contents(held) \cup Contents(data)
  BY <1>3, <1>4
<1> HIDE DEF h
<1>6. Below(DiskChunks(fs), Contents(h))
  BY <1>1, <1>2, <1>5 DEF Below
<1>7. Ordered(fs, fp, h, clk)
  BY <1>5, <1>6 DEF Ordered
<1>8. \A t \in Second : FileChunks(fs, fp, h, t) \subseteq FileChunks(fs, fp, held, t) \cup Contents(data)
  BY <1>5 DEF FileChunks
<1>9. QED
  BY <1>4, <1>7, <1>8 DEF h

(* ... and stay there or are written out.                                  *)
LEMMA StoreOrdered ==
  ASSUME NEW fs, NEW fp, NEW held, NEW clk, Ordered(fs, fp, held, clk), fp # NULL,
         NEW data \in Seq(Chunk), Increasing(data),
         Below(DiskChunks(fs) \cup Contents(held), Contents(data)),
         NEW fs2, NEW held2,
         \/ fs2 = Flushed(fs, fp, held \o data) /\ held2 = <<>>
         \/ fs2 = fs /\ held2 = held \o data
  PROVE  /\ Ordered(fs2, fp, held2, clk)
         /\ DiskChunks(fs2) \cup Contents(held2) = DiskChunks(fs) \cup Contents(held) \cup Contents(data)
         /\ \A t \in Second : FileChunks(fs2, fp, held2, t)
                               \subseteq FileChunks(fs, fp, held, t) \cup Contents(data)
<1> DEFINE h == held \o data
<1>1. /\ Ordered(fs, fp, h, clk) /\ Contents(h) = Contents(held) \cup Contents(data)
      /\ \A t \in Second : FileChunks(fs, fp, h, t) \subseteq FileChunks(fs, fp, held, t) \cup Contents(data)
  <2>0. Contents(held \o data) = Contents(held) \cup Contents(data)
    BY ContentsConcat DEF Ordered
  <2>1. Ordered(fs, fp, held \o data, clk)
    BY AddOrdered
  <2>2. \A t \in Second : FileChunks(fs, fp, held \o data, t)
                            \subseteq FileChunks(fs, fp, held, t) \cup Contents(data)
    BY AddOrdered
  <2>3. QED
    BY <2>0, <2>1, <2>2
<1>2. \/ fs2 = Flushed(fs, fp, h) /\ held2 = <<>>
      \/ fs2 = fs /\ held2 = h
  OBVIOUS
<1> HIDE DEF h
<1>3. CASE fs2 = Flushed(fs, fp, h) /\ held2 = <<>>
  <2>1. /\ Ordered(fs2, fp, <<>>, clk) /\ DiskChunks(fs2) = DiskChunks(fs) \cup Contents(h)
        /\ \A t \in Second : FileChunks(fs2, fp, <<>>, t) = FileChunks(fs, fp, h, t)
    BY <1>1, <1>3, FlushOrdered
  <2>2. QED
    BY <1>1, <1>3, <2>1, NothingOrdered
<1>4. CASE fs2 = fs /\ held2 = h
  BY <1>1, <1>4
<1>5. QED
  BY <1>2, <1>3, <1>4

--------------------------------------------------------------------------------
(* The directory in a step of the daemon.                                  *)

(* No chunk outside D comes to the disk or to stdio, to none of the files. *)
Adds(D) ==
  /\ Wet' \subseteq Wet \cup D
  /\ \A t \in Second : FileChunks(files', curr_fp', pend', t)
                        \subseteq FileChunks(files, curr_fp, pend, t) \cup D

(* The current file is closed.                                             *)
LEMMA CloseStep ==
  ASSUME DiskOrder, NEW out \in Written(pend), files' = Flushed(files, curr_fp, out),
         curr_fp' = NULL, pend' = <<>>, clock' = clock
  PROVE  DiskOrder' /\ Adds({})
<1>1. /\ Ordered(files', NULL, <<>>, clock) /\ DiskChunks(files') \subseteq DiskChunks(files) \cup Contents(pend)
      /\ \A t \in Second : FileChunks(files', NULL, <<>>, t) \subseteq FileChunks(files, curr_fp, pend, t)
  BY ClosePart DEF DiskOrder
<1>2. DiskOrder'
  BY <1>1 DEF DiskOrder
<1>3. Wet' \subseteq Wet
  BY <1>1, NothingOrdered DEF Wet, OnDisk
<1>4. QED
  BY <1>1, <1>2, <1>3 DEF Adds

(* The message at hand holds the newest chunks, in order.                  *)
LEMMA NewestData ==
  ASSUME IndInv, Newest, msg # NULL, rpc # "done"
  PROVE  /\ msg \in Message /\ msg.data \in Seq(Chunk) /\ Increasing(msg.data)
         /\ Older \in Nat /\ Older <= got /\ got \in Nat
         /\ \A x \in Contents(msg.data) : x \in Int /\ x > Older /\ x <= got
         /\ Below(Wet, Contents(msg.data))
         /\ Below(Contents(arrived), Contents(msg.data))
         /\ Below(InMessage(smsg), Contents(msg.data))
         /\ Below(QueueChunks(queue), Contents(msg.data))
<1>1. msg \in Message /\ msg.data \in Seq(Chunk) /\ Len(msg.data) \in Nat
  BY MessageParts DEF IndInv, RecvInv, MsgShape
<1>2. got \in Nat /\ file_count \in Nat /\ file_count + Len(msg.data) <= got
  BY DEF IndInv, RecvInv, RecvCount, AtHand, NamesInv
<1>3. Older = got - Len(msg.data) /\ Len(msg.data) <= got
  BY <1>1, <1>2 DEF Older, AtHand
<1>4. \A i \in 1 .. Len(msg.data) : msg.data[i] = Older + i
  BY <1>3 DEF Newest
<1>5. Older \in Nat /\ Older <= got
  BY <1>1, <1>2, <1>3
<1>6. Increasing(msg.data)
  BY <1>1, <1>4, <1>5 DEF Increasing
<1>7. ASSUME NEW x \in Contents(msg.data)
      PROVE  x \in Int /\ x > Older /\ x <= got
  <2>1. PICK i \in 1 .. Len(msg.data) : x = Older + i
    BY <1>4 DEF Contents
  <2>2. i \in Nat /\ i > 0 /\ i <= Len(msg.data) /\ got = Older + Len(msg.data)
    BY <1>1, <1>2, <1>3, <2>1
  <2>3. QED
    BY <1>1, <1>5, <2>1, <2>2, SumChunk
<1>8. ASSUME NEW S, S \subseteq 1 .. Older
      PROVE  Below(S, Contents(msg.data))
  <2>1. \A x \in S : x \in Int /\ x <= Older
    BY <1>5, <1>8
  <2>2. QED
    BY <1>5, <1>7, <2>1 DEF Below
<1>9. /\ Contents(arrived) \subseteq 1 .. Older /\ InMessage(smsg) \subseteq 1 .. Older
      /\ QueueChunks(queue) \subseteq 1 .. Older /\ Wet \subseteq 1 .. Older
  BY DEF Newest
<1>10. QED
  BY <1>1, <1>2, <1>5, <1>6, <1>7, <1>8, <1>9

(* datafile_write_datamsg.                                                 *)
LEMMA WriteStep ==
  ASSUME IndInv, Newest, DiskOrder, write_datamsg
  PROVE  /\ DiskOrder' /\ Adds(Contents(msg.data)) /\ clock <= clock'
         /\ names_msg' = NULL => names_msg = NULL /\ Adds({})
<1> DEFINE D == Contents(msg.data)
<1>0. /\ rpc = "write" /\ msg # NULL /\ clock \in Int /\ clock \in 0 .. (Traffic + 1)
      /\ clock <= clock /\ curr_fp \in Path \cup {NULL}
  BY DEF write_datamsg, RGoto, IndInv, RecvInv, MsgShape, DiskInv, NamesInv
<1>1. /\ msg.data \in Seq(Chunk) /\ Increasing(msg.data) /\ Below(Wet, D)
  BY <1>0, NewestData
<1>2. Below(DiskChunks(files) \cup Contents(pend), D)
  BY <1>1 DEF Wet, OnDisk
<1>3. NamesInv /\ file_count + 1 <= Traffic
  <2>1. Len(msg.data) > 0 /\ Len(msg.data) \in Nat
    BY <1>0, <1>1, HoldsChunk DEF IndInv, RecvInv, MsgShape
  <2>2. file_count \in Nat /\ got \in Nat /\ got <= Traffic /\ file_count + Len(msg.data) <= got
    BY <1>0, ConfAssumption DEF IndInv, RecvInv, RecvCount, AtHand, NamesInv
  <2>3. QED
    BY <2>1, <2>2, ConfAssumption DEF IndInv
<1>4. names_msg # NULL => names_msg \in Message
  BY DEF IndInv, NamesInv
<1>5. CASE /\ \E out \in Written(pend) : files' = Flushed(files, curr_fp, out)
           /\ curr_fp' = NULL /\ pend' = <<>> /\ clock' = clock
           /\ \E fp, count : WriteFails(fp, names_msg, count) /\ (fp # NULL => fp = curr_fp)
  <2>1. DiskOrder' /\ Adds({})
    BY <1>5, CloseStep
  <2>2. Adds(D)
    BY <2>1 DEF Adds
  <2>3. names_msg' = NULL => names_msg = NULL
    <3>1. PICK fp : /\ names_msg' = IF fp = NULL THEN names_msg ELSE [names_msg EXCEPT !.len = @ - 1]
                    /\ fp # NULL => fp = curr_fp
      BY <1>5 DEF WriteFails
    <3>2. CASE fp = NULL
      BY <3>1, <3>2
    <3>3. CASE fp # NULL
      <4>1. curr_fp # NULL /\ names_msg # NULL /\ names_msg \in Message /\ names_msg.len > 0
        BY <1>3, <1>4, <3>1, <3>3 DEF NamesInv, NamesMatchFiles
      <4>2. names_msg' = Shorter(names_msg)
        BY <3>1, <3>3 DEF Shorter
      <4>3. QED
        BY <4>1, <4>2, ShorterMessage
    <3>4. QED
      BY <3>2, <3>3
  <2>4. QED
    BY <1>0, <1>5, <2>1, <2>2, <2>3
<1>6. CASE /\ write_current /\ clock' = clock
           /\ WriteSucceeds(files, curr_fp, names_msg, file_count, pend, curr_fsize)
  <2>1. /\ curr_fp # NULL /\ curr_fp' = curr_fp /\ names_msg' = names_msg
        /\ \/ files' = Flushed(files, curr_fp, pend \o msg.data) /\ pend' = <<>>
           \/ files' = files /\ pend' = pend \o msg.data
    BY <1>6 DEF write_current, WriteSucceeds
  <2>2. Ordered(files, curr_fp, pend, clock)
    BY DEF DiskOrder
  <2>3. /\ Ordered(files', curr_fp, pend', clock)
        /\ DiskChunks(files') \cup Contents(pend') = DiskChunks(files) \cup Contents(pend) \cup D
        /\ \A t \in Second : FileChunks(files', curr_fp, pend', t)
                               \subseteq FileChunks(files, curr_fp, pend, t) \cup D
    BY <1>1, <1>2, <2>1, <2>2, StoreOrdered
  <2>4. DiskOrder' /\ Adds(D)
    BY <1>6, <2>1, <2>3 DEF DiskOrder, Adds, Wet, OnDisk
  <2>5. names_msg # NULL
    BY <1>3, <2>1 DEF NamesInv, NamesMatchFiles
  <2>6. QED
    BY <1>0, <1>6, <2>1, <2>4, <2>5
<1>6a. CASE /\ curr_fp # NULL /\ clock' = clock
            /\ \E out \in Written(pend \o msg.data) : files' = Flushed(files, curr_fp, out)
            /\ WriteFails(curr_fp, names_msg, file_count)
  <2>1. PICK out \in Written(pend \o msg.data) : files' = Flushed(files, curr_fp, out)
    BY <1>6a
  <2>2. Ordered(files, curr_fp, pend, clock)
    BY DEF DiskOrder
  <2>3. /\ Ordered(files, curr_fp, pend \o msg.data, clock)
        /\ \A t \in Second : FileChunks(files, curr_fp, pend \o msg.data, t)
                              \subseteq FileChunks(files, curr_fp, pend, t) \cup D
    BY <1>1, <1>2, <1>6a, <2>2, AddOrdered
  <2>4. Contents(pend \o msg.data) = Contents(pend) \cup D
    BY <1>1, <2>2, ContentsConcat DEF Ordered
  <2> DEFINE h == pend \o msg.data
  <2> HIDE DEF h
  <2>5. /\ Ordered(files', NULL, <<>>, clock) /\ DiskChunks(files') \subseteq DiskChunks(files) \cup Contents(h)
        /\ \A t \in Second : FileChunks(files', NULL, <<>>, t) \subseteq FileChunks(files, curr_fp, h, t)
    BY <2>1, <2>3, ClosePart DEF h
  <2>6. curr_fp' = NULL /\ pend' = <<>> /\ names_msg' = Shorter(names_msg)
    BY <1>6a DEF WriteFails, Shorter
  <2>7. DiskOrder'
    BY <1>6a, <2>5, <2>6 DEF DiskOrder
  <2>8. Adds(D)
    BY <2>3, <2>4, <2>5, <2>6, NothingOrdered DEF Adds, Wet, OnDisk, h
  <2>9. names_msg # NULL /\ names_msg \in Message /\ names_msg.len > 0
    BY <1>3, <1>4, <1>6a DEF NamesInv, NamesMatchFiles
  <2>10. QED
    BY <1>0, <1>6a, <2>6, <2>7, <2>8, <2>9, ShorterMessage
<1>7. ASSUME NEW out \in Written(pend), NEW t \in Now, Created(t, Flushed(files, curr_fp, out))
      PROVE  DiskOrder' /\ Adds(D) /\ clock <= clock' /\ names_msg' # NULL
  <2> DEFINE closed == Flushed(files, curr_fp, out)
             op == Opened(closed, DataPath(t))
  <2>0. clock' = t
    BY <1>7 DEF Created
  <2>1. t \in Second /\ t \in {clock, clock + 1} /\ clock <= t
    BY <1>0 DEF Now, Second
  <2>2. /\ Ordered(closed, NULL, <<>>, clock) /\ DiskChunks(closed) \subseteq DiskChunks(files) \cup Contents(pend)
        /\ \A u \in Second : FileChunks(closed, NULL, <<>>, u) \subseteq FileChunks(files, curr_fp, pend, u)
    BY ClosePart DEF DiskOrder
  <2>2a. \/ WriteSucceeds(op, DataPath(t), WithName(t), file_count + 1, <<>>, 0)
         \/ /\ \E part \in Written(msg.data) : files' = Flushed(op, DataPath(t), part)
            /\ WriteFails(DataPath(t), WithName(t), file_count + 1)
    BY <1>7 DEF Created
  <2> HIDE DEF closed
  <2>3. /\ Ordered(op, DataPath(t), <<>>, t) /\ DiskChunks(op) = DiskChunks(closed)
        /\ \A u \in Second : FileChunks(op, DataPath(t), <<>>, u) = FileChunks(closed, NULL, <<>>, u)
    BY <2>1, <2>2, OpenOrdered
  <2>4. WithName(t) \in Message /\ WithName(t) # NULL /\ WithName(t).len = file_count + 1 /\ file_count \in Nat
    BY <1>3, <2>1, OneMoreName DEF NamesInv
  <2> HIDE DEF op
  <2>5. DataPath(t) # NULL
    BY <2>1, Paths, NotPaths
  <2>5a. Below(DiskChunks(op) \cup Contents(<<>>), D)
    <3>1. DiskChunks(op) \cup Contents(<<>>) \subseteq DiskChunks(files) \cup Contents(pend)
      BY <2>2, <2>3, NothingOrdered
    <3>2. QED
      BY <1>2, <3>1 DEF Below
  <2>6. CASE WriteSucceeds(op, DataPath(t), WithName(t), file_count + 1, <<>>, 0)
    <3>1. /\ curr_fp' = DataPath(t) /\ names_msg' = WithName(t)
          /\ \/ files' = Flushed(op, DataPath(t), <<>> \o msg.data) /\ pend' = <<>>
             \/ files' = op /\ pend' = <<>> \o msg.data
      BY <2>6 DEF WriteSucceeds
    <3>2. Below(DiskChunks(op) \cup Contents(<<>>), D)
      BY <2>5a
    <3>3. /\ Ordered(files', DataPath(t), pend', t)
          /\ DiskChunks(files') \cup Contents(pend') = DiskChunks(op) \cup Contents(<<>>) \cup D
          /\ \A u \in Second : FileChunks(files', DataPath(t), pend', u)
                                 \subseteq FileChunks(op, DataPath(t), <<>>, u) \cup D
      BY <1>1, <2>3, <2>5, <3>1, <3>2, StoreOrdered
    <3>4. DiskOrder'
      BY <2>0, <3>1, <3>3 DEF DiskOrder
    <3>5. Adds(D)
      BY <2>2, <2>3, <3>1, <3>3, NothingOrdered DEF Adds, Wet, OnDisk
    <3>6. QED
      BY <2>0, <2>1, <2>4, <3>1, <3>4, <3>5
  <2>7. CASE /\ \E part \in Written(msg.data) : files' = Flushed(op, DataPath(t), part)
             /\ WriteFails(DataPath(t), WithName(t), file_count + 1)
    <3>1. curr_fp' = NULL /\ pend' = <<>> /\ names_msg' = Shorter(WithName(t))
      BY <2>5, <2>7 DEF WriteFails, Shorter
    <3>2. PICK part \in Written(msg.data) : files' = Flushed(op, DataPath(t), part)
      BY <2>7
    <3>3. <<>> \o msg.data = msg.data
      BY <1>1
    <3>4. /\ Ordered(op, DataPath(t), <<>> \o msg.data, t)
          /\ \A u \in Second : FileChunks(op, DataPath(t), <<>> \o msg.data, u)
                                \subseteq FileChunks(op, DataPath(t), <<>>, u) \cup D
      BY <1>1, <2>3, <2>5, <2>5a, AddOrdered
    <3>5. /\ Ordered(op, DataPath(t), msg.data, t)
          /\ \A u \in Second : FileChunks(op, DataPath(t), msg.data, u)
                                \subseteq FileChunks(op, DataPath(t), <<>>, u) \cup D
      BY <3>3, <3>4
    <3>6. /\ Ordered(files', NULL, <<>>, t) /\ DiskChunks(files') \subseteq DiskChunks(op) \cup D
          /\ \A u \in Second : FileChunks(files', NULL, <<>>, u) \subseteq FileChunks(op, DataPath(t), msg.data, u)
      BY <3>2, <3>5, ClosePart
    <3>7. DiskOrder'
      BY <2>0, <3>1, <3>6 DEF DiskOrder
    <3>8. Adds(D)
      BY <2>2, <2>3, <3>1, <3>5, <3>6, NothingOrdered DEF Adds, Wet, OnDisk
    <3>9. names_msg' # NULL
      BY <2>4, <3>1, ShorterMessage
    <3>10. QED
      BY <2>0, <2>1, <3>7, <3>8, <3>9
  <2>8. QED
    BY <2>2a, <2>6, <2>7
<1>8. CASE write_cache_full
  BY <1>5, <1>8 DEF write_cache_full, WriteFails
<1>9. CASE write_current
  <2>1. clock' = clock /\ curr_fp # NULL
    BY <1>9 DEF write_current
  <2>2. CASE WriteSucceeds(files, curr_fp, names_msg, file_count, pend, curr_fsize)
    BY <1>6, <1>9, <2>1, <2>2
  <2>3. CASE /\ \E out \in Written(pend \o msg.data) : files' = Flushed(files, curr_fp, out)
             /\ WriteFails(curr_fp, names_msg, file_count)
    BY <1>6a, <2>1, <2>3
  <2>4. QED
    BY <1>9, <2>2, <2>3 DEF write_current
<1>10. CASE write_new
  <2>1. PICK out \in Written(pend) :
          \/ /\ files' = Flushed(files, curr_fp, out)
             /\ WriteFails(NULL, names_msg, file_count)
             /\ UNCHANGED clock
          \/ \E t \in Now : Created(t, Flushed(files, curr_fp, out))
    BY <1>10 DEF write_new, Created
  <2>2. CASE /\ files' = Flushed(files, curr_fp, out)
             /\ WriteFails(NULL, names_msg, file_count)
             /\ UNCHANGED clock
    BY <1>5, <2>2 DEF WriteFails
  <2>3. CASE \E t \in Now : Created(t, Flushed(files, curr_fp, out))
    BY <1>7, <2>3
  <2>4. QED
    BY <2>1, <2>2, <2>3
<1>11. QED
  BY <1>8, <1>9, <1>10 DEF write_datamsg

--------------------------------------------------------------------------------
(* The steps while the sender sends.                                       *)

(* A step that moves no chunk and no message.                              *)
Quiet ==
  /\ UNCHANGED <<queue, files, clock, msg, got, names_msg, curr_fp, pend, smsg, arrived>>
  /\ rpc' = rpc \/ rpc' \notin {"recv", "flush", "detach"} \/ (rpc = "recv" /\ rpc' = "flush")
  /\ rpc = "done" => rpc' = "done"

(* Once the sender has turned to the dump it never sends again.            *)
LEMMA LiveStep ==
  ASSUME IndInv, [Next]_vars, Live'
  PROVE  /\ Live
         /\ \/ Quiet
            \/ push_names \/ detach_names \/ netlink_sock_recv \/ flush \/ write_datamsg \/ last_push
            \/ sender_pop \/ send_log_buff \/ send_log_file
<1> USE DEF IndInv
<1>1. CASE UNCHANGED vars
  BY <1>1 DEF vars, svars, slocal, rvars, rlocal, datafile, disk, outside, Live, Running, Quiet
<1>2. CASE Running /\ ReceiverStep
  <2>1. UNCHANGED <<spc, smsg, arrived>> /\ Live
    BY <1>2, ReceiverFrame DEF svars, slocal, Live
  <2>2. CASE receiver_start \/ receiver_start_fails \/ select_ready \/ select_timeout \/ receiver_quitcheck
    <3>1. UNCHANGED <<queue, files, clock, msg, got, names_msg, curr_fp, pend>>
      BY <2>2 DEF receiver_start, receiver_start_fails, select_ready, select_timeout, receiver_quitcheck,
         rlocal, datafile, disk
    <3>2. rpc' \in {"select", "done", "names", "quitcheck", "lastpush"} /\ rpc # "done"
      BY <2>2 DEF receiver_start, receiver_start_fails, select_ready, select_timeout,
         receiver_quitcheck, RGoto
    <3>3. QED
      BY <2>1, <3>1, <3>2 DEF Quiet
  <2>3. QED
    BY <1>2, <2>1, <2>2 DEF ReceiverStep
<1>3. CASE Running /\ SenderStep
  <2>1. UNCHANGED <<proc, rpc, msg, got, names_msg, pend>>
    BY <1>3, SenderFrame DEF rlocal
  <2>2. CASE sender_pop_timeout \/ sender_quitcheck \/ send_files_end \/ sender_check
    <3>1. UNCHANGED <<queue, files, clock, curr_fp, smsg, arrived>>
          /\ spc \in {"pop", "quitcheck", "send", "check"}
      BY <2>2 DEF sender_pop_timeout, sender_quitcheck, send_files_end, sender_check, SGoto,
         rvars, datafile, disk, outside, slocal
    <3>2. QED
      BY <1>3, <2>1, <3>1 DEF Quiet, Live
  <2>3. CASE sender_pop \/ send_log_buff \/ send_log_file
    BY <1>3, <2>3 DEF sender_pop, send_log_buff, send_log_file, SGoto, Live
  <2>4. CASE dump_rename \/ dump_names_end \/ dump_open \/ dump_write \/ dump_pop \/ dump_pop_timeout
    BY <2>4 DEF dump_rename, dump_names_end, dump_open, dump_write, dump_pop, dump_pop_timeout,
                SGoto, Live
  <2>5. QED
    BY <1>3, <2>2, <2>3, <2>4 DEF SenderStep
<1>4. CASE Running /\ (Signal \/ user_loggin \/ MainStep \/ StarterStep)
  <2>1. CASE MemoryGone /\ proc' \in {"exit", "exec"}
    BY <2>1 DEF Live, Running
  <2>2. CASE UNCHANGED <<proc, queue, disk, rvars, svars, outside>>
    BY <2>2 DEF svars, slocal, rvars, rlocal, datafile, disk, outside, Live, Running, Quiet
  <2>3. CASE create_receiver
    BY <2>3 DEF create_receiver, svars, slocal, rlocal, datafile, disk, outside, Live, Running, Quiet,
                MainInv
  <2>4. CASE create_sender
    BY <1>4, <2>4 DEF create_sender, svars, slocal, rvars, rlocal, datafile, disk, outside, Live, Quiet, MainInv
  <2>5. QED
    BY <1>4, <2>1, <2>2, <2>3, <2>4, MainFrame
<1>5. QED
  BY <1>1, <1>2, <1>3, <1>4 DEF Next

(* What IndInv says of the places a chunk can be in.                       *)
LEMMA Places ==
  ASSUME IndInv
  PROVE  /\ queue \in Seq(Message) /\ Len(queue) \in Nat
         /\ \A i \in 1 .. Len(queue) : queue[i] \in Message
         /\ msg # NULL => msg \in Message
         /\ smsg # NULL => smsg \in Message
         /\ names_msg # NULL => names_msg \in Message /\ names_msg.type = 1 /\ names_msg.data = <<>>
         /\ arrived \in Seq(Chunk) /\ pend \in Seq(Chunk) /\ got \in Nat
<1>1. queue \in Seq(Message)
  BY DEF IndInv, SendInv
<1>2. Len(queue) \in Nat /\ \A i \in 1 .. Len(queue) : queue[i] \in Message
  BY <1>1
<1>3. QED
  BY <1>1, <1>2 DEF IndInv, SendInv, NamesInv, RecvInv, RecvCount, MsgShape

(* The front of the queue after a push.                                    *)
LEMMA FrontPushed ==
  ASSUME NEW q \in Seq(Message), NEW m \in Message
  PROVE  /\ Len(q) \in Nat /\ Len(Append(q, m)) = Len(q) + 1 /\ Append(q, m)[Len(q) + 1] = m
         /\ \A i \in 1 .. Len(q) : Append(q, m)[i] = q[i]
         /\ \A i \in FrontOf(Append(q, m)) :
              \/ i \in FrontOf(q)
              \/ i = Len(q) + 1 /\ m.type = 0 /\ \A k \in 1 .. Len(q) : q[k].type = 0
<1> DEFINE a == Append(q, m)
<1>1. /\ Len(q) \in Nat /\ Len(a) = Len(q) + 1 /\ a[Len(q) + 1] = m
      /\ \A i \in 1 .. Len(q) : a[i] = q[i]
  OBVIOUS
<1> HIDE DEF a
<1>2. ASSUME NEW i \in FrontOf(a)
      PROVE  \/ i \in FrontOf(q)
             \/ i = Len(q) + 1 /\ m.type = 0 /\ \A k \in 1 .. Len(q) : q[k].type = 0
  <2>1. i \in 1 .. (Len(q) + 1) /\ \A k \in 1 .. i : a[k].type = 0
    BY <1>1, <1>2 DEF FrontOf
  <2>2. CASE i = Len(q) + 1
    <3>1. \A k \in 1 .. Len(q) : k \in 1 .. i /\ i \in 1 .. i
      BY <1>1, <2>2
    <3>2. i \in 1 .. i
      BY <1>1, <2>2
    <3>3. QED
      BY <1>1, <2>1, <2>2, <3>1, <3>2
  <2>3. CASE i # Len(q) + 1
    <3>1. i \in 1 .. Len(q) /\ \A k \in 1 .. i : k \in 1 .. Len(q)
      BY <1>1, <2>1, <2>3
    <3>2. QED
      BY <1>1, <2>1, <3>1 DEF FrontOf
  <2>4. QED
    BY <2>2, <2>3
<1>3. QED
  BY <1>1, <1>2 DEF a

(* ... and after a pop.                                                    *)
LEMMA FrontPopped ==
  ASSUME NEW q \in Seq(Message), q # <<>>
  PROVE  /\ Len(q) \in Nat /\ Len(q) > 0 /\ Head(q) = q[1] /\ Head(q) \in Message
         /\ Len(Tail(q)) = Len(q) - 1 /\ Tail(q) \in Seq(Message)
         /\ \A i \in 1 .. Len(Tail(q)) : i + 1 \in 1 .. Len(q) /\ Tail(q)[i] = q[i + 1]
         /\ \A i \in 2 .. Len(q) : i - 1 \in 1 .. Len(Tail(q)) /\ q[i] = Tail(q)[i - 1]
         /\ Head(q).type = 0 => 1 \in FrontOf(q) /\ \A i \in FrontOf(Tail(q)) : i + 1 \in FrontOf(q)
<1> DEFINE a == Tail(q)
<1>1. /\ Len(q) \in Nat /\ Len(q) > 0 /\ Head(q) = q[1] /\ Head(q) \in Message
      /\ Len(a) = Len(q) - 1 /\ a \in Seq(Message)
      /\ \A i \in 1 .. (Len(q) - 1) : a[i] = q[i + 1]
  OBVIOUS
<1> HIDE DEF a
<1>2. /\ \A i \in 1 .. Len(a) : i + 1 \in 1 .. Len(q) /\ a[i] = q[i + 1]
      /\ \A i \in 2 .. Len(q) : i - 1 \in 1 .. Len(a) /\ q[i] = a[i - 1]
  <2>1. \A i \in 2 .. Len(q) : i - 1 \in 1 .. Len(a) /\ (i - 1) + 1 = i
    BY <1>1
  <2>2. QED
    BY <1>1, <2>1
<1>3. ASSUME Head(q).type = 0
      PROVE  1 \in FrontOf(q)
  <2>1. 1 \in 1 .. Len(q) /\ \A k \in 1 .. 1 : k = 1
    BY <1>1
  <2>2. QED
    BY <1>1, <1>3, <2>1 DEF FrontOf
<1>4. ASSUME Head(q).type = 0, NEW i \in FrontOf(a)
      PROVE  i + 1 \in FrontOf(q)
  <2>1. i \in 1 .. Len(a) /\ i + 1 \in 1 .. Len(q) /\ \A k \in 1 .. i : a[k].type = 0
    BY <1>2, <1>4 DEF FrontOf
  <2>2. ASSUME NEW k \in 1 .. (i + 1)
        PROVE  q[k].type = 0
    <3>1. CASE k = 1
      BY <1>1, <1>4, <3>1
    <3>2. CASE k # 1
      <4>1. k \in 2 .. Len(q) /\ k - 1 \in 1 .. i
        BY <1>1, <2>1, <3>2
      <4>2. QED
        BY <1>2, <2>1, <4>1
    <3>3. QED
      BY <3>1, <3>2
  <2>3. QED
    BY <2>1, <2>2 DEF FrontOf
<1>5. QED
  BY <1>1, <1>2, <1>3, <1>4 DEF a

(* The chunks that have left the message at hand are counted.              *)
LEMMA OlderType ==
  ASSUME IndInv
  PROVE  Older \in Nat /\ Older <= got /\ got \in Nat /\ AtHand \in Nat /\ (rpc # "done" => Older = got - AtHand)
<1>1. got \in Nat /\ file_count \in Nat /\ file_count + AtHand <= got
  BY DEF IndInv, RecvInv, RecvCount, NamesInv
<1>2. AtHand \in Nat
  BY MessageParts DEF AtHand, IndInv, RecvInv, MsgShape
<1>3. QED
  BY <1>1, <1>2 DEF Older

(* The parts that depend on a few variables only.                          *)
LEMMA OrderFrame ==
  /\ DiskOrder /\ UNCHANGED <<files, curr_fp, pend, clock>> => DiskOrder'
  /\ NotOvertaken /\ UNCHANGED <<files, curr_fp, pend, smsg, arrived>> => NotOvertaken'
  /\ UNCHANGED <<files, pend>> => Wet' = Wet
  /\ UNCHANGED smsg => HoldsNames' = HoldsNames
  /\ UNCHANGED queue => NamesQueued' = NamesQueued
  /\ InLine /\ UNCHANGED <<smsg, arrived, queue, files, pend, names_msg>> => InLine'
<1>1. DiskOrder /\ UNCHANGED <<files, curr_fp, pend, clock>> => DiskOrder'
  BY DEF DiskOrder
<1>2. UNCHANGED smsg => HoldsNames' = HoldsNames
  BY DEF HoldsNames
<1>3. NotOvertaken /\ UNCHANGED <<files, curr_fp, pend, smsg, arrived>> => NotOvertaken'
  BY DEF NotOvertaken, HoldsNames, Ahead
<1>4. UNCHANGED queue => NamesQueued' = NamesQueued
  BY DEF NamesQueued
<1>5. InLine /\ UNCHANGED <<smsg, arrived, queue, files, pend, names_msg>> => InLine'
  BY DEF InLine, HoldsNames, NamesQueued, Wet, OnDisk
<1>6. QED
  BY <1>1, <1>2, <1>3, <1>4, <1>5 DEF Wet, OnDisk

(* More chunks may leave the message at hand, never fewer.                 *)
LEMMA StillOlder ==
  ASSUME NEW a \in Nat, NEW b \in Nat, a <= b, NEW S, S \subseteq 1 .. a
  PROVE  S \subseteq 1 .. b
  OBVIOUS

(* A step that moves nothing.                                              *)
LEMMA QuietKeeps ==
  ASSUME IndInv, IndInv', InOrder, Quiet
  PROVE  InOrder'
<1> DEFINE X == Contents(arrived) \cup InMessage(smsg) \cup QueueChunks(queue) \cup Wet
<1>1. UNCHANGED <<queue, files, clock, msg, got, names_msg, curr_fp, pend, smsg, arrived>>
  BY DEF Quiet
<1>2. Newest'
  <2>1. Older \in Nat /\ got \in Nat /\ Older <= got /\ Older <= Older
    BY OlderType
  <2>2. AtHand' = AtHand
    BY <1>1 DEF AtHand
  <2>3. Older' = Older \/ Older' = got
    BY <1>1, <2>2 DEF Older, Quiet
  <2>4. X \subseteq 1 .. Older /\ X' = X
    BY <1>1, OrderFrame DEF InOrder, Newest
  <2>5. X' \subseteq 1 .. Older'
    BY <2>1, <2>3, <2>4, StillOlder
  <2>6. QED
    BY <1>1, <2>5 DEF InOrder, Newest, Quiet
<1>3. DiskOrder' /\ NotOvertaken'
  BY <1>1, OrderFrame DEF InOrder
<1>4. NamesOrder'
  BY <1>1, OrderFrame DEF InOrder, NamesOrder, Quiet
<1>5. InLine'
  BY <1>1, OrderFrame DEF InOrder
<1>6. QED
  BY <1>2, <1>3, <1>4, <1>5 DEF InOrder

(* The names of the files are offered to the queue.                        *)
LEMMA PushNamesKeeps ==
  ASSUME IndInv, IndInv', InOrder, push_names, UNCHANGED <<smsg, arrived>>
  PROVE  InOrder'
<1> DEFINE m == IF msg = NULL THEN message_new(node_size, 0) ELSE msg
           X == Contents(arrived) \cup InMessage(smsg) \cup QueueChunks(queue) \cup Wet
<1>1. UNCHANGED <<files, clock, got, names_msg, curr_fp, pend, smsg, arrived>> /\ rpc = "names"
  BY DEF push_names, disk, datafile
<1>2. m \in Message /\ m # NULL /\ m.data \in Seq(Chunk)
  BY Places, NewMessages, MessageParts
<1>3. /\ \A i \in 1 .. Len(m.data) : m.data[i] = (got - Len(m.data)) + i
      /\ m.names = <<>> /\ (names_msg # NULL /\ m.len > 0 => m.type = 1)
      /\ Len(m.data) = AtHand
  BY <1>2 DEF InOrder, Newest, message_new, AtHand
<1> HIDE DEF m
<1>4. \/ names_msg = NULL /\ rpc' = "recv" /\ msg' = m /\ queue' = queue
      \/ names_msg # NULL /\ push_ok(names_msg) /\ rpc' = "detach" /\ msg' = m
      \/ names_msg # NULL /\ queue' = queue /\ rpc' = "recv" /\ msg' = [m EXCEPT !.type = 1]
  BY DEF push_names, push_timeout, m
<1>5. msg' # NULL /\ msg'.data = m.data /\ msg'.names = m.names /\ msg'.len = m.len
      /\ (msg'.type = 1 \/ msg'.type = m.type)
  <2>1. CASE msg' = m
    BY <1>2, <2>1
  <2>2. CASE msg' = [m EXCEPT !.type = 1]
    <3>1. msg' # NULL /\ msg'.data = m.data /\ msg'.len = m.len
      BY <1>2, <2>2, SetType
    <3>2. msg'.names = m.names /\ msg'.type = 1
      BY <1>2, <2>2 DEF Message
    <3>3. QED
      BY <3>1, <3>2
  <2>3. QED
    BY <1>4, <2>1, <2>2
<1>6. Older' = Older
  BY <1>1, <1>3, <1>4, <1>5 DEF Older, AtHand
<1>7. QueueChunks(queue') = QueueChunks(queue)
  <2>1. CASE queue' = queue
    BY <2>1
  <2>2. CASE names_msg # NULL /\ queue' = Append(queue, names_msg)
    <3>1. InMessage(names_msg) = {} /\ names_msg \in Message /\ queue \in Seq(Message)
      BY <2>2, Places, NothingOrdered DEF InMessage
    <3>2. QED
      BY <2>2, <3>1, QueuePushed
  <2>3. QED
    BY <1>4, <2>1, <2>2 DEF push_ok
<1>8. Newest'
  <2>1. Contents(arrived') \cup InMessage(smsg') \cup QueueChunks(queue') \cup Wet' \subseteq 1 .. Older'
    BY <1>1, <1>6, <1>7, OrderFrame DEF InOrder, Newest
  <2>2. \A i \in 1 .. Len(msg'.data) : msg'.data[i] = (got' - Len(msg'.data)) + i
    BY <1>1, <1>3, <1>5
  <2>3. names_msg' # NULL /\ (msg'.len > 0 \/ rpc' \in {"recv", "flush"}) => msg'.type = 1
    BY <1>1, <1>2, <1>3, <1>4 DEF Message
  <2>4. QED
    BY <1>3, <1>5, <2>1, <2>2, <2>3 DEF Newest
<1>9. DiskOrder' /\ NotOvertaken'
  BY <1>1, OrderFrame DEF InOrder
<1>10. CASE queue' = queue /\ rpc' # "detach"
  <2>1. NamesOrder'
    BY <1>1, <1>10, OrderFrame DEF InOrder, NamesOrder
  <2>2. InLine'
    BY <1>1, <1>10, OrderFrame DEF InOrder
  <2>3. QED
    BY <1>8, <1>9, <2>1, <2>2 DEF InOrder
<1>11. CASE names_msg # NULL /\ queue' = Append(queue, names_msg)
  <2>1. names_msg \in Message /\ names_msg.type = 1 /\ names_msg.data = <<>> /\ queue \in Seq(Message)
    BY <1>11, Places
  <2>2. /\ Len(queue) \in Nat /\ Len(queue') = Len(queue) + 1 /\ queue'[Len(queue) + 1] = names_msg
        /\ \A i \in 1 .. Len(queue) : queue'[i] = queue[i]
        /\ FrontOf(queue') \subseteq FrontOf(queue)
    BY <1>11, <2>1, FrontPushed
  <2>3. NamesQueued'
    BY <2>1, <2>2 DEF NamesQueued
  <2>4. NamesOrder'
    <3>1. Sorted(names_msg) /\ Increasing(names_msg.data)
      BY <1>11, <2>1, NothingOrdered DEF InOrder, NamesOrder
    <3>2. \A i \in 1 .. Len(queue') : i \in 1 .. Len(queue) \/ i = Len(queue) + 1
      BY <2>2
    <3>3. \A i \in 1 .. Len(queue') : Sorted(queue'[i]) /\ Increasing(queue'[i].data)
      BY <2>2, <3>1, <3>2 DEF InOrder, NamesOrder
    <3>4. QED
      BY <1>1, <2>3, <3>3 DEF InOrder, NamesOrder
  <2>5. InLine'
    <3>1. \A i \in FrontOf(queue') : i \in FrontOf(queue) /\ i \in 1 .. Len(queue) /\ queue'[i] = queue[i]
                                      /\ \A k \in 1 .. (i - 1) : queue'[k] = queue[k]
      BY <2>2 DEF FrontOf
    <3>2. HoldsNames' = HoldsNames /\ Wet' = Wet /\ arrived' = arrived /\ smsg' = smsg
      BY <1>1, OrderFrame
    <3>3. SUFFICES ASSUME ~HoldsNames PROVE InLine'
      BY <3>2 DEF InLine
    <3>4. QED
      BY <2>3, <3>1, <3>2, <3>3 DEF InOrder, InLine
  <2>6. QED
    BY <1>8, <1>9, <2>4, <2>5 DEF InOrder
<1>12. QED
  BY <1>4, <1>10, <1>11 DEF push_ok

(* The file is closed after its name was queued.                           *)
LEMMA DetachKeeps ==
  ASSUME IndInv, InOrder, detach_names, UNCHANGED <<smsg, arrived>>
  PROVE  InOrder'
<1>1. /\ UNCHANGED <<queue, clock, got, smsg, arrived>> /\ rpc = "detach" /\ rpc' = "recv"
      /\ names_msg' = NULL /\ msg' = [msg EXCEPT !.type = 0]
      /\ \E out \in Written(pend) : files' = Flushed(files, curr_fp, out)
      /\ curr_fp' = NULL /\ pend' = <<>>
  BY DEF detach_names, RGoto, close_datafile
<1>2. msg # NULL /\ msg \in Message
  BY <1>1 DEF IndInv, RecvInv, MsgShape
<1>3. msg' # NULL /\ msg'.data = msg.data /\ msg'.names = msg.names
  <2>1. msg' # NULL /\ msg'.data = msg.data
    BY <1>1, <1>2, SetType
  <2>2. msg'.names = msg.names
    BY <1>1, <1>2 DEF Message
  <2>3. QED
    BY <2>1, <2>2
<1>4. DiskOrder' /\ Adds({})
  BY <1>1, CloseStep DEF InOrder
<1>5. Wet' \subseteq Wet
  BY <1>4 DEF Adds
<1>6. Older' = Older
  BY <1>1, <1>2, <1>3 DEF Older, AtHand
<1>7. Newest'
  <2>1. Contents(arrived') \cup InMessage(smsg') \cup QueueChunks(queue') \cup Wet' \subseteq 1 .. Older'
    BY <1>1, <1>5, <1>6 DEF InOrder, Newest
  <2>2. QED
    BY <1>1, <1>2, <1>3, <2>1 DEF InOrder, Newest
<1>8. HoldsNames' = HoldsNames /\ NamesQueued' = NamesQueued
  BY <1>1, OrderFrame
<1>9. NamesOrder'
  BY <1>1, <1>8 DEF InOrder, NamesOrder
<1>10. InLine'
  <2>1. SUFFICES ASSUME ~HoldsNames PROVE InLine'
    BY <1>8 DEF InLine
  <2>2. NamesQueued
    BY <1>1, <2>1 DEF InOrder, NamesOrder
  <2>3. QED
    BY <1>1, <1>5, <1>8, <2>1, <2>2 DEF InOrder, InLine, Below
<1>11. NotOvertaken'
  <2>1. SUFFICES ASSUME HoldsNames, NEW i \in 1 .. Len(smsg.names),
                        NEW v \in FileChunks(files', curr_fp', pend', smsg.names[i])
                 PROVE  Ahead(v)
    BY <1>1, <1>8 DEF NotOvertaken, Ahead
  <2>2. smsg.names[i] \in Second
    BY <2>1, Places, MessageParts DEF HoldsNames
  <2>3. QED
    BY <1>4, <2>1, <2>2 DEF InOrder, NotOvertaken, Adds
<1>12. QED
  BY <1>4, <1>7, <1>9, <1>10, <1>11 DEF InOrder

(* A datagram is received.                                                 *)
LEMMA RecvOrder ==
  ASSUME IndInv, IndInv', InOrder, netlink_sock_recv, UNCHANGED <<smsg, arrived>>
  PROVE  InOrder'
<1>1. /\ UNCHANGED <<queue, files, clock, names_msg, curr_fp, pend, smsg, arrived>>
      /\ rpc = "recv" /\ rpc' = "flush"
  BY DEF netlink_sock_recv, RGoto, disk, datafile
<1>2. CASE UNCHANGED <<msg, got>>
  BY <1>1, <1>2, QuietKeeps DEF Quiet
<1>3. CASE got' = got + 1 /\ \E n \in 1 .. MAX_BUFF_SIZE : msg' = Received(msg, n, got + 1)
  <2>1. msg # NULL /\ msg \in Message /\ msg.data \in Seq(Chunk) /\ Len(msg.data) \in Nat /\ got \in Nat
    BY <1>1, MessageParts, OlderType DEF IndInv, RecvInv, MsgShape
  <2>2. PICK n \in 1 .. MAX_BUFF_SIZE : msg' = Received(msg, n, got + 1)
    BY <1>3
  <2>3. /\ msg' # NULL /\ msg'.data = Append(msg.data, got + 1) /\ msg'.names = msg.names
        /\ msg'.type = msg.type
    <3>1. msg' # NULL
      BY <1>1 DEF IndInv, RecvInv, MsgShape
    <3>2. msg'.data = Append(msg.data, got + 1) /\ msg'.names = msg.names /\ msg'.type = msg.type
      BY <2>1, <2>2 DEF Received, Message
    <3>3. QED
      BY <3>1, <3>2
  <2>4. /\ Len(msg'.data) = Len(msg.data) + 1 /\ msg'.data[Len(msg.data) + 1] = got + 1
        /\ \A i \in 1 .. Len(msg.data) : msg'.data[i] = msg.data[i]
    BY <2>1, <2>3
  <2>5. AtHand = Len(msg.data) /\ AtHand' = Len(msg.data) + 1
    BY <2>1, <2>3, <2>4 DEF AtHand
  <2>6. Older' = Older
    BY <1>1, <1>3, <2>1, <2>5 DEF Older
  <2>7. Newest'
    <3>1. Contents(arrived') \cup InMessage(smsg') \cup QueueChunks(queue') \cup Wet' \subseteq 1 .. Older'
      BY <1>1, <2>6, OrderFrame DEF InOrder, Newest
    <3>2. ASSUME NEW i \in 1 .. Len(msg'.data)
          PROVE  msg'.data[i] = (got' - Len(msg'.data)) + i
      <4>1. i \in 1 .. Len(msg.data) \/ i = Len(msg.data) + 1
        BY <2>1, <2>4
      <4>2. got' - Len(msg'.data) = got - Len(msg.data)
        BY <1>3, <2>1, <2>4
      <4>3. CASE i \in 1 .. Len(msg.data)
        BY <2>1, <2>4, <4>2, <4>3 DEF InOrder, Newest
      <4>4. CASE i = Len(msg.data) + 1
        BY <2>1, <2>4, <4>2, <4>4
      <4>5. QED
        BY <4>1, <4>3, <4>4
    <3>3. names_msg' # NULL => msg'.type = 1
      BY <1>1, <2>1, <2>3 DEF InOrder, Newest
    <3>4. msg'.names = <<>>
      BY <2>1, <2>3 DEF InOrder, Newest
    <3>5. QED
      BY <3>1, <3>2, <3>3, <3>4 DEF Newest
  <2>8. DiskOrder' /\ NotOvertaken' /\ InLine'
    BY <1>1, OrderFrame DEF InOrder
  <2>9. NamesOrder'
    BY <1>1, OrderFrame DEF InOrder, NamesOrder
  <2>10. QED
    BY <2>7, <2>8, <2>9 DEF InOrder
<1>4. QED
  BY <1>2, <1>3 DEF netlink_sock_recv, Received

(* The message at hand goes to the queue, behind all that is in line.      *)
LEMMA PushData ==
  ASSUME IndInv, InOrder, msg # NULL, rpc \in {"flush", "lastpush"}, queue' = Append(queue, msg),
         UNCHANGED <<files, clock, got, names_msg, curr_fp, pend, smsg, arrived>>
  PROVE  /\ InLine' /\ DiskOrder' /\ NotOvertaken'
         /\ Contents(arrived') \cup InMessage(smsg') \cup QueueChunks(queue') \cup Wet' \subseteq 1 .. got
         /\ \A i \in 1 .. Len(queue') : Sorted(queue'[i]) /\ Increasing(queue'[i].data)
<1>1. /\ msg \in Message /\ msg.data \in Seq(Chunk) /\ Increasing(msg.data)
      /\ Older \in Nat /\ Older <= got /\ got \in Nat
      /\ \A x \in Contents(msg.data) : x \in Int /\ x > Older /\ x <= got
      /\ Below(Contents(arrived), Contents(msg.data))
      /\ Below(InMessage(smsg), Contents(msg.data))
      /\ Below(QueueChunks(queue), Contents(msg.data))
  BY NewestData DEF InOrder
<1>2. InMessage(msg) = Contents(msg.data) /\ queue \in Seq(Message)
  BY Places DEF InMessage
<1>3. QueueChunks(queue') = QueueChunks(queue) \cup Contents(msg.data)
  BY <1>1, <1>2, QueuePushed
<1>4. Wet' = Wet /\ DiskOrder' /\ NotOvertaken' /\ HoldsNames' = HoldsNames
  BY OrderFrame DEF InOrder
<1>5. Contents(arrived') \cup InMessage(smsg') \cup QueueChunks(queue') \cup Wet' \subseteq 1 .. got
  <2>1. Contents(arrived) \cup InMessage(smsg) \cup QueueChunks(queue) \cup Wet \subseteq 1 .. Older
    BY DEF InOrder, Newest
  <2>2. Contents(arrived) \cup InMessage(smsg) \cup QueueChunks(queue) \cup Wet \subseteq 1 .. got
    BY <1>1, <2>1, StillOlder
  <2>3. \A x \in Contents(msg.data) : x \in 1 .. got
    BY <1>1
  <2>4. QED
    BY <1>3, <1>4, <2>2, <2>3
<1>6. /\ Len(queue) \in Nat /\ Len(queue') = Len(queue) + 1 /\ queue'[Len(queue) + 1] = msg
      /\ \A i \in 1 .. Len(queue) : queue'[i] = queue[i]
      /\ \A i \in FrontOf(queue') :
           \/ i \in FrontOf(queue)
           \/ i = Len(queue) + 1 /\ msg.type = 0 /\ \A k \in 1 .. Len(queue) : queue[k].type = 0
  BY <1>1, <1>2, FrontPushed
<1>7. \A i \in 1 .. Len(queue') : Sorted(queue'[i]) /\ Increasing(queue'[i].data)
  <2>1. Sorted(msg)
    <3>1. msg.names = <<>>
      BY DEF InOrder, Newest
    <3>2. QED
      BY <3>1 DEF Sorted
  <2>2. \A i \in 1 .. Len(queue') : i \in 1 .. Len(queue) \/ i = Len(queue) + 1
    BY <1>6
  <2>3. QED
    BY <1>1, <1>6, <2>1, <2>2 DEF InOrder, NamesOrder
<1>8. InLine'
  <2>1. SUFFICES ASSUME ~HoldsNames PROVE InLine'
    BY <1>4 DEF InLine
  <2> DEFINE A == Contents(arrived) \cup InMessage(smsg)
  <2>2. ASSUME NEW i \in FrontOf(queue')
        PROVE  /\ Below(A, InMessage(queue'[i])) /\ Below(InMessage(queue'[i]), Wet)
               /\ \A k \in 1 .. (i - 1) : Below(InMessage(queue'[k]), InMessage(queue'[i]))
    <3>1. CASE i \in FrontOf(queue)
      <4>1. queue'[i] = queue[i] /\ \A k \in 1 .. (i - 1) : queue'[k] = queue[k]
        BY <1>6, <3>1 DEF FrontOf
      <4>2. QED
        BY <2>1, <3>1, <4>1 DEF InOrder, InLine
    <3>2. CASE i = Len(queue) + 1 /\ msg.type = 0 /\ \A k \in 1 .. Len(queue) : queue[k].type = 0
      <4>1. ~NamesQueued /\ names_msg = NULL
        <5>1. msg.len > 0 \/ rpc = "flush"
          BY DEF IndInv, RecvInv, MsgShape
        <5>2. QED
          BY <3>2, <5>1 DEF NamesQueued, InOrder, Newest
      <4>2. Wet = {} /\ queue'[i] = msg
        BY <1>6, <2>1, <3>2, <4>1 DEF InOrder, InLine
      <4>3. Below(A, InMessage(msg)) /\ Below(InMessage(msg), Wet)
        BY <1>1, <1>2, <4>2 DEF Below
      <4>4. \A k \in 1 .. (i - 1) : k \in 1 .. Len(queue) /\ queue'[k] = queue[k]
        BY <1>6, <3>2
      <4>5. \A k \in 1 .. Len(queue) : InMessage(queue[k]) \subseteq QueueChunks(queue)
        BY DEF QueueChunks
      <4>6. \A k \in 1 .. (i - 1) : Below(InMessage(queue'[k]), InMessage(msg))
        BY <1>1, <1>2, <4>4, <4>5 DEF Below
      <4>7. QED
        BY <4>2, <4>3, <4>6
    <3>3. QED
      BY <1>6, <3>1, <3>2
  <2>3. ~NamesQueued' => ~NamesQueued
    BY <1>6 DEF NamesQueued
  <2>4. QED
    BY <1>4, <2>1, <2>2, <2>3 DEF InOrder, InLine
<1>9. QED
  BY <1>4, <1>5, <1>7, <1>8

(* The message at hand is queued, or marked for a file.                    *)
LEMMA FlushKeeps ==
  ASSUME IndInv, IndInv', InOrder, flush, UNCHANGED <<smsg, arrived>>
  PROVE  InOrder'
<1>1. UNCHANGED <<files, clock, got, names_msg, curr_fp, pend, smsg, arrived>> /\ rpc = "flush" /\ rpc' # "detach"
  BY DEF flush, disk, datafile
<1>2. msg # NULL /\ msg \in Message
  BY <1>1 DEF IndInv, RecvInv, MsgShape
<1>3. CASE UNCHANGED <<queue, msg>> /\ rpc' \in {"select", "write"}
  BY <1>1, <1>3, QuietKeeps DEF Quiet
<1>4. CASE msg.type = 0 /\ push_ok(msg) /\ rpc' = "select" /\ msg' = NULL
  <2>1. queue' = Append(queue, msg)
    BY <1>4 DEF push_ok
  <2>2. /\ InLine' /\ DiskOrder' /\ NotOvertaken'
        /\ Contents(arrived') \cup InMessage(smsg') \cup QueueChunks(queue') \cup Wet' \subseteq 1 .. got
        /\ \A i \in 1 .. Len(queue') : Sorted(queue'[i]) /\ Increasing(queue'[i].data)
    BY <1>1, <1>2, <2>1, PushData
  <2>3. Older' = got
    BY <1>1, <1>4, OlderType DEF Older, AtHand
  <2>4. Newest'
    BY <1>4, <2>2, <2>3 DEF Newest
  <2>5. NamesOrder'
    BY <1>1, <1>4, <2>2 DEF InOrder, NamesOrder
  <2>6. QED
    BY <2>2, <2>4, <2>5 DEF InOrder
<1>5. CASE queue' = queue /\ rpc' = "write" /\ msg' = [msg EXCEPT !.type = 1]
  <2>1. msg' # NULL /\ msg'.data = msg.data /\ msg'.names = msg.names /\ msg'.type = 1
    <3>1. msg' # NULL /\ msg'.data = msg.data
      BY <1>2, <1>5, SetType
    <3>2. msg'.names = msg.names /\ msg'.type = 1
      BY <1>2, <1>5 DEF Message
    <3>3. QED
      BY <3>1, <3>2
  <2>2. Older' = Older
    BY <1>1, <1>2, <1>5, <2>1 DEF Older, AtHand
  <2>3. Newest'
    <3>1. Contents(arrived') \cup InMessage(smsg') \cup QueueChunks(queue') \cup Wet' \subseteq 1 .. Older'
      BY <1>1, <1>5, <2>2, OrderFrame DEF InOrder, Newest
    <3>2. QED
      BY <1>1, <1>2, <2>1, <3>1 DEF InOrder, Newest
  <2>4. DiskOrder' /\ NotOvertaken' /\ InLine'
    BY <1>1, <1>5, OrderFrame DEF InOrder
  <2>5. NamesOrder'
    BY <1>1, <1>5 DEF InOrder, NamesOrder
  <2>6. QED
    BY <2>3, <2>4, <2>5 DEF InOrder
<1>6. QED
  BY <1>3, <1>4, <1>5 DEF flush, push_timeout

(* The last message is queued, or not.                                     *)
LEMMA LastPushKeeps ==
  ASSUME IndInv, IndInv', InOrder, last_push, UNCHANGED <<smsg, arrived>>
  PROVE  InOrder'
<1>1. /\ UNCHANGED <<files, clock, msg, got, names_msg, curr_fp, pend, smsg, arrived>>
      /\ rpc = "lastpush" /\ rpc' = "done"
  BY DEF last_push, RGoto, disk, datafile, rlocal
<1>2. msg # NULL /\ msg \in Message /\ msg.len > 0
  BY <1>1 DEF IndInv, RecvInv, MsgShape
<1>3. CASE UNCHANGED queue
  BY <1>1, <1>3, QuietKeeps DEF Quiet
<1>4. CASE push_ok(msg)
  <2>1. queue' = Append(queue, msg)
    BY <1>4 DEF push_ok
  <2>2. /\ InLine' /\ DiskOrder' /\ NotOvertaken'
        /\ Contents(arrived') \cup InMessage(smsg') \cup QueueChunks(queue') \cup Wet' \subseteq 1 .. got
        /\ \A i \in 1 .. Len(queue') : Sorted(queue'[i]) /\ Increasing(queue'[i].data)
    BY <1>1, <1>2, <2>1, PushData
  <2>3. Older' = got
    BY <1>1 DEF Older
  <2>4. Newest'
    BY <1>1, <1>2, <2>2, <2>3 DEF InOrder, Newest
  <2>5. NamesOrder'
    BY <1>1, <1>4, <2>2 DEF InOrder, NamesOrder
  <2>6. QED
    BY <2>2, <2>4, <2>5 DEF InOrder
<1>5. QED
  BY <1>3, <1>4 DEF last_push, push_timeout

(* A name is the number of a second.                                       *)
LEMMA NameType ==
  ASSUME NEW s \in Seq(Second), NEW i \in 1 .. Len(s)
  PROVE  s[i] \in Second /\ s[i] \in Int
<1>1. s[i] \in Second
  OBVIOUS
<1>2. QED
  BY <1>1 DEF Second

(* The names before the new one are the ones counted so far.               *)
LEMMA NamesBefore ==
  ASSUME NamesInv, NEW t \in Second, file_count + 1 <= Traffic, NEW i \in 1 .. file_count
  PROVE  names_msg # NULL /\ i \in 1 .. Len(names_msg.names) /\ WithName(t).names[i] = names_msg.names[i]
<1>1. file_count \in Nat /\ file_count > 0 /\ i \in Nat /\ i <= file_count /\ i > 0
  BY MaxFilesType DEF NamesInv
<1>2. names_msg # NULL /\ names_msg.len = file_count /\ file_count <= Len(names_msg.names)
  BY <1>1 DEF NamesInv, NamesMatchFiles
<1>3. names_msg \in Message /\ names_msg.names \in Seq(Second) /\ Len(names_msg.names) \in Nat
  BY <1>2, MessageParts DEF NamesInv
<1> DEFINE s == names_msg.names
           q == SubSeq(s, 1, file_count)
<1>4. s \in Seq(Second) /\ file_count <= Len(s)
  BY <1>2, <1>3
<1>5. WithName(t).names = Append(q, t)
  BY <1>2, <1>3 DEF WithName, Message
<1> HIDE DEF s
<1>6. q \in Seq(Second) /\ Len(q) = file_count /\ q[i] = s[i]
  BY <1>1, <1>4
<1> HIDE DEF q
<1>7. Append(q, t)[i] = q[i]
  BY <1>1, <1>6
<1>8. QED
  BY <1>1, <1>2, <1>3, <1>5, <1>6, <1>7 DEF s

(* The names stay in the order of their seconds.                           *)
LEMMA WriteSorted ==
  ASSUME IndInv, InOrder, write_datamsg, clock <= clock', names_msg' # NULL
  PROVE  Sorted(names_msg') /\ \A i \in 1 .. Len(names_msg'.names) : names_msg'.names[i] <= clock'
<1>1. NamesInv /\ clock \in Int /\ clock' \in Int /\ file_count \in Nat
  BY WriteDisk DEF IndInv, DiskInv, NamesInv
<1>2. names_msg # NULL =>
        /\ names_msg \in Message /\ names_msg.names \in Seq(Second)
        /\ Sorted(names_msg) /\ \A i \in 1 .. Len(names_msg.names) : names_msg.names[i] <= clock
  BY Places, MessageParts DEF InOrder, NamesOrder
<1>3. ASSUME NEW m \in Message, names_msg # NULL, m.names = names_msg.names
      PROVE  Sorted(m) /\ \A i \in 1 .. Len(m.names) : m.names[i] <= clock'
  <2>1. \A i \in 1 .. Len(m.names) : m.names[i] \in Int /\ m.names[i] <= clock
    BY <1>2, <1>3, NameType
  <2>2. QED
    BY <1>1, <1>2, <1>3, <2>1 DEF Sorted
<1>4. file_count + 1 <= Traffic
  <2>1. msg # NULL /\ msg \in Message /\ Len(msg.data) > 0 /\ Len(msg.data) \in Nat
    BY HoldsChunk DEF write_datamsg, RGoto, IndInv, RecvInv, MsgShape
  <2>2. got \in Nat /\ got <= Traffic /\ file_count + Len(msg.data) <= got
    BY <2>1, ConfAssumption DEF IndInv, RecvInv, RecvCount, AtHand
  <2>3. QED
    BY <1>1, <2>1, <2>2, ConfAssumption
<1>5. ASSUME NEW t \in Now, clock' = t, NEW m \in Message, m.names = WithName(t).names
      PROVE  Sorted(m) /\ \A i \in 1 .. Len(m.names) : m.names[i] <= clock'
  <2>1. t \in Second /\ t \in Int
    BY <1>5 DEF Now, Second
  <2>2. Len(m.names) = file_count + 1 /\ m.names[file_count + 1] = t
    BY <1>1, <1>4, <1>5, <2>1, OneMoreName
  <2>3. ASSUME NEW i \in 1 .. file_count
        PROVE  /\ names_msg # NULL /\ i \in 1 .. Len(names_msg.names) /\ m.names[i] = names_msg.names[i]
               /\ m.names[i] \in Int /\ m.names[i] <= t
    <3>1. names_msg # NULL /\ i \in 1 .. Len(names_msg.names) /\ m.names[i] = names_msg.names[i]
      BY <1>1, <1>4, <1>5, <2>1, NamesBefore
    <3>2. names_msg.names[i] \in Int /\ names_msg.names[i] <= clock
      BY <1>2, <3>1, NameType
    <3>3. QED
      BY <1>1, <1>5, <2>1, <3>1, <3>2
  <2>4. \A i \in 1 .. Len(m.names) : i \in 1 .. file_count \/ i = file_count + 1
    BY <1>1, <2>2
  <2>5. \A i \in 1 .. Len(m.names) : m.names[i] <= t
    BY <2>1, <2>2, <2>3, <2>4
  <2>6. ASSUME NEW i \in 1 .. Len(m.names), NEW j \in 1 .. Len(m.names), i < j
        PROVE  m.names[i] <= m.names[j]
    <3>1. CASE j = file_count + 1
      BY <2>2, <2>5, <3>1
    <3>2. CASE j \in 1 .. file_count
      <4>1. i \in 1 .. file_count
        BY <1>1, <2>4, <2>6, <3>2
      <4>2. QED
        BY <1>2, <2>3, <2>6, <3>2, <4>1 DEF Sorted
    <3>3. QED
      BY <2>4, <3>1, <3>2
  <2>7. QED
    BY <1>5, <2>5, <2>6 DEF Sorted
<1>6. ASSUME NEW fp, NEW count, WriteFails(fp, names_msg, count), fp # NULL => fp = curr_fp
      PROVE  Sorted(names_msg') /\ \A i \in 1 .. Len(names_msg'.names) : names_msg'.names[i] <= clock'
  <2>1. CASE fp = NULL
    <3>1. names_msg' = names_msg
      BY <1>6, <2>1 DEF WriteFails
    <3>2. QED
      BY <1>2, <1>3, <3>1
  <2>2. CASE fp # NULL
    <3>1. names_msg' = Shorter(names_msg)
      BY <1>6, <2>2 DEF WriteFails, Shorter
    <3>2. names_msg # NULL /\ names_msg.len > 0
      BY <1>1, <1>6, <2>2 DEF NamesInv, NamesMatchFiles
    <3>3. names_msg' \in Message /\ names_msg'.names = names_msg.names
      BY <1>2, <3>1, <3>2, ShorterMessage
    <3>4. QED
      BY <1>3, <3>2, <3>3
  <2>3. QED
    BY <2>1, <2>2
<1>7. CASE write_cache_full
  BY <1>6, <1>7 DEF write_cache_full
<1>8. CASE write_current
  <2>1. CASE WriteFails(curr_fp, names_msg, file_count)
    BY <1>6, <2>1
  <2>2. CASE WriteSucceeds(files, curr_fp, names_msg, file_count, pend, curr_fsize)
    <3>1. names_msg' = names_msg
      BY <2>2 DEF WriteSucceeds
    <3>2. QED
      BY <1>2, <1>3, <3>1
  <2>3. QED
    BY <1>8, <2>1, <2>2 DEF write_current
<1>9. CASE write_new
  <2>1. CASE WriteFails(NULL, names_msg, file_count)
    BY <1>6, <2>1
  <2>2. ASSUME NEW t \in Now, clock' = t, names_msg' = WithName(t) \/ names_msg' = Shorter(WithName(t))
        PROVE  Sorted(names_msg') /\ \A i \in 1 .. Len(names_msg'.names) : names_msg'.names[i] <= clock'
    <3>1. WithName(t) \in Message /\ WithName(t).len > 0
      BY <1>1, <1>4, OneMoreName DEF Now
    <3>2. names_msg' \in Message /\ names_msg'.names = WithName(t).names
      BY <2>2, <3>1, ShorterMessage
    <3>3. QED
      BY <1>5, <2>2, <3>2
  <2>3. CASE \E t \in Now : clock' = t /\ (names_msg' = WithName(t) \/ names_msg' = Shorter(WithName(t)))
    BY <2>2, <2>3
  <2>4. \A t \in Now : DataPath(t) # NULL
    BY Paths, NotPaths DEF Now
  <2>5. QED
    BY <1>9, <2>1, <2>3, <2>4 DEF write_new, WriteSucceeds, WriteFails, Shorter
<1>10. QED
  BY <1>7, <1>8, <1>9 DEF write_datamsg

(* The message at hand goes to a file, or is dropped.                      *)
LEMMA WriteKeeps ==
  ASSUME IndInv, IndInv', InOrder, write_datamsg, UNCHANGED <<smsg, arrived>>
  PROVE  InOrder'
<1> DEFINE D == Contents(msg.data)
<1>1. /\ UNCHANGED <<queue, got, smsg, arrived>> /\ rpc = "write" /\ rpc' = "select"
      /\ msg' \in {NULL, MESSAGE_BZERO}
  BY DEF write_datamsg, RGoto, write_cache_full, write_current, write_new, WriteFails, WriteSucceeds
<1>2. msg # NULL /\ msg \in Message
  BY <1>1 DEF IndInv, RecvInv, MsgShape
<1>3. /\ DiskOrder' /\ Adds(D) /\ clock <= clock'
      /\ names_msg' = NULL => names_msg = NULL /\ Adds({})
  BY WriteStep DEF InOrder
<1>4. /\ Older \in Nat /\ Older <= got /\ got \in Nat
      /\ \A x \in D : x \in Int /\ x > Older /\ x <= got
      /\ Below(Contents(arrived), D) /\ Below(InMessage(smsg), D) /\ Below(QueueChunks(queue), D)
  BY <1>1, <1>2, NewestData DEF InOrder
<1>5. Wet' \subseteq Wet \cup D
  BY <1>3 DEF Adds
<1>6. Newest'
  <2>1. msg' # NULL => msg'.data = <<>> /\ Len(msg'.data) = 0 /\ msg'.names = <<>> /\ msg'.len = 0
    BY <1>1 DEF MESSAGE_BZERO, message_new
  <2>2. AtHand' = 0
    BY <2>1 DEF AtHand
  <2>3. Older' = got
    BY <1>1, <1>4, <2>2 DEF Older
  <2>4. Contents(arrived) \cup InMessage(smsg) \cup QueueChunks(queue) \cup Wet \subseteq 1 .. Older
    BY DEF InOrder, Newest
  <2>5. Contents(arrived) \cup InMessage(smsg) \cup QueueChunks(queue) \cup Wet \subseteq 1 .. got
    BY <1>4, <2>4, StillOlder
  <2>6. \A x \in D : x \in 1 .. got
    BY <1>4
  <2>7. Contents(arrived') \cup InMessage(smsg') \cup QueueChunks(queue') \cup Wet' \subseteq 1 .. Older'
    BY <1>1, <1>5, <2>3, <2>5, <2>6
  <2>8. QED
    BY <1>1, <2>1, <2>7 DEF Newest
<1>7. HoldsNames' = HoldsNames /\ NamesQueued' = NamesQueued
  BY <1>1, OrderFrame
<1>8. NamesOrder'
  <2>1. names_msg' # NULL => /\ Sorted(names_msg')
                             /\ \A i \in 1 .. Len(names_msg'.names) : names_msg'.names[i] <= clock'
    BY <1>3, WriteSorted
  <2>2. QED
    BY <1>1, <2>1 DEF InOrder, NamesOrder
<1>9. InLine'
  <2>1. SUFFICES ASSUME ~HoldsNames PROVE InLine'
    BY <1>7 DEF InLine
  <2>2. Below(Contents(arrived) \cup InMessage(smsg), Wet')
    BY <1>4, <1>5, <2>1 DEF InOrder, InLine, Below
  <2>3. \A i \in FrontOf(queue) : Below(InMessage(queue[i]), Wet')
    <3>1. \A i \in FrontOf(queue) : InMessage(queue[i]) \subseteq QueueChunks(queue)
      BY DEF FrontOf, QueueChunks
    <3>2. QED
      BY <1>4, <1>5, <2>1, <3>1 DEF InOrder, InLine, Below
  <2>4. ~NamesQueued /\ names_msg' = NULL => Wet' = {}
    BY <1>3, <2>1 DEF InOrder, InLine, Adds
  <2>5. QED
    BY <1>1, <1>7, <2>1, <2>2, <2>3, <2>4 DEF InOrder, InLine
<1>10. NotOvertaken'
  <2>1. SUFFICES ASSUME HoldsNames, NEW i \in 1 .. Len(smsg.names),
                        NEW v \in FileChunks(files', curr_fp', pend', smsg.names[i])
                 PROVE  Ahead(v)
    BY <1>1, <1>7 DEF NotOvertaken, Ahead
  <2>2. smsg.names[i] \in Second
    BY <2>1, Places, MessageParts DEF HoldsNames
  <2>3. v \in FileChunks(files, curr_fp, pend, smsg.names[i]) \/ v \in D
    BY <1>3, <2>1, <2>2 DEF Adds
  <2>4. CASE v \in FileChunks(files, curr_fp, pend, smsg.names[i])
    BY <2>1, <2>4 DEF InOrder, NotOvertaken
  <2>5. CASE v \in D
    <3>1. \A k \in 1 .. Len(arrived) : arrived[k] \in Contents(arrived) /\ arrived[k] \in Int
      BY Places, Members
    <3>2. \A k \in 1 .. Len(arrived) : arrived[k] < v
      BY <1>4, <2>5, <3>1 DEF Below
    <3>3. QED
      BY <1>4, <2>5, <3>1, <3>2 DEF Ahead
  <2>6. QED
    BY <2>3, <2>4, <2>5
<1>11. QED
  BY <1>3, <1>6, <1>8, <1>9, <1>10 DEF InOrder

--------------------------------------------------------------------------------
(* The sender.                                                             *)

(* The sender leaves the receiver's state and the files alone while it     *)
(* sends.                                                                  *)
LEMMA SendFrame ==
  ASSUME sender_pop \/ send_log_buff \/ send_log_file
  PROVE  UNCHANGED <<files, clock, rpc, msg, got, names_msg, curr_fp, pend>> /\ Older' = Older /\ Wet' = Wet
<1>1. UNCHANGED <<files, clock, rpc, msg, got, names_msg, curr_fp, pend>>
  BY DEF sender_pop, send_log_buff, send_log_file, disk, rvars, rlocal, datafile
<1>2. QED
  BY <1>1 DEF Older, AtHand, Wet, OnDisk

(* What is on its way to the server or there is all that Newest asks of a  *)
(* step of the sender.                                                     *)
LEMMA SendNewest ==
  ASSUME Newest, UNCHANGED <<files, clock, rpc, msg, got, names_msg, curr_fp, pend>>,
         Older' = Older, Wet' = Wet,
         Contents(arrived') \cup InMessage(smsg') \cup QueueChunks(queue') \subseteq
           Contents(arrived) \cup InMessage(smsg) \cup QueueChunks(queue) \cup Wet
  PROVE  Newest'
<1>1. Contents(arrived') \cup InMessage(smsg') \cup QueueChunks(queue') \cup Wet' \subseteq 1 .. Older'
  BY DEF Newest
<1>2. QED
  BY <1>1 DEF Newest

(* A file still to be sent is part of the cache.                           *)
LEMMA FileWet ==
  ASSUME NEW t \in Second
  PROVE  FileChunks(files, curr_fp, pend, t) \subseteq Wet
<1>1. DataPath(t) \in Path
  BY Paths
<1>2. QED
  BY <1>1 DEF FileChunks, Wet, OnDisk, DiskChunks

(* The sender takes the oldest message.                                    *)
LEMMA PopKeeps ==
  ASSUME IndInv, InOrder, sender_pop
  PROVE  InOrder'
<1>1. /\ queue # <<>> /\ smsg' = Head(queue) /\ queue' = Tail(queue) /\ arrived' = arrived /\ smsg = NULL
      /\ UNCHANGED <<files, clock, rpc, msg, got, names_msg, curr_fp, pend>> /\ Older' = Older /\ Wet' = Wet
  BY SendFrame DEF sender_pop, SGoto, outside, IndInv, SendInv
<1>2. /\ queue \in Seq(Message) /\ Len(queue) \in Nat /\ Len(queue) > 0
      /\ smsg' = queue[1] /\ smsg' \in Message /\ smsg' # NULL
      /\ Len(queue') = Len(queue) - 1
      /\ \A i \in 1 .. Len(queue') : i + 1 \in 1 .. Len(queue) /\ queue'[i] = queue[i + 1]
      /\ \A i \in 2 .. Len(queue) : i - 1 \in 1 .. Len(queue') /\ queue[i] = queue'[i - 1]
      /\ smsg'.type = 0 => 1 \in FrontOf(queue) /\ \A i \in FrontOf(queue') : i + 1 \in FrontOf(queue)
  BY <1>1, Places, FrontPopped, MessageParts
<1>3. InMessage(smsg) = {}
  BY <1>1 DEF InMessage
<1>4. /\ \A i \in 1 .. Len(queue) : InMessage(queue[i]) \subseteq QueueChunks(queue)
      /\ 1 \in 1 .. Len(queue)
  BY <1>2 DEF QueueChunks
<1>5. QueueChunks(queue') \subseteq QueueChunks(queue) /\ InMessage(smsg') \subseteq QueueChunks(queue)
  BY <1>2, <1>4 DEF QueueChunks
<1>6. Newest'
  BY <1>1, <1>5, SendNewest DEF InOrder
<1>7. DiskOrder'
  BY <1>1, OrderFrame DEF InOrder
<1>8. ~HoldsNames
  BY <1>1 DEF HoldsNames
<1>9. NamesOrder'
  <2>1. NamesQueued => HoldsNames' \/ NamesQueued'
    <3>1. ASSUME NEW i \in 1 .. Len(queue), queue[i].type # 0
          PROVE  HoldsNames' \/ NamesQueued'
      <4>1. i = 1 \/ i \in 2 .. Len(queue)
        BY <1>2
      <4>2. QED
        BY <1>2, <3>1, <4>1 DEF HoldsNames, NamesQueued
    <3>2. QED
      BY <3>1 DEF NamesQueued
  <2>2. QED
    BY <1>1, <1>2, <1>4, <1>8, <2>1 DEF InOrder, NamesOrder
<1>10. InLine'
  <2>1. SUFFICES ASSUME smsg'.type = 0 PROVE InLine'
    BY <1>2 DEF InLine, HoldsNames
  <2>2. 1 \in FrontOf(queue) /\ \A i \in FrontOf(queue') : i + 1 \in FrontOf(queue) /\ i \in 1 .. Len(queue')
    BY <1>2, <2>1 DEF FrontOf
  <2>3. Below(Contents(arrived), InMessage(smsg')) /\ Below(Contents(arrived) \cup InMessage(smsg'), Wet)
    BY <1>2, <1>8, <2>2 DEF InOrder, InLine, Below
  <2>4. ASSUME NEW i \in FrontOf(queue')
        PROVE  /\ Below(Contents(arrived) \cup InMessage(smsg'), InMessage(queue'[i]))
               /\ Below(InMessage(queue'[i]), Wet)
               /\ \A k \in 1 .. (i - 1) : Below(InMessage(queue'[k]), InMessage(queue'[i]))
    <3>1. i + 1 \in FrontOf(queue) /\ queue'[i] = queue[i + 1] /\ i \in Nat /\ i > 0 /\ i <= Len(queue')
      BY <1>2, <2>2, <2>4
    <3>2. 1 \in 1 .. ((i + 1) - 1)
      BY <3>1
    <3>3. ASSUME NEW k \in 1 .. (i - 1)
          PROVE  k + 1 \in 1 .. ((i + 1) - 1) /\ queue'[k] = queue[k + 1]
      <4>1. Len(queue') \in Nat
        BY <1>2
      <4>2. k \in 1 .. Len(queue') /\ k + 1 \in 1 .. ((i + 1) - 1)
        BY <3>1, <4>1
      <4>3. QED
        BY <1>2, <4>2
    <3>4. /\ Below(Contents(arrived), InMessage(queue[i + 1])) /\ Below(InMessage(queue[i + 1]), Wet)
          /\ \A k \in 1 .. ((i + 1) - 1) : Below(InMessage(queue[k]), InMessage(queue[i + 1]))
      BY <1>8, <3>1 DEF InOrder, InLine, Below
    <3>5. Below(Contents(arrived) \cup InMessage(smsg'), InMessage(queue[i + 1]))
      BY <1>2, <3>2, <3>4 DEF Below
    <3>6. QED
      BY <3>1, <3>3, <3>4, <3>5
  <2>5. ~NamesQueued' => ~NamesQueued
    <3>1. ASSUME NEW i \in 1 .. Len(queue), queue[i].type # 0
          PROVE  NamesQueued'
      <4>1. i \in 2 .. Len(queue)
        BY <1>2, <2>1, <3>1
      <4>2. QED
        BY <1>2, <3>1, <4>1 DEF NamesQueued
    <3>2. QED
      BY <3>1 DEF NamesQueued
  <2>6. QED
    BY <1>1, <1>8, <2>3, <2>4, <2>5 DEF InOrder, InLine
<1>11. NotOvertaken'
  <2>1. SUFFICES ASSUME NEW i \in 1 .. Len(smsg'.names),
                        NEW v \in FileChunks(files, curr_fp, pend, smsg'.names[i])
                 PROVE  Ahead(v)
    BY <1>1 DEF NotOvertaken, Ahead
  <2>2. smsg'.names[i] \in Second
    BY <1>2, <2>1, MessageParts
  <2>3. v \in Wet
    BY <2>1, <2>2, FileWet
  <2>4. \A k \in 1 .. Len(arrived) : arrived[k] \in Contents(arrived) /\ arrived[k] \in Int
    BY Places, Members
  <2>5. \A k \in 1 .. Len(arrived) : arrived[k] < v
    BY <1>8, <2>3, <2>4 DEF InOrder, InLine, Below
  <2>6. v \in Int
    BY <2>3, OlderType DEF InOrder, Newest
  <2>7. QED
    BY <2>4, <2>5, <2>6 DEF Ahead
<1>12. QED
  BY <1>6, <1>7, <1>9, <1>10, <1>11 DEF InOrder

(* A request that never connects, or fails while it is sent, delivers      *)
(* nothing.                                                                *)
LEMMA RequestNet ==
  ASSUME NEW chunks, Request(chunks), ret' = "SND_ERR_NET"
  PROVE  arrived' = arrived
<1>1. PICK o \in Outcome : ret' = Verdict(o) /\ arrived' = IF o.took THEN arrived \o chunks ELSE arrived
  BY DEF Request
<1>2. o.curl \in {"COULDNT_CONNECT", "SEND_ERROR"}
  BY <1>1 DEF Verdict, Outcome
<1>3. ~o.took
  BY <1>2 DEF Outcome
<1>4. QED
  BY <1>1, <1>3

(* Log data is sent.                                                       *)
LEMMA SendBuffKeeps ==
  ASSUME IndInv, InOrder, send_log_buff
  PROVE  InOrder' /\ Increasing(arrived')
<1>1. /\ UNCHANGED <<files, clock, rpc, msg, got, names_msg, curr_fp, pend>> /\ Older' = Older /\ Wet' = Wet
      /\ queue' = queue /\ spc = "send" /\ smsg.type = 0 /\ Request(smsg.data)
      /\ smsg' = IF ret' = "SND_ERR_NET" THEN smsg ELSE NULL
  BY SendFrame DEF send_log_buff, SGoto
<1>2. smsg # NULL /\ smsg \in Message /\ smsg.data \in Seq(Chunk)
  BY <1>1, MessageParts DEF IndInv, SendInv
<1>3. InMessage(smsg) = Contents(smsg.data) /\ ~HoldsNames /\ ~HoldsNames'
  BY <1>1, <1>2 DEF InMessage, HoldsNames
<1>4. arrived \in Seq(Chunk) /\ arrived' \in {arrived, arrived \o smsg.data}
  BY <1>1, <1>2, RequestResult DEF IndInv, SendInv
<1>5. Increasing(arrived) /\ Below(Contents(arrived), Contents(smsg.data)) /\ Increasing(smsg.data)
  BY <1>2, <1>3 DEF InOrder, InLine, NamesOrder
<1>6. Increasing(arrived') /\ Contents(arrived') \subseteq Contents(arrived) \cup InMessage(smsg)
  BY <1>2, <1>3, <1>4, <1>5, IncreasingConcat, ContentsConcat
<1>7. (smsg' = smsg /\ arrived' = arrived) \/ smsg' = NULL
  BY <1>1, RequestNet
<1>8. InMessage(smsg') \subseteq InMessage(smsg) /\ Below(Contents(arrived'), InMessage(smsg'))
  BY <1>3, <1>5, <1>7 DEF InMessage, Below
<1>9. Newest'
  BY <1>1, <1>6, <1>8, SendNewest DEF InOrder
<1>10. DiskOrder' /\ NamesQueued' = NamesQueued
  BY <1>1, OrderFrame DEF InOrder
<1>11. NamesOrder'
  BY <1>1, <1>3, <1>7, <1>10 DEF InOrder, NamesOrder
<1>12. InLine'
  <2>1. Contents(arrived') \cup InMessage(smsg') \subseteq Contents(arrived) \cup InMessage(smsg)
    BY <1>6, <1>8
  <2>2. \A S : Below(Contents(arrived) \cup InMessage(smsg), S) => Below(Contents(arrived') \cup InMessage(smsg'), S)
    BY <2>1 DEF Below
  <2>3. QED
    BY <1>1, <1>3, <1>6, <1>8, <1>10, <2>2 DEF InOrder, InLine
<1>13. NotOvertaken'
  BY <1>3 DEF NotOvertaken
<1>14. QED
  BY <1>6, <1>9, <1>10, <1>11, <1>12, <1>13 DEF InOrder

(* The names that are left after the first one.                            *)
LEMMA NamesLeft ==
  ASSUME NEW m \in Message, m.names # <<>>, m.type = 1
  PROVE  LET n == messge_filename_forward(m)
         IN  /\ n \in Message /\ n # NULL /\ n.type = 1 /\ n.data = m.data /\ Len(n.names) \in Nat
             /\ \A i \in 1 .. Len(n.names) : i + 1 \in 1 .. Len(m.names) /\ n.names[i] = m.names[i + 1]
<1> DEFINE n == messge_filename_forward(m)
<1>1. n \in Message /\ n # NULL /\ n.data = m.data
  BY ForwardMessage
<1>2. n.type = 1 /\ n.names \in {Tail(m.names), <<>>}
  BY DEF messge_filename_forward, Message
<1> HIDE DEF n
<1>3. m.names \in Seq(Second)
  BY MessageParts
<1>4. /\ Len(Tail(m.names)) = Len(m.names) - 1 /\ Len(m.names) \in Nat /\ Len(<<>>) = 0
      /\ \A i \in 1 .. (Len(m.names) - 1) : Tail(m.names)[i] = m.names[i + 1]
  BY <1>3
<1>5. CASE n.names = <<>>
  BY <1>1, <1>2, <1>4, <1>5 DEF n
<1>6. CASE n.names = Tail(m.names)
  <2>1. Len(n.names) = Len(m.names) - 1 /\ Len(n.names) \in Nat
    BY <1>3, <1>4, <1>6
  <2>2. \A i \in 1 .. Len(n.names) : i + 1 \in 1 .. Len(m.names) /\ n.names[i] = m.names[i + 1]
    BY <1>4, <1>6, <2>1
  <2>3. QED
    BY <1>1, <1>2, <2>1, <2>2 DEF n
<1>7. QED
  BY <1>2, <1>5, <1>6

(* The chunks of the file that is sent are newer than those that arrived,  *)
(* or arrived before; those of the files to be sent later are not older.   *)
LEMMA SendFileKeeps ==
  ASSUME IndInv, InOrder, send_log_file
  PROVE  InOrder'
<1> DEFINE t0 == Head(smsg.names)
           f == files[DataPath(t0)]
<1>1. /\ UNCHANGED <<files, clock, rpc, msg, got, names_msg, curr_fp, pend>> /\ Older' = Older /\ Wet' = Wet
      /\ queue' = queue /\ spc = "send" /\ smsg.type # 0 /\ HeadExists(smsg) /\ Request(f)
      /\ smsg' = IF ret' = "SND_ERR_NET" THEN smsg ELSE messge_filename_forward(smsg)
  BY SendFrame DEF send_log_file
<1>2. smsg # NULL /\ smsg \in Message /\ smsg.names # <<>> /\ smsg.names \in Seq(Second) /\ smsg.type = 1
  BY <1>1, MessageParts DEF IndInv, SendInv, HeadExists
<1>3. /\ t0 \in Second /\ t0 = smsg.names[1] /\ 1 \in 1 .. Len(smsg.names) /\ DataPath(t0) \in Path /\ f # NULL
      /\ Len(smsg.names) \in Nat
  BY <1>1, <1>2, Paths DEF HeadExists
<1>4. /\ f \in Seq(Chunk) /\ Contents(f) \subseteq Wet /\ Increasing(f)
      /\ Contents(f) \subseteq FileChunks(files, curr_fp, pend, t0)
  <2>1. files \in Directory /\ Increasing(f)
    BY <1>3 DEF InOrder, DiskOrder, Ordered
  <2>2. Contents(f) \subseteq FileChunks(files, curr_fp, pend, t0)
    BY <1>3 DEF FileChunks
  <2>3. QED
    BY <1>3, <2>1, <2>2, FileWet DEF Directory
<1>5. arrived \in Seq(Chunk) /\ arrived' \in {arrived, arrived \o f} /\ arrived' \in Seq(Chunk)
  BY <1>1, <1>4, RequestResult DEF IndInv, SendInv
<1>6. Contents(arrived') \subseteq Contents(arrived) \cup Wet
  BY <1>4, <1>5, ContentsConcat
<1>7. \/ smsg' = smsg /\ arrived' = arrived
      \/ smsg' = messge_filename_forward(smsg)
  BY <1>1, RequestNet
<1>8. /\ smsg' \in Message /\ smsg' # NULL /\ smsg'.type = 1 /\ smsg'.data = smsg.data /\ Len(smsg'.names) \in Nat
      /\ \/ smsg' = smsg /\ arrived' = arrived
         \/ \A i \in 1 .. Len(smsg'.names) : i + 1 \in 1 .. Len(smsg.names) /\ smsg'.names[i] = smsg.names[i + 1]
  BY <1>2, <1>3, <1>7, NamesLeft
<1> HIDE DEF f, t0
<1>9. InMessage(smsg') = InMessage(smsg)
  BY <1>2, <1>8, InMessageSame
<1>10. Newest'
  BY <1>1, <1>6, <1>9, SendNewest DEF InOrder
<1>11. HoldsNames /\ HoldsNames' /\ DiskOrder' /\ NamesQueued' = NamesQueued
  BY <1>1, <1>2, <1>8, OrderFrame DEF InOrder, HoldsNames
<1>12. InLine'
  BY <1>11 DEF InLine
<1>13. NamesOrder'
  <2>1. Sorted(smsg) /\ Increasing(smsg.data)
    BY <1>2 DEF InOrder, NamesOrder
  <2>2. Sorted(smsg')
    <3>1. CASE smsg' = smsg
      BY <2>1, <3>1
    <3>2. CASE \A i \in 1 .. Len(smsg'.names) : i + 1 \in 1 .. Len(smsg.names) /\ smsg'.names[i] = smsg.names[i + 1]
      <4>1. ASSUME NEW i \in 1 .. Len(smsg'.names), NEW j \in 1 .. Len(smsg'.names), i < j
            PROVE  smsg'.names[i] <= smsg'.names[j]
        <5>1. i + 1 < j + 1 /\ i + 1 \in 1 .. Len(smsg.names) /\ j + 1 \in 1 .. Len(smsg.names)
          BY <1>8, <3>2, <4>1
        <5>2. smsg.names[i + 1] <= smsg.names[j + 1]
          BY <2>1, <5>1 DEF Sorted
        <5>3. QED
          BY <3>2, <5>2
      <4>2. QED
        BY <4>1 DEF Sorted
    <3>3. QED
      BY <1>8, <3>1, <3>2
  <2>3. QED
    BY <1>1, <1>8, <1>11, <2>1, <2>2 DEF InOrder, NamesOrder
<1>14. CASE smsg' = smsg /\ arrived' = arrived
  BY <1>1, <1>10, <1>11, <1>12, <1>13, <1>14, OrderFrame DEF InOrder
<1>15. CASE \A i \in 1 .. Len(smsg'.names) : i + 1 \in 1 .. Len(smsg.names) /\ smsg'.names[i] = smsg.names[i + 1]
  <2>1. SUFFICES ASSUME NEW i \in 1 .. Len(smsg'.names),
                        NEW v \in FileChunks(files, curr_fp, pend, smsg'.names[i])
                 PROVE  Ahead(v)'
    BY <1>1, <1>10, <1>11, <1>12, <1>13 DEF InOrder, NotOvertaken
  <2> DEFINE t == smsg.names[i + 1]
  <2>2. /\ t \in Second /\ t \in Int /\ t0 \in Int /\ i + 1 \in 1 .. Len(smsg.names)
        /\ v \in FileChunks(files, curr_fp, pend, t)
    BY <1>2, <1>3, <1>15, <2>1, NameType
  <2>3. t0 <= t
    <3>1. 1 < i + 1
      BY <2>1
    <3>2. QED
      BY <1>2, <1>3, <2>2, <3>1 DEF InOrder, NamesOrder, Sorted
  <2> HIDE DEF t
  <2>4. Ahead(v)
    BY <1>11, <2>2 DEF InOrder, NotOvertaken, t
  <2>5. v \in Wet /\ v \in Int
    <3>1. v \in Wet
      BY <2>2, FileWet
    <3>2. QED
      BY <3>1, OlderType DEF InOrder, Newest
  <2>6. ASSUME NEW k \in 1 .. Len(f), f[k] >= v
        PROVE  \E l \in 1 .. k : f[l] = v
    <3>1. f[k] \in Int /\ f[k] \in Contents(f) /\ Contents(f) \subseteq DiskChunks(files) /\ Len(f) \in Nat
      BY <1>3, <1>4, Members DEF DiskChunks, f
    <3>2. v \notin Contents(pend)
      <4>1. Below(DiskChunks(files), Contents(pend))
        BY DEF InOrder, DiskOrder, Ordered
      <4>2. QED
        BY <2>5, <2>6, <3>1, <4>1 DEF Below
    <3>3. files[DataPath(t)] # NULL /\ v \in Contents(files[DataPath(t)]) /\ DataPath(t) \in Path
      BY <2>2, <3>2, Paths DEF FileChunks
    <3>4. t0 = t
      <4>1. SUFFICES ASSUME t0 < t PROVE FALSE
        BY <2>2, <2>3
      <4>2. DataPath(t0)[2] = t0 /\ DataPath(t)[2] = t
        BY <1>3, <2>2, Paths
      <4>3. Below(Contents(f), Contents(files[DataPath(t)]))
        BY <1>3, <3>3, <4>1, <4>2 DEF InOrder, DiskOrder, Ordered, f
      <4>4. QED
        BY <2>5, <2>6, <3>1, <3>3, <4>3 DEF Below
    <3>5. PICK l \in 1 .. Len(f) : f[l] = v
      BY <1>4, <3>3, <3>4, Members DEF f
    <3>6. l <= k
      BY <1>4, <2>5, <2>6, <3>1, <3>5 DEF Increasing
    <3>7. QED
      BY <3>1, <3>5, <3>6
  <2>7. CASE arrived' = arrived
    BY <2>4, <2>7 DEF Ahead
  <2>8. CASE arrived' = arrived \o f
    <3>1. /\ Len(arrived) \in Nat /\ Len(f) \in Nat /\ Len(arrived') = Len(arrived) + Len(f)
          /\ \A j \in 1 .. Len(arrived') : arrived'[j] = IF j <= Len(arrived) THEN arrived[j] ELSE f[j - Len(arrived)]
      BY <1>4, <1>5, <2>8
    <3>2. ASSUME NEW j \in 1 .. Len(arrived'), arrived'[j] >= v
          PROVE  \E k \in 1 .. j : arrived'[k] = v
      <4>1. CASE j <= Len(arrived)
        <5>1. j \in 1 .. Len(arrived) /\ arrived[j] >= v
          BY <3>1, <3>2, <4>1
        <5>2. PICK k \in 1 .. j : arrived[k] = v
          BY <2>4, <5>1 DEF Ahead
        <5>3. k \in 1 .. Len(arrived') /\ k <= Len(arrived)
          BY <3>1, <4>1
        <5>4. QED
          BY <3>1, <5>2, <5>3
      <4>2. CASE ~(j <= Len(arrived))
        <5>1. j - Len(arrived) \in 1 .. Len(f) /\ f[j - Len(arrived)] >= v
          BY <3>1, <3>2, <4>2
        <5>2. PICK l \in 1 .. (j - Len(arrived)) : f[l] = v
          BY <2>6, <5>1
        <5>3. l + Len(arrived) \in 1 .. j /\ ~(l + Len(arrived) <= Len(arrived))
              /\ (l + Len(arrived)) - Len(arrived) = l /\ l + Len(arrived) \in 1 .. Len(arrived')
          BY <3>1, <5>1
        <5>4. arrived'[l + Len(arrived)] = f[l]
          BY <3>1, <5>3
        <5>5. QED
          BY <5>2, <5>3, <5>4
      <4>3. QED
        BY <4>1, <4>2
    <3>3. QED
      BY <3>2 DEF Ahead
  <2>9. QED
    BY <1>5, <2>7, <2>8
<1>16. QED
  BY <1>8, <1>14, <1>15

--------------------------------------------------------------------------------
(* OrderInv and ArrivesInOrder.                                            *)

(* OrderInv is inductive.                                                  *)
LEMMA OrderKeeps ==
  ASSUME IndInv, IndInv', OrderInv, [Next]_vars
  PROVE  OrderInv'
<1>1. SUFFICES ASSUME Live' PROVE InOrder'
  BY DEF OrderInv
<1>2. /\ InOrder
      /\ \/ Quiet
         \/ push_names \/ detach_names \/ netlink_sock_recv \/ flush \/ write_datamsg \/ last_push
         \/ sender_pop \/ send_log_buff \/ send_log_file
  BY <1>1, LiveStep DEF OrderInv
<1>3. CASE Quiet
  BY <1>2, <1>3, QuietKeeps
<1>4. CASE push_names \/ detach_names \/ netlink_sock_recv \/ flush \/ write_datamsg \/ last_push
  <2>1. UNCHANGED <<smsg, arrived>>
    BY <1>4, ReceiverFrame DEF ReceiverStep, svars, slocal
  <2>2. QED
    BY <1>2, <1>4, <2>1, PushNamesKeeps, DetachKeeps, RecvOrder, FlushKeeps, WriteKeeps, LastPushKeeps
<1>5. CASE sender_pop \/ send_log_buff \/ send_log_file
  BY <1>2, <1>5, PopKeeps, SendBuffKeeps, SendFileKeeps
<1>6. QED
  BY <1>2, <1>3, <1>4, <1>5

(* It holds when the daemon starts.                                        *)
LEMMA OrderInit ==
  Init => OrderInv
<1>1. SUFFICES ASSUME Init PROVE InOrder
  BY DEF OrderInv
<1>2. /\ queue = <<>> /\ msg = NULL /\ names_msg = NULL /\ smsg = NULL /\ arrived = <<>> /\ pend = <<>>
      /\ curr_fp = NULL /\ clock = 0 /\ rpc = "off" /\ got = 0
      /\ files = [p \in Path |-> NULL] /\ Traffic \in Nat
  BY <1>1, ConfAssumption DEF Init, ReceiverInit, SenderInit
<1>3. OnDisk = {} /\ Wet = {}
  <2>1. {m \in Path : files[m] # NULL} = {}
    BY <1>2
  <2>2. OnDisk = {}
    BY <2>1 DEF OnDisk, DiskChunks
  <2>3. QED
    BY <1>2, <2>2, NothingOrdered DEF Wet
<1>4. InMessage(smsg) = {} /\ QueueChunks(queue) = {} /\ Contents(arrived) = {} /\ Len(queue) = 0
  BY <1>2, NothingOrdered DEF InMessage, QueueChunks
<1>5. Newest
  BY <1>2, <1>3, <1>4 DEF Newest
<1>6. DiskOrder
  <2>1. files \in Directory
    BY <1>2 DEF Directory
  <2>2. clock \in 0 .. (Traffic + 1)
    BY <1>2
  <2>3. QED
    BY <1>2, <2>1, <2>2, NothingOrdered DEF DiskOrder, Ordered
<1>7. NamesOrder
  BY <1>2, <1>4 DEF NamesOrder
<1>8. InLine
  <2>1. FrontOf(queue) = {}
    BY <1>4 DEF FrontOf
  <2>2. QED
    BY <1>2, <1>3, <1>4, <2>1, NothingOrdered DEF InLine
<1>9. NotOvertaken
  BY <1>2 DEF NotOvertaken, HoldsNames
<1>10. QED
  BY <1>5, <1>6, <1>7, <1>8, <1>9 DEF InOrder

(* datafile_write_datamsg takes nothing off the disk.                      *)
LEMMA WriteGrows ==
  ASSUME IndInv, write_datamsg
  PROVE  OnDisk \subseteq OnDisk'
<1>1. /\ files \in Directory /\ pend \in Seq(Chunk) /\ curr_fp \in Path \cup {NULL, GONE}
      /\ curr_fp \in Path => files[curr_fp] # NULL
  BY OpenFiles
<1>2. msg.data \in Seq(Chunk) /\ pend \o msg.data \in Seq(Chunk)
  BY <1>1, MessageParts DEF IndInv, RecvInv, MsgShape, write_datamsg, RGoto
<1>3. \A out \in Seq(Chunk) : /\ Flushed(files, curr_fp, out) \in Directory
                              /\ DiskChunks(files) \subseteq DiskChunks(Flushed(files, curr_fp, out))
  BY <1>1, FlushedFiles, DiskClosed
<1>4. \A held \in Seq(Chunk) : \A out \in Written(held) : out \in Seq(Chunk)
  BY WrittenPart
<1>5. CASE write_cache_full
  BY <1>1, <1>3, <1>4, <1>5 DEF write_cache_full, OnDisk
<1>6. CASE write_current
  <2>1. files' = files \/ \E out \in Seq(Chunk) : files' = Flushed(files, curr_fp, out)
    BY <1>1, <1>2, <1>4, <1>6 DEF write_current, WriteSucceeds
  <2>2. QED
    BY <1>3, <2>1 DEF OnDisk
<1>7. CASE write_new
  <2>1. PICK out \in Written(pend) :
          \/ files' = Flushed(files, curr_fp, out)
          \/ \E t \in Now : Created(t, Flushed(files, curr_fp, out))
    BY <1>7 DEF write_new, Created
  <2> DEFINE closed == Flushed(files, curr_fp, out)
  <2>2. closed \in Directory /\ DiskChunks(files) \subseteq DiskChunks(closed)
    BY <1>1, <1>3, <1>4
  <2>3. files' = closed \/ \E t \in Now : Created(t, closed)
    BY <2>1
  <2> HIDE DEF closed
  <2>4. CASE files' = closed
    BY <2>2, <2>4 DEF OnDisk
  <2>5. ASSUME NEW t \in Now, Created(t, closed)
        PROVE  OnDisk \subseteq OnDisk'
    <3> DEFINE op == Opened(closed, DataPath(t))
    <3>1. t \in Second /\ DataPath(t) \in Path
      BY Paths DEF Now
    <3>2. op \in Directory /\ op[DataPath(t)] # NULL /\ DiskChunks(closed) \subseteq DiskChunks(op)
      BY <2>2, <3>1, OpenedFiles, DiskOpened
    <3>3. <<>> \o msg.data \in Seq(Chunk)
      BY <1>2
    <3>4. files' = op \/ \E part \in Seq(Chunk) : files' = Flushed(op, DataPath(t), part)
      BY <1>2, <1>4, <2>5, <3>3 DEF Created, WriteSucceeds
    <3> HIDE DEF op
    <3>5. \A part \in Seq(Chunk) : DiskChunks(op) \subseteq DiskChunks(Flushed(op, DataPath(t), part))
      BY <3>1, <3>2, DiskFlushed
    <3>6. QED
      BY <2>2, <3>2, <3>4, <3>5 DEF OnDisk
  <2>6. QED
    BY <2>3, <2>4, <2>5
<1>8. QED
  BY <1>5, <1>6, <1>7 DEF write_datamsg

(* Before the signal nothing is taken off the disk.                        *)
LEMMA DiskGrows ==
  ASSUME IndInv, [Next]_vars, g_quit' = 0
  PROVE  g_quit = 0 /\ OnDisk \subseteq OnDisk'
<1> USE DEF IndInv
<1>0. files' = files => OnDisk \subseteq OnDisk'
  BY DEF OnDisk
<1>1. CASE UNCHANGED vars
  BY <1>0, <1>1 DEF vars, disk
<1>2. CASE Running /\ ReceiverStep
  <2>1. g_quit' = g_quit
    BY <1>2, ReceiverFrame
  <2>2. CASE write_datamsg
    BY <2>1, <2>2, WriteGrows
  <2>3. CASE detach_names
    <3>1. PICK out \in Written(pend) : files' = Flushed(files, curr_fp, out)
      BY <2>3 DEF detach_names, close_datafile
    <3>2. out \in Seq(Chunk)
      BY OpenFiles, WrittenPart
    <3>3. QED
      BY <2>1, <3>1, <3>2, DiskClosed DEF OnDisk
  <2>4. CASE ~write_datamsg /\ ~detach_names
    <3>1. files' = files
      BY <1>2, <2>4 DEF ReceiverStep, receiver_start, receiver_start_fails, select_ready, select_timeout,
         receiver_quitcheck, last_push, push_names, netlink_sock_recv, flush, disk
    <3>2. QED
      BY <1>0, <2>1, <3>1
  <2>5. QED
    BY <2>2, <2>3, <2>4
<1>3. CASE Running /\ SenderStep
  <2>1. g_quit' = g_quit /\ spc \notin {"dump", "dumppop"}
    BY <1>3, SenderFrame DEF MainInv
  <2>2. CASE sender_pop \/ sender_pop_timeout \/ sender_quitcheck \/ send_log_buff
    BY <1>0, <2>1, <2>2 DEF sender_pop, sender_pop_timeout, sender_quitcheck, send_log_buff, disk
  <2>3. CASE send_log_file \/ send_files_end \/ sender_check
    BY <1>0, <2>1, <2>3 DEF send_log_file, send_files_end, sender_check, disk
  <2>4. CASE dump_rename \/ dump_names_end \/ dump_open \/ dump_write \/ dump_pop \/ dump_pop_timeout
    BY <2>1, <2>4 DEF dump_rename, dump_names_end, dump_open, dump_write, dump_pop, dump_pop_timeout, SGoto
  <2>5. QED
    BY <1>3, <2>2, <2>3, <2>4 DEF SenderStep
<1>4. CASE Running /\ (Signal \/ user_loggin \/ MainStep \/ StarterStep)
  <2>1. g_quit = 0
    <3>1. CASE Signal
      BY <3>1 DEF Signal, signal_graceful, signal_term, MainInv
    <3>2. CASE user_loggin \/ MainStep \/ StarterStep
      BY <3>2 DEF user_loggin, MainStep, main_start, main_start_fails, join_receiver, join_sender, reload,
                  end, StarterStep, create_receiver, create_sender, create_fails
    <3>3. QED
      BY <1>4, <3>1, <3>2
  <2>2. \/ files' = files
        \/ \E out \in Written(pend), dout \in Written(dpend) :
             files' = Flushed(Flushed(files, curr_fp, out), dumpfp, dout)
    BY <1>4, MainFrame DEF create_receiver, create_sender, disk
  <2>3. ASSUME NEW out \in Written(pend), NEW dout \in Written(dpend),
               files' = Flushed(Flushed(files, curr_fp, out), dumpfp, dout)
        PROVE  OnDisk \subseteq OnDisk'
    <3> DEFINE closed == Flushed(files, curr_fp, out)
    <3>1. out \in Seq(Chunk) /\ dout \in Seq(Chunk)
      BY OpenFiles, WrittenPart
    <3>2. /\ closed \in Directory /\ DiskChunks(files) \subseteq DiskChunks(closed)
          /\ dumpfp \in Path \cup {NULL, GONE}
          /\ dumpfp \in Path => closed[dumpfp] # NULL
      BY <3>1, OpenFiles, FlushedFiles, DiskClosed
    <3>3. files' = Flushed(closed, dumpfp, dout)
      BY <2>3
    <3> HIDE DEF closed
    <3>4. DiskChunks(closed) \subseteq DiskChunks(Flushed(closed, dumpfp, dout))
      <4>1. CASE dumpfp \in Path
        BY <3>1, <3>2, <4>1, DiskFlushed
      <4>2. CASE dumpfp \in {NULL, GONE}
        BY <4>2 DEF Flushed
      <4>3. QED
        BY <3>2, <4>1, <4>2
    <3>5. QED
      BY <3>2, <3>3, <3>4 DEF OnDisk
  <2>4. QED
    BY <1>0, <2>1, <2>2, <2>3
<1>5. QED
  BY <1>1, <1>2, <1>3, <1>4 DEF Next

(* Only the two send functions make chunks arrive.                         *)
LEMMA WhoDelivers ==
  ASSUME [Next]_vars, arrived' # arrived
  PROVE  Running /\ (send_log_buff \/ send_log_file)
<1>1. ~UNCHANGED vars
  BY DEF vars, outside
<1>2. CASE Running /\ ReceiverStep
  BY <1>2, ReceiverFrame
<1>3. CASE Running /\ SenderStep
  BY <1>3 DEF SenderStep, sender_pop, sender_pop_timeout, sender_quitcheck, send_files_end, sender_check,
     dump_rename, dump_names_end, dump_open, dump_write, dump_pop, dump_pop_timeout, outside
<1>4. CASE Running /\ (Signal \/ user_loggin \/ MainStep \/ StarterStep)
  BY <1>4, MainFrame DEF MemoryGone, create_receiver, create_sender, outside
<1>5. QED
  BY <1>1, <1>2, <1>3, <1>4 DEF Next

(* The server gets each chunk for the first time in order.                 *)
LEMMA ArrivesKeeps ==
  ASSUME IndInv, OrderInv, ArrivesInOrder, [Next]_vars
  PROVE  ArrivesInOrder'
<1>1. g_quit' = 0 => g_quit = 0 /\ OnDisk \subseteq OnDisk'
  BY DiskGrows
<1>2. CASE arrived' = arrived
  BY <1>1, <1>2 DEF ArrivesInOrder
<1>3. CASE arrived' # arrived
  <2>1. Running /\ (send_log_buff \/ send_log_file)
    BY <1>3, WhoDelivers
  <2>2. InOrder
    BY <2>1 DEF OrderInv, Live, send_log_buff, send_log_file, SGoto
  <2>3. CASE send_log_buff
    <3>1. Increasing(arrived')
      BY <2>2, <2>3, SendBuffKeeps
    <3>2. arrived' \in Seq(Chunk)
      <4>1. smsg.data \in Seq(Chunk) /\ Request(smsg.data)
        BY <2>3, MessageParts DEF send_log_buff, SGoto, IndInv, SendInv
      <4>2. QED
        BY <4>1, RequestResult DEF IndInv
    <3>3. \A i \in 1 .. Len(arrived') : arrived'[i] \in Int
      BY <3>2, Members
    <3>4. QED
      BY <3>1, <3>3 DEF ArrivesInOrder, Increasing
  <2>4. CASE send_log_file
    <3> DEFINE t0 == Head(smsg.names)
               f == files[DataPath(t0)]
    <3>1. spc = "send" /\ HeadExists(smsg) /\ Request(f) /\ smsg.type # 0 /\ files' = files
      BY <2>4 DEF send_log_file, disk
    <3>2. smsg # NULL /\ smsg \in Message /\ smsg.names # <<>> /\ smsg.names \in Seq(Second)
      BY <3>1, MessageParts DEF IndInv, SendInv, HeadExists
    <3>3. /\ t0 \in Second /\ t0 = smsg.names[1] /\ 1 \in 1 .. Len(smsg.names)
          /\ DataPath(t0) \in Path /\ f # NULL
      BY <3>1, <3>2, Paths DEF HeadExists
    <3>4. files \in Directory /\ Increasing(f)
      BY <2>2, <3>3 DEF InOrder, DiskOrder, Ordered
    <3>5. f \in Seq(Chunk) /\ Contents(f) \subseteq FileChunks(files, curr_fp, pend, t0)
      BY <3>3, <3>4 DEF FileChunks, Directory
    <3>6. Contents(f) \subseteq OnDisk
      BY <3>3 DEF OnDisk, DiskChunks
    <3>7. \A v \in Contents(f) : Ahead(v)
      BY <2>2, <3>1, <3>2, <3>3, <3>5 DEF InOrder, NotOvertaken, HoldsNames
    <3> HIDE DEF f, t0
    <3>8. arrived \in Seq(Chunk) /\ arrived' = arrived \o f
      BY <1>3, <3>1, <3>5, RequestResult DEF IndInv, SendInv
    <3>9. /\ Len(arrived) \in Nat /\ Len(f) \in Nat /\ Len(arrived') = Len(arrived) + Len(f)
          /\ \A j \in 1 .. Len(arrived') : arrived'[j] = IF j <= Len(arrived) THEN arrived[j] ELSE f[j - Len(arrived)]
      BY <3>5, <3>8
    <3>10. OnDisk' = OnDisk /\ (g_quit' = 0 => g_quit = 0)
      BY <1>1, <3>1 DEF OnDisk
    <3>11. ASSUME NEW i \in 1 .. Len(arrived'), NEW j \in 1 .. Len(arrived'), i < j, arrived'[i] >= arrived'[j]
           PROVE  /\ \E k \in 1 .. i : arrived'[k] = arrived'[j]
                  /\ g_quit' = 0 => arrived'[j] \in OnDisk'
      <4>1. CASE j <= Len(arrived)
        <5>1. /\ i \in 1 .. Len(arrived) /\ j \in 1 .. Len(arrived) /\ arrived'[i] = arrived[i]
              /\ arrived'[j] = arrived[j] /\ \A k \in 1 .. i : arrived'[k] = arrived[k]
          BY <3>9, <3>11, <4>1
        <5>2. (\E k \in 1 .. i : arrived[k] = arrived[j]) /\ (g_quit = 0 => arrived[j] \in OnDisk)
          BY <3>11, <5>1 DEF ArrivesInOrder
        <5>3. QED
          BY <3>10, <5>1, <5>2
      <4>2. CASE ~(j <= Len(arrived))
        <5>1. j - Len(arrived) \in 1 .. Len(f) /\ arrived'[j] = f[j - Len(arrived)]
          BY <3>9, <3>11, <4>2
        <5>2. f[j - Len(arrived)] \in Contents(f) /\ f[j - Len(arrived)] \in Int
          BY <3>5, <5>1, Members
        <5>3. arrived'[j] \in OnDisk'
          BY <3>6, <3>10, <5>1, <5>2
        <5>4. i <= Len(arrived)
          <6>1. SUFFICES ASSUME ~(i <= Len(arrived)) PROVE FALSE
            OBVIOUS
          <6>2. i - Len(arrived) \in 1 .. Len(f) /\ i - Len(arrived) < j - Len(arrived)
                /\ arrived'[i] = f[i - Len(arrived)]
            BY <3>9, <3>11, <6>1
          <6>3. f[i - Len(arrived)] < f[j - Len(arrived)] /\ f[i - Len(arrived)] \in Int
            BY <3>4, <3>5, <5>1, <6>2, Members DEF Increasing, f
          <6>4. QED
            BY <3>11, <5>1, <5>2, <6>2, <6>3
        <5>5. i \in 1 .. Len(arrived) /\ arrived[i] >= arrived'[j] /\ \A k \in 1 .. i : arrived'[k] = arrived[k]
          BY <3>9, <3>11, <5>4
        <5>6. PICK k \in 1 .. i : arrived[k] = arrived'[j]
          BY <3>7, <5>1, <5>2, <5>5 DEF Ahead
        <5>7. QED
          BY <5>3, <5>5, <5>6
      <4>3. QED
        BY <4>1, <4>2
    <3>12. QED
      BY <3>11 DEF ArrivesInOrder
  <2>5. QED
    BY <2>1, <2>3, <2>4
<1>4. QED
  BY <1>2, <1>3

(* Over retries, server errors and the detour through files, each chunk    *)
(* reaches the server for the first time in the order the receiver got it, *)
(* and twice only from a file on disk, for any queue, cache and sizes      *)
(* configured and any behaviour of the network.                            *)
THEOREM ArriveInOrder ==
  Spec => []ArrivesInOrder
<1>1. Init => OrderInv /\ ArrivesInOrder
  <2>1. Init => ArrivesInOrder
    BY DEF Init, ArrivesInOrder
  <2>2. QED
    BY <2>1, OrderInit
<1>2. IndInv /\ IndInv' /\ (OrderInv /\ ArrivesInOrder) /\ [Next]_vars => (OrderInv /\ ArrivesInOrder)'
  BY OrderKeeps, ArrivesKeeps
<1>3. QED
  BY <1>1, <1>2, AlwaysInd, PTL DEF Spec

================================================================================
