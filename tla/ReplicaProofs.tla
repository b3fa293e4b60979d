---------------------------- MODULE ReplicaProofs ----------------------------
(***************************************************************************)
(* TypeOK, ReplicasAgree and SnapshotIsPrefix of Replica, for every number *)
(* of servers and commands, all payload lengths and every bound on the     *)
(* restarts.                                                               *)
(***************************************************************************)
EXTENDS Replica, SegmentedLogProofs

-----------------------------------------------------------------------------
(* The invariant.                                                           *)

\* The records of the first n commands.
FirstRecords(n) == [k \in 1 .. n |-> RecordOf(k)]

RecordsTo(n) == {RecordOf(k) : k \in 1 .. n}

SnapshotType == [index : Nat, recs : Seq(Record)]

WorkType == [index : Nat, todo : Seq(Nat), recs : Seq(Record), busy : BOOLEAN]

Shape ==
    /\ committed \in Seq(PayloadLens)
    /\ Len(committed) <= MaxCommands
    /\ DOMAIN log = Servers
    /\ phase \in [Servers -> {"up", "failed"}]
    /\ applied \in [Servers -> Nat]
    /\ snap \in [Servers -> SnapshotType]
    /\ work \in [Servers -> WorkType]
    /\ restarts \in [Servers -> 0 .. MaxRestarts]

WithinCommitted(s) ==
    /\ applied[s] <= Len(committed)
    /\ snap[s].index <= Len(committed)
    /\ work[s].index <= Len(committed)

\* A server that is up has an open log, in any of its lives; one that failed
\* has lost the directory and the segments with it.
LogOpen(s) ==
    /\ phase[s] = "up" => SoundLog(log[s]) /\ log[s].segments # <<>>
    /\ phase[s] = "failed" => log[s] = [files |-> [b \in {} |-> NoFile], segments |-> <<>>]

\* A server that has applied a command has a frame somewhere.
AppliedLeavesFrame(s) ==
    phase[s] = "up" /\ applied[s] > 0 =>
        \E i \in DOMAIN log[s].segments : HasFrames(log[s], i)

\* So a snapshot, which is only taken then, never ends without a record: what
\* makes Restore go through Reset.
WorkFindsFrame(s) ==
    /\ ~work[s].busy => work[s] = NoWork
    /\ phase[s] = "up" =>
          \A k \in DOMAIN work[s].todo : work[s].todo[k] \in DOMAIN log[s].segments
    /\ work[s].busy /\ work[s].recs = <<>> =>
          /\ work[s].todo # <<>>
          /\ phase[s] = "up" =>
                \E k \in DOMAIN work[s].todo : HasFrames(log[s], work[s].todo[k])

SnapshotHasRecords(s) == snap[s].index > 0 => snap[s].recs # <<>>

Untouched(s) == restarts[s] = 0 /\ phase[s] = "up"

\* The log of a server in its first life: the records of the commands that it
\* has applied, one after the other from InitialOffset on.
LogIsPrefix(s) ==
    Untouched(s) =>
        /\ GoodLog(log[s], RecordsTo(applied[s]))
        /\ Last(log[s].segments).next = InitialOffset + applied[s]
        /\ Stored(log[s]) = InitialOffset .. InitialOffset + applied[s] - 1

\* The stores still to be read are consecutive, the first of them starts where
\* the records read so far end, and the last of them reaches at least as far as
\* the index of the snapshot.
WorkIsPrefix(s) ==
    Untouched(s) =>
        LET todo == work[s].todo
            recs == work[s].recs
            segs == log[s].segments
        IN  /\ Len(recs) <= applied[s]
            /\ recs = FirstRecords(Len(recs))
            /\ \A k \in DOMAIN todo : todo[k] = todo[1] + k - 1
            /\ todo = <<>> => work[s].index <= Len(recs)
            /\ todo # <<>> => /\ InitialOffset + Len(recs) = segs[todo[1]].base
                              /\ InitialOffset + work[s].index
                                     <= segs[todo[Len(todo)]].next

SnapIsPrefix(s) ==
    Untouched(s) =>
        /\ Len(snap[s].recs) <= applied[s]
        /\ snap[s].recs = FirstRecords(Len(snap[s].recs))
        /\ snap[s].index <= Len(snap[s].recs)

ServerInv(s) ==
    /\ WithinCommitted(s) /\ LogOpen(s)
    /\ AppliedLeavesFrame(s) /\ WorkFindsFrame(s) /\ SnapshotHasRecords(s)
    /\ LogIsPrefix(s) /\ WorkIsPrefix(s) /\ SnapIsPrefix(s)

IInv == Shape /\ \A s \in Servers : ServerInv(s)

-----------------------------------------------------------------------------
(* Prefixes of the commands.                                                *)

\* The records of the commands from number a + 1 to number b.
Piece(a, b) == [k \in 1 .. b - a |-> RecordOf(a + k)]

\* The record of a committed command.
LEMMA RecordOfType ==
    ASSUME committed \in Seq(PayloadLens), NEW n \in 1 .. Len(committed)
    PROVE  RecordOf(n) \in Record /\ RecordOf(n).offset = InitialOffset + n - 1
<1>1. committed[n] \in Nat
  <2>1. committed[n] \in PayloadLens
    BY ElementOfSeq
  <2>. QED
    BY <2>1, ClusterAssumption DEF ClusterAssumption
<1>2. InitialOffset + n - 1 \in Nat /\ n \in Nat
  BY ConfigAssumption DEF ConfigAssumption
<1>. QED
  BY <1>1, <1>2 DEF RecordOf, Record

\* A piece of the committed commands is a sequence of records.
LEMMA PieceType ==
    ASSUME committed \in Seq(PayloadLens), NEW b \in 0 .. Len(committed), NEW a \in 0 .. b
    PROVE  Piece(a, b) \in Seq(Record) /\ Len(Piece(a, b)) = b - a
<1>1. \A k \in 1 .. b - a : a + k \in 1 .. Len(committed)
  OBVIOUS
<1>2. \A k \in 1 .. b - a : RecordOf(a + k) \in Record
  BY <1>1, RecordOfType
<1>3. b - a \in Nat
  OBVIOUS
<1>4. Piece(a, b) \in [1 .. b - a -> Record]
  BY <1>2 DEF Piece
<1>. QED
  BY <1>3, <1>4

\* So is a prefix of them.
LEMMA FirstRecordsType ==
    ASSUME committed \in Seq(PayloadLens), NEW n \in 0 .. Len(committed)
    PROVE  FirstRecords(n) \in Seq(Record) /\ Len(FirstRecords(n)) = n
<1>1. \A k \in 1 .. n : RecordOf(k) \in Record
  BY RecordOfType
<1>2. FirstRecords(n) \in [1 .. n -> Record] /\ n \in Nat
  BY <1>1 DEF FirstRecords
<1>. QED
  BY <1>2

\* A prefix and the piece behind it make a longer prefix.
LEMMA Joined ==
    ASSUME committed \in Seq(PayloadLens), NEW b \in 0 .. Len(committed), NEW a \in 0 .. b
    PROVE  FirstRecords(a) \o Piece(a, b) = FirstRecords(b)
<1> DEFINE p == FirstRecords(a)
           q == Piece(a, b)
           r == FirstRecords(b)
<1>1. a \in Nat /\ b \in Nat /\ a + (b - a) = b /\ a \in 0 .. Len(committed)
  OBVIOUS
<1>2. /\ p \in Seq(Record) /\ Len(p) = a /\ r \in Seq(Record) /\ Len(r) = b
      /\ q \in Seq(Record) /\ Len(q) = b - a
  BY <1>1, FirstRecordsType, PieceType
<1>3. /\ \A k \in 1 .. a : p[k] = RecordOf(k)
      /\ \A k \in 1 .. b : r[k] = RecordOf(k)
      /\ \A k \in 1 .. b - a : q[k] = RecordOf(a + k)
  BY DEF FirstRecords, Piece
<1> HIDE DEF p, q, r
<1>4. /\ p \o q \in Seq(Record) /\ Len(p \o q) = b
      /\ \A i \in 1 .. b : (p \o q)[i] = IF i <= a THEN p[i] ELSE q[i - a]
  <2>1. /\ p \o q \in Seq(Record) /\ Len(p \o q) = Len(p) + Len(q)
        /\ \A i \in 1 .. Len(p) + Len(q) :
               (p \o q)[i] = IF i <= Len(p) THEN p[i] ELSE q[i - Len(p)]
    BY <1>2, ConcatProperties
  <2>2. Len(p) = a /\ Len(p) + Len(q) = b
    BY <1>1, <1>2
  <2>. QED
    BY <2>1, <2>2
<1>5. ASSUME NEW i \in 1 .. b PROVE (p \o q)[i] = r[i]
  <2>1. CASE i <= a
    BY <1>3, <1>4, <2>1
  <2>2. CASE ~(i <= a)
    <3>1. i - a \in 1 .. b - a /\ a + (i - a) = i
      BY <1>1, <2>2
    <3>2. q[i - a] = RecordOf(i)
      BY <1>3, <3>1
    <3>. QED
      BY <1>3, <1>4, <2>2, <3>2
  <2>. QED
    BY <2>1, <2>2
<1>6. p \o q = r
  BY <1>2, <1>4, <1>5, SeqEqual
<1>. QED
  BY <1>6 DEF p, q, r

\* The frames of one segment hold the piece between its two offsets.
LEMMA SegmentRecords ==
    ASSUME committed \in Seq(PayloadLens), NEW N \in 0 .. Len(committed),
           NEW sg \in Segment, NEW f \in File, Consistent(sg, f, RecordsTo(N)),
           InitialOffset <= sg.base, sg.next <= InitialOffset + N
    PROVE  StoredRecords(f.store \o sg.buf)
               = Piece(sg.base - InitialOffset, sg.next - InitialOffset)
<1> DEFINE frames == f.store \o sg.buf
           a == sg.base - InitialOffset
           b == sg.next - InitialOffset
<1>1. /\ sg.base \in Nat /\ sg.next \in Nat /\ InitialOffset \in Nat
      /\ sg.base <= sg.next
  BY ConfigAssumption DEF Segment, Consistent, ConfigAssumption
<1>2. /\ a \in Nat /\ b \in Nat /\ b - a = sg.next - sg.base
      /\ sg.base = InitialOffset + a
  BY <1>1
<1>3. frames \in Seq(Frame) /\ Len(frames) = sg.next - sg.base
  <2>1. f.store \in Seq(Frame) /\ sg.buf \in Seq(Frame)
    BY DEF File, Segment
  <2>. QED
    BY <2>1, ConcatProperties DEF Consistent
<1>4. \A k \in DOMAIN frames : /\ frames[k].rec \in RecordsTo(N)
                               /\ frames[k].rec.offset = sg.base + k - 1
  BY DEF Consistent
<1> HIDE DEF frames, a, b
<1>5. DOMAIN frames = 1 .. b - a
  BY <1>2, <1>3
<1>6. ASSUME NEW k \in 1 .. b - a PROVE frames[k].rec = RecordOf(a + k)
  <2>1. PICK n \in 1 .. N : frames[k].rec = RecordOf(n)
    BY <1>4, <1>5 DEF RecordsTo
  <2>2. RecordOf(n).offset = InitialOffset + n - 1
    BY RecordOfType
  <2>3. RecordOf(n).offset = sg.base + k - 1
    BY <1>4, <1>5, <2>1
  <2>4. n = a + k
    BY <1>1, <1>2, <2>2, <2>3
  <2>. QED
    BY <2>1, <2>4
<1>7. StoredRecords(frames) = Piece(a, b)
  BY <1>5, <1>6 DEF StoredRecords, Piece
<1>. QED
  BY <1>7 DEF frames, a, b

\* A good log that holds every offset from InitialOffset to its end has its
\* segments end to end.
LEMMA Tiled ==
    ASSUME NEW recs, NEW l, GoodLog(l, recs), l.segments # <<>>, NEW N \in Nat,
           Last(l.segments).next = InitialOffset + N,
           Stored(l) = InitialOffset .. InitialOffset + N - 1
    PROVE  LET n == Len(l.segments)
               segs == l.segments
           IN  /\ n \in Nat \ {0} /\ DOMAIN segs = 1 .. n
               /\ segs[1].base = InitialOffset /\ segs[n].next = InitialOffset + N
               /\ \A i \in 1 .. n : i # n => i + 1 \in 1 .. n /\ segs[i + 1].base = segs[i].next
               /\ \A i \in 1 .. n : /\ segs[i] \in Segment
                                    /\ segs[i].base \in Nat /\ segs[i].next \in Nat
                                    /\ InitialOffset <= segs[i].base
                                    /\ segs[i].base <= segs[i].next
                                    /\ segs[i].next <= InitialOffset + N
<1> DEFINE n == Len(l.segments)
           segs == l.segments
<1>0. InitialOffset \in Nat
  BY ConfigAssumption DEF ConfigAssumption
<1>1. /\ n \in Nat \ {0} /\ DOMAIN segs = 1 .. n
      /\ \A i \in 1 .. n : /\ segs[i] \in Segment
                           /\ segs[i].base \in Nat /\ segs[i].next \in Nat
                           /\ segs[i].base <= segs[i].next
  BY GoodShape
<1>2. segs[n].next = InitialOffset + N
  BY DEF Last
<1>3. \A i, j \in 1 .. n : i < j => /\ segs[i].base < segs[i].next
                                    /\ segs[i].next <= segs[j].base
  BY <1>1 DEF GoodLog
<1>4. \A off : (\E i \in 1 .. n : off \in segs[i].base .. segs[i].next - 1)
                   <=> off \in InitialOffset .. InitialOffset + N - 1
  BY <1>1, InStored DEF Held
<1> HIDE DEF n, segs
<1>5. n \in 1 .. n /\ 1 \in 1 .. n
  BY <1>1
<1>6. \A i \in 1 .. n : segs[1].base <= segs[i].base /\ segs[i].next <= InitialOffset + N
  <2>1. ASSUME NEW i \in 1 .. n PROVE segs[1].base <= segs[i].base
    <3>1. i = 1 \/ 1 < i
      BY <1>1
    <3>2. 1 < i => segs[1].base < segs[1].next /\ segs[1].next <= segs[i].base
      BY <1>3, <1>5
    <3>. QED
      BY <1>1, <1>5, <3>1, <3>2
  <2>2. ASSUME NEW i \in 1 .. n PROVE segs[i].next <= InitialOffset + N
    <3>1. i = n \/ i < n
      BY <1>1
    <3>2. i < n => segs[i].next <= segs[n].base
      BY <1>3, <1>5
    <3>. QED
      BY <1>0, <1>1, <1>2, <1>5, <3>1, <3>2
  <2>. QED
    BY <2>1, <2>2
<1>7. segs[1].base = InitialOffset
  <2>1. segs[1].base \in Nat /\ segs[1].next \in Nat /\ segs[1].base <= segs[1].next
    BY <1>1, <1>5
  <2>2. CASE segs[1].base < InitialOffset
    <3>1. segs[1].base \notin InitialOffset .. InitialOffset + N - 1
      BY <1>0, <2>1, <2>2
    <3>2. ~(segs[1].base \in segs[1].base .. segs[1].next - 1)
      BY <1>4, <1>5, <3>1
    <3>3. segs[1].next = segs[1].base
      BY <2>1, <3>2
    <3>4. n = 1
      <4>1. 1 < n => segs[1].base < segs[1].next
        BY <1>3, <1>5
      <4>. QED
        BY <1>1, <2>1, <3>3, <4>1
    <3>. QED
      BY <1>0, <1>2, <2>1, <2>2, <3>3, <3>4
  <2>3. CASE InitialOffset < segs[1].base
    <3>1. InitialOffset < InitialOffset + N
      BY <1>0, <1>5, <1>6, <2>1, <2>3
    <3>2. InitialOffset \in InitialOffset .. InitialOffset + N - 1
      BY <1>0, <3>1
    <3>3. PICK i \in 1 .. n : InitialOffset \in segs[i].base .. segs[i].next - 1
      BY <1>4, <3>2
    <3>4. segs[1].base <= segs[i].base /\ segs[i].base \in Nat
      BY <1>1, <1>6
    <3>. QED
      BY <1>0, <2>1, <2>3, <3>3, <3>4
  <2>. QED
    BY <1>0, <2>1, <2>2, <2>3
<1>8. ASSUME NEW i \in 1 .. n, i # n
      PROVE  i + 1 \in 1 .. n /\ segs[i + 1].base = segs[i].next
  <2> DEFINE off == segs[i].next
             top == segs[i + 1].base
  <2>1. i + 1 \in 1 .. n /\ i < i + 1
    BY <1>1, <1>8
  <2>2. /\ off \in Nat /\ top \in Nat /\ off <= top
        /\ segs[i].base < off /\ segs[i].base \in Nat
    BY <1>1, <1>3, <2>1
  <2>3. CASE off < top
    <3>1. off \in InitialOffset .. InitialOffset + N - 1
      <4>1. InitialOffset <= segs[i].base
        BY <1>6, <1>7
      <4>2. /\ top <= segs[i + 1].next /\ segs[i + 1].next <= InitialOffset + N
            /\ segs[i + 1].next \in Nat
        BY <1>1, <1>6, <2>1
      <4> HIDE DEF off, top
      <4>. QED
        BY <1>0, <2>2, <2>3, <4>1, <4>2
    <3>2. PICK j \in 1 .. n : off \in segs[j].base .. segs[j].next - 1
      BY <1>4, <3>1
    <3>3. segs[j].base \in Nat /\ segs[j].next \in Nat
      BY <1>1
    <3>4. CASE j = i
      BY <2>2, <3>2, <3>3, <3>4
    <3>5. CASE j < i
      <4>1. segs[j].next <= segs[i].base
        BY <1>3, <3>5
      <4> HIDE DEF off
      <4>. QED
        BY <2>2, <3>2, <3>3, <4>1
    <3>6. CASE j = i + 1
      BY <2>2, <2>3, <3>2, <3>3, <3>6
    <3>7. CASE i + 1 < j
      <4>1. segs[i + 1].base < segs[i + 1].next /\ segs[i + 1].next <= segs[j].base
        BY <1>3, <2>1, <3>7
      <4>2. top < segs[j].base
        BY <1>1, <2>1, <3>3, <4>1
      <4> HIDE DEF off, top
      <4>. QED
        BY <2>2, <2>3, <3>2, <3>3, <4>2
    <3>. QED
      BY <1>1, <2>1, <3>4, <3>5, <3>6, <3>7
  <2>. QED
    BY <2>1, <2>2, <2>3
<1>. QED
  BY <1>0, <1>1, <1>2, <1>6, <1>7, <1>8 DEF n, segs

-----------------------------------------------------------------------------
(* The properties follow from the invariant.                                *)

\* The types: those of the invariant, and the bounds by the committed commands.
LEMMA InvIsTypeOK == IInv => TypeOK
<1> SUFFICES ASSUME IInv PROVE TypeOK
  OBVIOUS
<1> USE DEF IInv
<1>1. committed \in Seq(PayloadLens) /\ Len(committed) \in Nat
  BY LenProperties DEF Shape
<1>2. ASSUME NEW s \in Servers
      PROVE  /\ log[s].segments \in Seq(Segment)
             /\ log[s].files \in [DOMAIN log[s].files -> File]
  <2>1. LogOpen(s)
    BY DEF ServerInv
  <2>2. CASE phase[s] = "up"
    BY <2>1, <2>2 DEF LogOpen, SoundLog, Directory
  <2>3. CASE phase[s] = "failed"
    <3>1. log[s].segments = <<>> /\ log[s].files = [b \in {} |-> NoFile]
      BY <2>1, <2>3 DEF LogOpen
    <3>. QED
      BY <3>1, EmptySeq
  <2>. QED
    BY <2>2, <2>3 DEF Shape
<1>3. ASSUME NEW s \in Servers
      PROVE  /\ phase[s] \in {"up", "failed"}
             /\ applied[s] \in 0 .. Len(committed)
             /\ snap[s].index \in 0 .. Len(committed)
             /\ work[s].index \in 0 .. Len(committed)
             /\ restarts[s] \in 0 .. MaxRestarts
  <2>1. /\ phase[s] \in {"up", "failed"} /\ applied[s] \in Nat
        /\ snap[s].index \in Nat /\ work[s].index \in Nat
        /\ restarts[s] \in 0 .. MaxRestarts
    BY DEF Shape, SnapshotType, WorkType
  <2>2. WithinCommitted(s)
    BY DEF ServerInv
  <2>. QED
    BY <1>1, <2>1, <2>2 DEF WithinCommitted
<1>. QED
  BY <1>1, <1>2, <1>3 DEF TypeOK

\* The stores of a server in its first life, one after the other, hold the
\* records of the commands it has applied.
LEMMA RecordsOfPrefix ==
    ASSUME committed \in Seq(PayloadLens), NEW N \in 0 .. Len(committed),
           NEW l, GoodLog(l, RecordsTo(N)), l.segments # <<>>,
           Last(l.segments).next = InitialOffset + N,
           Stored(l) = InitialOffset .. InitialOffset + N - 1
    PROVE  Records(l) = FirstRecords(N)
<1> DEFINE segs == l.segments
           n == Len(segs)
           to(i) == segs[i].next - InitialOffset
           from(i) == segs[i].base - InitialOffset
           ss == [i \in DOMAIN segs |->
                     LET sg == segs[i]
                     IN  StoredRecords(l.files[sg.base].store \o sg.buf)]
           g == [i \in 1 .. n |-> FirstRecords(to(i))]
<1>0. N \in Nat /\ InitialOffset \in Nat
  BY LenProperties, ConfigAssumption DEF ConfigAssumption
<1>1. /\ n \in Nat \ {0} /\ DOMAIN segs = 1 .. n
      /\ segs[1].base = InitialOffset /\ segs[n].next = InitialOffset + N
      /\ \A i \in 1 .. n : i # n => i + 1 \in 1 .. n /\ segs[i + 1].base = segs[i].next
      /\ \A i \in 1 .. n : /\ segs[i] \in Segment
                           /\ segs[i].base \in Nat /\ segs[i].next \in Nat
                           /\ InitialOffset <= segs[i].base
                           /\ segs[i].base <= segs[i].next
                           /\ segs[i].next <= InitialOffset + N
  BY <1>0, Tiled
<1>2. ASSUME NEW i \in 1 .. n PROVE ss[i] = Piece(from(i), to(i))
  <2>1. /\ l.files[segs[i].base] \in File
        /\ Consistent(segs[i], l.files[segs[i].base], RecordsTo(N))
    BY <1>1, GoodShape DEF GoodLog
  <2>2. StoredRecords(l.files[segs[i].base].store \o segs[i].buf) = Piece(from(i), to(i))
    BY <1>1, <2>1, SegmentRecords
  <2>. QED
    BY <1>1, <2>2
<1>3. Records(l) = FlattenSeq(ss)
  BY DEF Records
<1>4. /\ to(n) = N /\ from(1) = 0
      /\ \A i \in 1 .. n : to(i) \in 0 .. N /\ from(i) \in 0 .. to(i)
      /\ \A i \in 1 .. n : i # 1 => i - 1 \in 1 .. n /\ from(i) = to(i - 1)
  <2>1. to(n) = N /\ from(1) = 0
    BY <1>0, <1>1
  <2>2. ASSUME NEW i \in 1 .. n PROVE to(i) \in 0 .. N /\ from(i) \in 0 .. to(i)
    <3> DEFINE base == segs[i].base
               next == segs[i].next
    <3>1. /\ base \in Nat /\ next \in Nat
          /\ InitialOffset <= base /\ base <= next /\ next <= InitialOffset + N
      BY <1>1
    <3> HIDE DEF base, next
    <3>2. /\ next - InitialOffset \in 0 .. N
          /\ base - InitialOffset \in 0 .. (next - InitialOffset)
      BY <1>0, <3>1
    <3>. QED
      BY <3>2 DEF base, next
  <2>3. ASSUME NEW i \in 1 .. n, i # 1 PROVE i - 1 \in 1 .. n /\ from(i) = to(i - 1)
    <3>1. i - 1 \in 1 .. n /\ i - 1 # n /\ (i - 1) + 1 = i
      BY <1>1, <2>3
    <3>. QED
      BY <1>1, <3>1
  <2>. QED
    BY <2>1, <2>2, <2>3
<1>5. DOMAIN ss = 1 .. n
  BY <1>1
<1> HIDE DEF ss, to, from, segs, n
<1>6. \A i \in 1 .. n : to(i) \in 0 .. Len(committed)
  BY <1>0, <1>4
<1>7. ss \in Seq(Seq(Record)) /\ ss # <<>> /\ Len(ss) = n
  <2>1. \A i \in 1 .. n : ss[i] \in Seq(Record)
    BY <1>2, <1>4, <1>6, PieceType
  <2>2. ss = [i \in 1 .. n |-> ss[i]]
    BY <1>5 DEF ss
  <2>3. ss \in [1 .. n -> Seq(Record)]
    BY <2>1, <2>2
  <2>. QED
    BY <1>1, <2>3
<1>8. ASSUME NEW i \in 1 .. n PROVE g[i] = IF i = 1 THEN ss[i] ELSE g[i - 1] \o ss[i]
  <2>1. FirstRecords(from(i)) \o ss[i] = FirstRecords(to(i))
    BY <1>2, <1>4, <1>6, Joined
  <2>2. CASE i = 1
    <3>1. ss[1] \in Seq(Record) /\ FirstRecords(from(1)) = <<>>
      <4>1. FirstRecords(0) = <<>>
        BY DEF FirstRecords
      <4>2. 1 \in DOMAIN ss
        BY <1>5, <2>2
      <4>. QED
        BY <1>4, <1>7, <4>1, <4>2
    <3>2. <<>> \o ss[1] = ss[1]
      BY <3>1, ConcatEmptySeq
    <3>. QED
      BY <2>1, <2>2, <3>1, <3>2
  <2>3. CASE i # 1
    <3>1. i - 1 \in 1 .. n /\ from(i) = to(i - 1)
      BY <1>4, <2>3
    <3>2. g[i - 1] = FirstRecords(from(i))
      BY <3>1
    <3>. QED
      BY <2>1, <2>3, <3>2
  <2>. QED
    BY <2>2, <2>3
<1>9. g[n] = FirstRecords(N)
  BY <1>1, <1>4
<1> HIDE DEF g
<1>10. FlattenSeq(ss) = g[Len(ss)]
  BY <1>7, <1>8, FlattenedBy
<1>. QED
  BY <1>3, <1>7, <1>9, <1>10

\* A server in its first life holds the records of what it has applied.
LEMMA InvIsReplicasAgree == IInv => ReplicasAgree
<1> SUFFICES ASSUME IInv, NEW s \in Servers, FirstLife(s)
             PROVE  Records(log[s]) = [n \in 1 .. applied[s] |-> RecordOf(n)]
  BY DEF ReplicasAgree
<1>1. /\ Shape /\ WithinCommitted(s) /\ LogOpen(s) /\ LogIsPrefix(s)
      /\ Untouched(s) /\ phase[s] = "up"
  BY DEF IInv, ServerInv, FirstLife, Untouched
<1>2. committed \in Seq(PayloadLens) /\ applied[s] \in 0 .. Len(committed)
  BY <1>1, LenProperties DEF Shape, WithinCommitted
<1>3. /\ GoodLog(log[s], RecordsTo(applied[s])) /\ log[s].segments # <<>>
      /\ Last(log[s].segments).next = InitialOffset + applied[s]
      /\ Stored(log[s]) = InitialOffset .. InitialOffset + applied[s] - 1
  BY <1>1 DEF LogOpen, LogIsPrefix
<1>4. Records(log[s]) = FirstRecords(applied[s])
  BY <1>2, <1>3, RecordsOfPrefix
<1>. QED
  BY <1>4 DEF FirstRecords

\* What is persisted in a first life, and its last snapshot, is a prefix.
LEMMA InvIsSnapshotIsPrefix == IInv => SnapshotIsPrefix
<1> SUFFICES ASSUME IInv, NEW s \in Servers, FirstLife(s),
                    NEW recs \in {work[s].recs, snap[s].recs}
             PROVE  /\ Len(recs) <= applied[s]
                    /\ recs = [n \in 1 .. Len(recs) |-> RecordOf(n)]
                    /\ snap[s].index <= Len(snap[s].recs)
  BY DEF SnapshotIsPrefix
<1>1. WorkIsPrefix(s) /\ SnapIsPrefix(s) /\ Untouched(s)
  BY DEF IInv, ServerInv, FirstLife, Untouched
<1>2. /\ Len(work[s].recs) <= applied[s] /\ work[s].recs = FirstRecords(Len(work[s].recs))
      /\ Len(snap[s].recs) <= applied[s] /\ snap[s].recs = FirstRecords(Len(snap[s].recs))
      /\ snap[s].index <= Len(snap[s].recs)
  BY <1>1 DEF WorkIsPrefix, SnapIsPrefix
<1>3. Len(recs) <= applied[s] /\ recs = FirstRecords(Len(recs))
  BY <1>2
<1>. QED
  BY <1>2, <1>3 DEF FirstRecords

-----------------------------------------------------------------------------
(* The initial state, and what a step leaves alone.                         *)

\* All servers start alike.
LEMMA InitInv == Init => IInv
<1> SUFFICES ASSUME Init PROVE IInv
  OBVIOUS
<1> USE DEF Init
<1>1. Len(committed) = 0 /\ MaxCommands \in Nat /\ MaxRestarts \in Nat
      /\ committed \in Seq(PayloadLens)
  BY EmptySeq, ClusterAssumption DEF ClusterAssumption
<1>2. NoSnapshot \in SnapshotType /\ NoWork \in WorkType
  BY EmptySeq DEF NoSnapshot, NoWork, SnapshotType, WorkType
<1>3. Shape
  BY <1>1, <1>2 DEF Shape
<1>4. ASSUME NEW s \in Servers PROVE ServerInv(s)
  <2>1. /\ log[s] = EmptyLog /\ phase[s] = "up" /\ applied[s] = 0
        /\ snap[s] = NoSnapshot /\ work[s] = NoWork
    OBVIOUS
  <2>2. FirstRecords(0) = <<>> /\ RecordsTo(0) = {} /\ Len(<<>>) = 0
    BY DEF FirstRecords, RecordsTo
  <2>3. WithinCommitted(s)
    BY <1>1, <2>1 DEF WithinCommitted, NoSnapshot, NoWork
  <2>4. LogOpen(s)
    BY <2>1, EmptyIsSound, GoodEmpty DEF LogOpen
  <2>5. AppliedLeavesFrame(s) /\ SnapshotHasRecords(s)
    BY <2>1 DEF AppliedLeavesFrame, SnapshotHasRecords, NoSnapshot
  <2>6. WorkFindsFrame(s)
    <3>1. work[s].busy = FALSE /\ work[s].todo = <<>>
      BY <2>1 DEF NoWork
    <3>. QED
      BY <2>1, <3>1 DEF WorkFindsFrame
  <2>7. LogIsPrefix(s)
    <3>1. /\ GoodLog(log[s], RecordsTo(applied[s]))
          /\ Last(log[s].segments).next = InitialOffset + 0
          /\ Stored(log[s]) = {}
      <4>1. InitialOffset + 0 = InitialOffset
        BY ConfigAssumption DEF ConfigAssumption
      <4> HIDE DEF Init
      <4>2. Last(log[s].segments).next = InitialOffset /\ Stored(log[s]) = {}
        BY <2>1, GoodEmpty
      <4>3. GoodLog(log[s], RecordsTo(applied[s]))
        BY <2>1, <2>2, GoodEmpty
      <4>. QED
        BY <4>1, <4>2, <4>3
    <3>2. InitialOffset .. InitialOffset + 0 - 1 = {}
      BY ConfigAssumption DEF ConfigAssumption
    <3>. QED
      BY <2>1, <3>1, <3>2 DEF LogIsPrefix
  <2>8. WorkIsPrefix(s)
    <3>1. work[s].recs = <<>> /\ work[s].todo = <<>> /\ work[s].index = 0
      BY <2>1 DEF NoWork
    <3>. QED
      BY <2>1, <2>2, <3>1 DEF WorkIsPrefix
  <2>9. SnapIsPrefix(s)
    <3>1. snap[s].recs = <<>> /\ snap[s].index = 0
      BY <2>1 DEF NoSnapshot
    <3>. QED
      BY <2>1, <2>2, <3>1 DEF SnapIsPrefix
  <2>. QED
    BY <2>3, <2>4, <2>5, <2>6, <2>7, <2>8, <2>9 DEF ServerInv
<1>. QED
  BY <1>3, <1>4 DEF IInv

\* The prefixes of the commands change with the commands only.
LEMMA SamePrefixes ==
    ASSUME committed' = committed
    PROVE  \A n : FirstRecords(n)' = FirstRecords(n) /\ RecordsTo(n)' = RecordsTo(n)
BY DEF FirstRecords, RecordsTo, RecordOf

\* A server that a step does not touch.
LEMMA Elsewhere ==
    ASSUME NEW s \in Servers, ServerInv(s), committed' = committed,
           log'[s] = log[s], phase'[s] = phase[s], applied'[s] = applied[s],
           snap'[s] = snap[s], work'[s] = work[s], restarts'[s] = restarts[s]
    PROVE  ServerInv(s)'
<1> USE DEF ServerInv
<1>1. \A n : FirstRecords(n)' = FirstRecords(n) /\ RecordsTo(n)' = RecordsTo(n)
  BY SamePrefixes
<1>2. WithinCommitted(s)'
  BY DEF WithinCommitted
<1>3. LogOpen(s)'
  BY DEF LogOpen
<1>4. AppliedLeavesFrame(s)' /\ SnapshotHasRecords(s)'
  BY DEF AppliedLeavesFrame, SnapshotHasRecords
<1>5. WorkFindsFrame(s)'
  BY DEF WorkFindsFrame
<1>6. LogIsPrefix(s)'
  BY <1>1 DEF LogIsPrefix, Untouched
<1>7. WorkIsPrefix(s)'
  BY <1>1 DEF WorkIsPrefix, Untouched
<1>8. SnapIsPrefix(s)'
  BY <1>1 DEF SnapIsPrefix, Untouched
<1>. QED
  BY <1>2, <1>3, <1>4, <1>5, <1>6, <1>7, <1>8

-----------------------------------------------------------------------------
(* The steps.                                                               *)

\* One more command leaves the records of the earlier ones as they are.
LEMMA CommitInv ==
    ASSUME IInv, NEW len \in PayloadLens, Commit(len)
    PROVE  IInv'
<1> DEFINE N == Len(committed)
<1>1. /\ committed' = Append(committed, len) /\ N < MaxCommands
      /\ UNCHANGED <<log, phase, applied, snap, work, restarts>>
  BY DEF Commit
<1>2. Shape
  BY DEF IInv
<1>3. /\ committed' \in Seq(PayloadLens) /\ Len(committed') = N + 1 /\ N \in Nat
      /\ \A n \in 1 .. N : committed'[n] = committed[n]
  <2>1. committed \in Seq(PayloadLens)
    BY <1>2 DEF Shape
  <2>2. \A n \in 1 .. N : Append(committed, len)[n] = committed[n]
    BY <2>1
  <2>. QED
    BY <1>1, <2>1, <2>2, AppendProperties
<1>4. Shape'
  <2>1. Len(committed') <= MaxCommands
    BY <1>1, <1>3, ClusterAssumption DEF ClusterAssumption
  <2> HIDE DEF N
  <2>. QED
    BY <1>1, <1>2, <1>3, <2>1 DEF Shape
<1> HIDE DEF N
<1>5. \A n \in 0 .. N : FirstRecords(n)' = FirstRecords(n) /\ RecordsTo(n)' = RecordsTo(n)
  <2>1. \A n \in 1 .. N : RecordOf(n)' = RecordOf(n)
    BY <1>3 DEF RecordOf
  <2>2. \A n \in 0 .. N : \A k \in 1 .. n : k \in 1 .. N
    BY <1>3
  <2>. QED
    BY <2>1, <2>2 DEF FirstRecords, RecordsTo
<1>6. ASSUME NEW s \in Servers PROVE ServerInv(s)'
  <2>1. ServerInv(s)
    BY DEF IInv
  <2> USE DEF ServerInv
  <2>2. /\ applied[s] \in 0 .. N /\ snap[s].index \in Nat /\ work[s].index \in Nat
        /\ Len(work[s].recs) \in Nat /\ Len(snap[s].recs) \in Nat
    <3>1. /\ applied[s] \in Nat /\ snap[s] \in SnapshotType /\ work[s] \in WorkType
      BY <1>2 DEF Shape
    <3>2. applied[s] <= N
      BY <2>1 DEF WithinCommitted, N
    <3>. QED
      BY <3>1, <3>2, <1>3, LenProperties DEF SnapshotType, WorkType
  <2>3. WithinCommitted(s)'
    BY <1>1, <1>3, <2>1, <2>2 DEF WithinCommitted, N
  <2>4. LogOpen(s)' /\ AppliedLeavesFrame(s)' /\ WorkFindsFrame(s)' /\ SnapshotHasRecords(s)'
    BY <1>1, <2>1 DEF LogOpen, AppliedLeavesFrame, WorkFindsFrame, SnapshotHasRecords
  <2>5. LogIsPrefix(s)'
    BY <1>1, <1>5, <2>1, <2>2 DEF LogIsPrefix, Untouched
  <2>6. WorkIsPrefix(s)'
    <3>1. Untouched(s) => Len(work[s].recs) \in 0 .. N
      BY <1>3, <2>1, <2>2 DEF WorkIsPrefix
    <3>. QED
      BY <1>1, <1>5, <2>1, <3>1 DEF WorkIsPrefix, Untouched
  <2>7. SnapIsPrefix(s)'
    <3>1. Untouched(s) => Len(snap[s].recs) \in 0 .. N
      BY <1>3, <2>1, <2>2 DEF SnapIsPrefix
    <3>. QED
      BY <1>1, <1>5, <2>1, <3>1 DEF SnapIsPrefix, Untouched
  <2>. QED
    BY <2>3, <2>4, <2>5, <2>6, <2>7
<1>. QED
  BY <1>4, <1>6 DEF IInv

\* Raft applies the next command.
LEMMA ApplyInv ==
    ASSUME IInv, NEW s \in Servers, Apply(s)
    PROVE  IInv'
<1> DEFINE N == applied[s]
           id == N + 1
           l == log[s]
           h == HighestOffset(l)
           len == committed[id]
           m == AppendLocked(l, h, id, len)
<1>1. Shape /\ ServerInv(s)
  BY DEF IInv
<1>2. /\ phase[s] = "up" /\ N < Len(committed)
      /\ log' = [log EXCEPT ![s] = m]
      /\ applied' = [applied EXCEPT ![s] = id]
      /\ UNCHANGED <<committed, phase, snap, work, restarts>>
  BY DEF Apply
<1>3. /\ N \in Nat /\ Len(committed) \in Nat /\ id \in 1 .. Len(committed)
      /\ Len(committed) <= MaxCommands /\ MaxCommands \in Nat
  BY <1>1, <1>2, LenProperties, ClusterAssumption DEF Shape, ClusterAssumption
<1>4. len \in Nat
  <2>1. len \in PayloadLens
    BY <1>1, <1>3, ElementOfSeq DEF Shape
  <2>. QED
    BY <2>1, ClusterAssumption DEF ClusterAssumption
<1>5. SoundLog(l) /\ l.segments # <<>>
  BY <1>1, <1>2 DEF ServerInv, LogOpen
<1>6. /\ SoundLog(m) /\ Len(m.segments) \in Nat \ {0}
      /\ Len(l.segments) <= Len(m.segments)
      /\ HasFrames(m, Len(m.segments))
      /\ \A j \in DOMAIN l.segments : /\ m.segments[j].base = l.segments[j].base
                                      /\ l.segments[j].next <= m.segments[j].next
      /\ \A j \in DOMAIN l.segments : HasFrames(l, j) => HasFrames(m, j)
  <2>1. id \in Nat
    BY <1>3
  <2> HIDE DEF l, id, len
  <2>2. LET q == AppendLocked(l, HighestOffset(l), id, len)
        IN  /\ SoundLog(q)
            /\ Len(q.segments) \in Nat \ {0}
            /\ Len(l.segments) <= Len(q.segments)
            /\ HasFrames(q, Len(q.segments))
            /\ \A j \in DOMAIN l.segments :
                  /\ q.segments[j].base = l.segments[j].base
                  /\ l.segments[j].next <= q.segments[j].next
            /\ \A j \in DOMAIN l.segments : HasFrames(l, j) => HasFrames(q, j)
            /\ Last(Rolled(l, HighestOffset(l)).segments) \in Segment
    BY <1>4, <1>5, <2>1, AppendLockedSound
  <2>. QED
    BY <2>2
<1>7. Untouched(s) => /\ GoodLog(m, RecordsTo(id))
                      /\ Last(m.segments).next = InitialOffset + id
                      /\ Stored(m) = InitialOffset .. InitialOffset + id - 1
  <2> SUFFICES ASSUME Untouched(s)
               PROVE  /\ GoodLog(m, RecordsTo(id))
                      /\ Last(m.segments).next = InitialOffset + id
                      /\ Stored(m) = InitialOffset .. InitialOffset + id - 1
    OBVIOUS
  <2>1. /\ GoodLog(l, RecordsTo(N)) /\ Last(l.segments).next = InitialOffset + N
        /\ Stored(l) = InitialOffset .. InitialOffset + N - 1
    BY <1>1 DEF ServerInv, LogIsPrefix
  <2> DEFINE end == Last(l.segments).next
             r == [offset |-> end, id |-> id, len |-> len]
  <2>2. /\ GoodLog(m, RecordsTo(N) \cup {r})
        /\ Last(m.segments).next = end + 1
        /\ Stored(m) = Stored(l) \cup {end}
    <3>1. id \in Nat
      BY <1>3
    <3> HIDE DEF l, id, len
    <3>2. LET q == AppendLocked(l, h, id, len)
              sg == AppendTarget(l, h)
              e == Last(l.segments).next
          IN  /\ e \in Nat
              /\ sg.next = e /\ ~IndexMaxed(sg)
              /\ GoodLog(q, RecordsTo(N) \cup {[offset |-> e, id |-> id, len |-> len]})
              /\ q.segments # <<>>
              /\ Last(q.segments).next = e + 1
              /\ Stored(q) = Stored(l) \cup {e}
              /\ Ends(q) \subseteq Ends(l) \cup {e + 1}
      BY <1>4, <1>5, <2>1, <3>1, GoodAppendLocked
    <3>. QED
      BY <3>2
  <2>3. InitialOffset \in Nat
    BY ConfigAssumption DEF ConfigAssumption
  <2> HIDE DEF m, l
  <2>4. end + 1 = InitialOffset + id /\ InitialOffset + id - 1 = end
    BY <1>3, <2>1, <2>3
  <2>5. RecordsTo(N) \cup {r} = RecordsTo(id)
    <3>1. r = RecordOf(id)
      BY <2>4 DEF RecordOf
    <3>2. 1 .. id = (1 .. N) \cup {id}
      BY <1>3
    <3> HIDE DEF r, id
    <3>. QED
      BY <3>1, <3>2 DEF RecordsTo
  <2>6. Stored(l) \cup {end} = InitialOffset .. InitialOffset + id - 1
    <3>1. Stored(l) = InitialOffset .. InitialOffset + N - 1 /\ end = InitialOffset + N
      BY <2>1
    <3>2. N \in Nat /\ id = N + 1
      BY <1>3
    <3> HIDE DEF end, id, N
    <3>3. (InitialOffset .. InitialOffset + N - 1) \cup {InitialOffset + N}
              = InitialOffset .. InitialOffset + N
      BY <2>3, <3>2
    <3>4. InitialOffset + N = InitialOffset + id - 1
      BY <2>3, <3>2
    <3>. QED
      BY <3>1, <3>3, <3>4
  <2>. QED
    BY <2>2, <2>4, <2>5, <2>6
<1>8. /\ log'[s] = m /\ applied'[s] = id /\ phase'[s] = "up"
      /\ \A t \in Servers : t # s => log'[t] = log[t] /\ applied'[t] = applied[t]
      /\ DOMAIN log' = Servers
  <2> HIDE DEF m
  <2>. QED
    BY <1>1, <1>2 DEF Shape
<1>9. Shape'
  <2>1. applied' \in [Servers -> Nat]
    BY <1>1, <1>2, <1>3 DEF Shape
  <2>. QED
    BY <1>1, <1>2, <1>8, <2>1 DEF Shape
<1>10. ASSUME NEW t \in Servers, t # s PROVE ServerInv(t)'
  <2>1. ServerInv(t)
    BY DEF IInv
  <2>. QED
    BY <1>2, <1>8, <1>10, <2>1, Elsewhere
<1>11. /\ DOMAIN l.segments = 1 .. Len(l.segments)
       /\ DOMAIN m.segments = 1 .. Len(m.segments)
       /\ Len(l.segments) \in Nat
       /\ \A j \in DOMAIN l.segments : j \in DOMAIN m.segments
       /\ Len(m.segments) \in DOMAIN m.segments
       /\ m.segments # <<>>
  <2> HIDE DEF l, m
  <2>1. l.segments \in Seq(Segment) /\ m.segments \in Seq(Segment)
    BY <1>5, <1>6 DEF SoundLog
  <2>. QED
    BY <1>6, <2>1
<1> HIDE DEF m, id, len
<1>12. ServerInv(s)'
  <2>1. WithinCommitted(s)'
    BY <1>1, <1>2, <1>3, <1>8 DEF ServerInv, WithinCommitted
  <2>2. LogOpen(s)'
    BY <1>6, <1>8, <1>11 DEF LogOpen
  <2>3. AppliedLeavesFrame(s)'
    BY <1>6, <1>8, <1>11 DEF AppliedLeavesFrame
  <2>4. SnapshotHasRecords(s)'
    BY <1>1, <1>2 DEF ServerInv, SnapshotHasRecords
  <2>5. WorkFindsFrame(s)'
    <3>1. WorkFindsFrame(s) /\ work' = work
      BY <1>1, <1>2 DEF ServerInv
    <3>2. \A k \in DOMAIN work[s].todo : work[s].todo[k] \in DOMAIN l.segments
      BY <1>2, <3>1 DEF WorkFindsFrame
    <3>3. \A k \in DOMAIN work[s].todo :
              HasFrames(l, work[s].todo[k]) => HasFrames(m, work[s].todo[k])
      BY <1>6, <3>2
    <3> HIDE DEF l
    <3>. QED
      BY <1>2, <1>8, <1>11, <3>1, <3>2, <3>3 DEF WorkFindsFrame, l
  <2>6. LogIsPrefix(s)'
    <3>1. Untouched(s)' => Untouched(s)
      BY <1>2 DEF Untouched
    <3>2. \A n : RecordsTo(n)' = RecordsTo(n)
      BY <1>2, SamePrefixes
    <3>3. RecordsTo(applied[s])' = RecordsTo(id)
      BY <1>8, <3>2
    <3> HIDE DEF N, h, l
    <3>. QED
      BY <1>7, <1>8, <3>1, <3>3 DEF LogIsPrefix
  <2>7. WorkIsPrefix(s)'
    <3> SUFFICES ASSUME Untouched(s)' PROVE WorkIsPrefix(s)'
      BY DEF WorkIsPrefix
    <3>1. Untouched(s) /\ WorkIsPrefix(s) /\ WorkFindsFrame(s) /\ work' = work
      BY <1>1, <1>2 DEF Untouched, ServerInv
    <3> DEFINE todo == work[s].todo
               recs == work[s].recs
               segs == l.segments
    <3>2. /\ Len(recs) <= N
          /\ recs = FirstRecords(Len(recs))
          /\ \A k \in DOMAIN todo : todo[k] = todo[1] + k - 1
          /\ todo = <<>> => work[s].index <= Len(recs)
          /\ todo # <<>> => /\ InitialOffset + Len(recs) = segs[todo[1]].base
                            /\ InitialOffset + work[s].index <= segs[todo[Len(todo)]].next
      BY <3>1 DEF WorkIsPrefix
    <3>3. /\ Len(recs) \in Nat /\ work[s].index \in Nat /\ InitialOffset \in Nat
          /\ todo # <<>> => 1 \in DOMAIN todo /\ Len(todo) \in DOMAIN todo
      <4>1. work[s].recs \in Seq(Record) /\ work[s].todo \in Seq(Nat) /\ work[s].index \in Nat
        BY <1>1 DEF Shape, WorkType
      <4>. QED
        BY <4>1, LenProperties, ConfigAssumption DEF ConfigAssumption
    <3>4. \A k \in DOMAIN todo : todo[k] \in DOMAIN segs
      BY <1>2, <3>1 DEF WorkFindsFrame
    <3>5. \A j \in DOMAIN segs : segs[j].next \in Nat /\ m.segments[j].next \in Nat
      <4>1. segs \in Seq(Segment) /\ m.segments \in Seq(Segment)
        BY <1>5, <1>6 DEF SoundLog
      <4> HIDE DEF l
      <4>2. \A j \in DOMAIN segs : segs[j] \in Segment /\ m.segments[j] \in Segment
        BY <1>11, <4>1, ElementOfSeq
      <4>. QED
        BY <4>2 DEF Segment
    <3>6. todo # <<>> =>
              /\ InitialOffset + Len(recs) = m.segments[todo[1]].base
              /\ InitialOffset + work[s].index <= m.segments[todo[Len(todo)]].next
      <4> SUFFICES ASSUME todo # <<>>
                   PROVE  /\ InitialOffset + Len(recs) = m.segments[todo[1]].base
                          /\ InitialOffset + work[s].index
                                 <= m.segments[todo[Len(todo)]].next
        OBVIOUS
      <4>1. todo[1] \in DOMAIN segs /\ todo[Len(todo)] \in DOMAIN segs
        BY <3>3, <3>4
      <4> HIDE DEF todo, recs, segs
      <4>2. m.segments[todo[1]].base = segs[todo[1]].base
        BY <1>6, <4>1 DEF segs
      <4>3. segs[todo[Len(todo)]].next <= m.segments[todo[Len(todo)]].next
        BY <1>6, <4>1 DEF segs
      <4>4. segs[todo[Len(todo)]].next \in Nat /\ m.segments[todo[Len(todo)]].next \in Nat
        BY <3>5, <4>1
      <4>5. /\ InitialOffset + Len(recs) = segs[todo[1]].base
            /\ InitialOffset + work[s].index <= segs[todo[Len(todo)]].next
        BY <3>2
      <4>6. InitialOffset \in Nat /\ work[s].index \in Nat
        BY <3>3
      <4>7. ASSUME NEW i \in Nat, NEW o \in Nat, NEW e \in Nat, NEW f \in Nat,
                   o + i <= e, e <= f
            PROVE  o + i <= f
        BY <4>7
      <4>8. InitialOffset + work[s].index <= m.segments[todo[Len(todo)]].next
        BY <4>3, <4>4, <4>5, <4>6, <4>7
      <4>. QED
        BY <4>2, <4>5, <4>8
    <3>7. Len(recs) <= id
      BY <1>3, <3>2, <3>3 DEF id
    <3>8. FirstRecords(Len(recs))' = FirstRecords(Len(recs))
      BY <1>2, SamePrefixes
    <3> HIDE DEF N, l
    <3>. QED
      BY <1>8, <3>1, <3>2, <3>6, <3>7, <3>8 DEF WorkIsPrefix
  <2>8. SnapIsPrefix(s)'
    <3>1. Untouched(s)' => Untouched(s)
      BY <1>2 DEF Untouched
    <3>2. SnapIsPrefix(s) /\ snap' = snap
      BY <1>1, <1>2 DEF ServerInv
    <3>3. FirstRecords(Len(snap[s].recs))' = FirstRecords(Len(snap[s].recs))
      BY <1>2, SamePrefixes
    <3>4. Len(snap[s].recs) \in Nat
      BY <1>1, LenProperties DEF Shape, SnapshotType
    <3>5. Untouched(s) => Len(snap[s].recs) <= id
      BY <1>3, <3>2, <3>4 DEF SnapIsPrefix, id
    <3>. QED
      BY <1>8, <3>1, <3>2, <3>3, <3>5 DEF SnapIsPrefix
  <2>. QED
    BY <2>1, <2>2, <2>3, <2>4, <2>5, <2>6, <2>7, <2>8 DEF ServerInv
<1>13. \A t \in Servers : ServerInv(t)'
  BY <1>10, <1>12
<1>. QED
  BY <1>9, <1>13 DEF IInv

\* Raft asks for a snapshot: every store of the log is still to be read.
LEMMA SnapshotInv ==
    ASSUME IInv, NEW s \in Servers, Snapshot(s)
    PROVE  IInv'
<1> DEFINE N == applied[s]
           segs == log[s].segments
           todo == [i \in DOMAIN segs |-> i]
           w == [index |-> N, recs |-> <<>>, busy |-> TRUE, todo |-> todo]
<1>1. Shape /\ ServerInv(s)
  BY DEF IInv
<1>2. /\ phase[s] = "up" /\ N > snap[s].index
      /\ work' = [work EXCEPT ![s] = w]
      /\ UNCHANGED <<committed, log, phase, applied, snap, restarts>>
  BY DEF Snapshot
<1>3. N \in Nat /\ snap[s].index \in Nat /\ InitialOffset \in Nat
  BY <1>1, ConfigAssumption DEF Shape, SnapshotType, ConfigAssumption
<1>4. SoundLog(log[s]) /\ segs # <<>>
  BY <1>1, <1>2 DEF ServerInv, LogOpen
<1>5. Len(segs) \in Nat \ {0} /\ DOMAIN segs = 1 .. Len(segs)
  <2>1. segs \in Seq(Segment)
    BY <1>4 DEF SoundLog
  <2> HIDE DEF segs
  <2>. QED
    BY <1>4, <2>1
<1>6. /\ todo \in Seq(Nat) /\ Len(todo) = Len(segs) /\ todo # <<>>
      /\ DOMAIN todo = DOMAIN segs /\ \A k \in DOMAIN todo : todo[k] = k
  <2> HIDE DEF segs
  <2>1. todo \in [1 .. Len(segs) -> Nat] /\ \A k \in DOMAIN todo : todo[k] = k
    BY <1>5
  <2> HIDE DEF todo
  <2>. QED
    BY <1>5, <2>1
<1> HIDE DEF todo, segs
<1>7. w \in WorkType
  BY <1>3, <1>6, EmptySeq DEF WorkType
<1>8. /\ w.index = N /\ w.recs = <<>> /\ w.todo = todo /\ w.busy
  OBVIOUS
<1> HIDE DEF w
<1>9. work'[s] = w /\ \A t \in Servers : t # s => work'[t] = work[t]
  BY <1>1, <1>2 DEF Shape
<1>10. Shape'
  <2>1. work' \in [Servers -> WorkType]
    BY <1>1, <1>2, <1>7 DEF Shape
  <2>. QED
    BY <1>1, <1>2, <2>1 DEF Shape
<1>11. ASSUME NEW t \in Servers, t # s PROVE ServerInv(t)'
  <2>1. ServerInv(t)
    BY DEF IInv
  <2>. QED
    BY <1>2, <1>9, <1>11, <2>1, Elsewhere
<1>12. ServerInv(s)'
  <2>1. WithinCommitted(s)'
    BY <1>1, <1>2, <1>8, <1>9 DEF ServerInv, WithinCommitted
  <2>2. LogOpen(s)' /\ AppliedLeavesFrame(s)' /\ SnapshotHasRecords(s)'
    BY <1>1, <1>2 DEF ServerInv, LogOpen, AppliedLeavesFrame, SnapshotHasRecords
  <2>3. WorkFindsFrame(s)'
    <3>1. PICK i \in DOMAIN segs : HasFrames(log[s], i)
      BY <1>1, <1>2, <1>3 DEF ServerInv, AppliedLeavesFrame, segs
    <3>2. i \in DOMAIN todo /\ HasFrames(log[s], todo[i])
      BY <1>6, <3>1
    <3>3. \A k \in DOMAIN todo : todo[k] \in DOMAIN log[s].segments
      BY <1>6 DEF segs
    <3>. QED
      BY <1>2, <1>6, <1>8, <1>9, <3>2, <3>3 DEF WorkFindsFrame
  <2>4. LogIsPrefix(s)' /\ SnapIsPrefix(s)'
    <3>1. \A n : FirstRecords(n)' = FirstRecords(n) /\ RecordsTo(n)' = RecordsTo(n)
      BY <1>2, SamePrefixes
    <3>. QED
      BY <1>1, <1>2, <3>1 DEF ServerInv, LogIsPrefix, SnapIsPrefix, Untouched
  <2>5. WorkIsPrefix(s)'
    <3> SUFFICES ASSUME Untouched(s)' PROVE WorkIsPrefix(s)'
      BY DEF WorkIsPrefix
    <3>1. Untouched(s)
      BY <1>2 DEF Untouched
    <3>2. /\ segs[1].base = InitialOffset /\ segs[Len(segs)].next = InitialOffset + N
      <4>1. /\ GoodLog(log[s], RecordsTo(N)) /\ Last(segs).next = InitialOffset + N
            /\ Stored(log[s]) = InitialOffset .. InitialOffset + N - 1
        BY <1>1, <3>1 DEF ServerInv, LogIsPrefix, segs
      <4>2. LET n == Len(log[s].segments)
                sg == log[s].segments
            IN  /\ n \in Nat \ {0} /\ DOMAIN sg = 1 .. n
                /\ sg[1].base = InitialOffset /\ sg[n].next = InitialOffset + N
                /\ \A i \in 1 .. n : i # n => i + 1 \in 1 .. n /\ sg[i + 1].base = sg[i].next
                /\ \A i \in 1 .. n : /\ sg[i] \in Segment
                                     /\ sg[i].base \in Nat /\ sg[i].next \in Nat
                                     /\ InitialOffset <= sg[i].base
                                     /\ sg[i].base <= sg[i].next
                                     /\ sg[i].next <= InitialOffset + N
        BY <1>3, <1>4, <4>1, Tiled DEF segs
      <4>. QED
        BY <4>2 DEF segs
    <3>3. FirstRecords(0)' = <<>> /\ Len(w.recs) = 0
      BY <1>8 DEF FirstRecords
    <3>4. todo[1] = 1 /\ todo[Len(todo)] = Len(segs)
      BY <1>5, <1>6
    <3>5. \A k \in DOMAIN todo : todo[k] = todo[1] + k - 1
      BY <1>5, <1>6, <3>4
    <3>6. /\ InitialOffset + Len(w.recs) = segs[w.todo[1]].base
          /\ InitialOffset + w.index <= segs[w.todo[Len(w.todo)]].next
      <4>1. InitialOffset + 0 = InitialOffset /\ InitialOffset + N <= InitialOffset + N
        BY <1>3
      <4> HIDE DEF N
      <4>. QED
        BY <1>8, <3>2, <3>3, <3>4, <4>1
    <3>7. 0 <= N
      BY <1>3
    <3>8. log' = log /\ applied' = applied
      BY <1>2
    <3> HIDE DEF N
    <3>. QED
      BY <1>6, <1>8, <1>9, <3>3, <3>5, <3>6, <3>7, <3>8 DEF WorkIsPrefix, segs, N
  <2>. QED
    BY <2>1, <2>2, <2>3, <2>4, <2>5 DEF ServerInv
<1>13. \A t \in Servers : ServerInv(t)'
  BY <1>11, <1>12
<1>. QED
  BY <1>10, <1>13 DEF IInv

\* One store is read to its end, after a flush.
LEMMA PersistStoreInv ==
    ASSUME IInv, NEW s \in Servers, PersistStore(s)
    PROVE  IInv'
<1> DEFINE N == applied[s]
           todo == work[s].todo
           recs == work[s].recs
           rest == Tail(todo)
           i == Head(todo)
           k == log[s]
           l == FlushSegment(k, i)
           f == l.files[l.segments[i].base]
           more == recs \o StoredRecords(f.store)
           w == [[work[s] EXCEPT !.todo = rest] EXCEPT !.recs = more]
<1>1. Shape /\ ServerInv(s)
  BY DEF IInv
<1>2. work[s] \in WorkType /\ todo \in Seq(Nat) /\ recs \in Seq(Record)
  BY <1>1 DEF Shape, WorkType
<1>3. /\ phase[s] = "up" /\ todo # <<>> /\ log' = [log EXCEPT ![s] = l]
      /\ UNCHANGED <<committed, phase, applied, snap, restarts>>
  BY DEF PersistStore
<1>4. work' = [work EXCEPT ![s].todo = Tail(@), ![s].recs = @ \o StoredRecords(f.store)]
  BY DEF PersistStore
<1>5. SoundLog(k) /\ k.segments # <<>>
  BY <1>1, <1>3 DEF ServerInv, LogOpen
<1>6. /\ Len(todo) \in Nat \ {0} /\ DOMAIN todo = 1 .. Len(todo) /\ i = todo[1]
      /\ 1 \in DOMAIN todo /\ Len(todo) \in DOMAIN todo
      /\ rest \in Seq(Nat) /\ Len(rest) = Len(todo) - 1 /\ DOMAIN rest = 1 .. Len(rest)
      /\ \A j \in DOMAIN rest : j + 1 \in DOMAIN todo /\ rest[j] = todo[j + 1]
  <2> HIDE DEF todo
  <2>1. /\ rest \in Seq(Nat) /\ Len(rest) = Len(todo) - 1
        /\ \A j \in 1 .. Len(rest) : rest[j] = todo[j + 1]
    BY <1>2, <1>3, HeadTailProperties
  <2>2. Len(todo) \in Nat \ {0} /\ DOMAIN todo = 1 .. Len(todo) /\ i = todo[1]
    BY <1>2, <1>3
  <2> HIDE DEF rest
  <2>3. DOMAIN rest = 1 .. Len(rest)
    BY <2>1
  <2>. QED
    BY <2>1, <2>2, <2>3
<1>7. WorkFindsFrame(s) /\ \A j \in DOMAIN todo : todo[j] \in DOMAIN k.segments
  BY <1>1, <1>3 DEF ServerInv, WorkFindsFrame
<1>8. i \in DOMAIN k.segments
  BY <1>6, <1>7
<1>9. work[s].busy
  <2>1. todo # NoWork.todo
    BY <1>3 DEF NoWork
  <2>. QED
    BY <1>7, <2>1 DEF WorkFindsFrame
<1> HIDE DEF rest, i, todo, recs, k
<1>10. /\ SoundLog(l) /\ Len(l.segments) = Len(k.segments)
       /\ DOMAIN l.segments = DOMAIN k.segments
       /\ l.segments[i].buf = <<>> /\ f \in File
       /\ HasFrames(k, i) => f.store # <<>>
       /\ \A j \in DOMAIN k.segments : HasFrames(k, j) => HasFrames(l, j)
  <2>1. LET m == FlushSegment(k, i)
            b == k.segments[i].base
        IN  /\ SoundLog(m) /\ m = [files |-> m.files, segments |-> m.segments]
            /\ Len(m.segments) = Len(k.segments)
            /\ DOMAIN m.segments = DOMAIN k.segments
            /\ m.segments[i].base = b /\ m.segments[i].buf = <<>>
            /\ m.files[b] \in File
            /\ HasFrames(k, i) => m.files[b].store # <<>>
            /\ \A j \in DOMAIN k.segments : HasFrames(k, j) => HasFrames(m, j)
    BY <1>5, <1>8, FlushSegmentSound
  <2>. QED
    BY <2>1
<1> HIDE DEF l, f
<1>11. l.segments # <<>>
  <2>1. k.segments \in Seq(Segment) /\ l.segments \in Seq(Segment)
    BY <1>5, <1>10 DEF SoundLog
  <2>. QED
    BY <1>8, <1>10, <2>1
<1>12. /\ StoredRecords(f.store) \in Seq(Record)
       /\ f.store # <<>> => StoredRecords(f.store) # <<>>
  <2>1. f.store \in Seq(Frame)
    BY <1>10 DEF File
  <2>2. \A j \in 1 .. Len(f.store) : f.store[j].rec \in Record
    <3>1. \A j \in 1 .. Len(f.store) : f.store[j] \in Frame
      BY <2>1, ElementOfSeq
    <3>. QED
      BY <3>1 DEF Frame
  <2>3. /\ Len(f.store) \in Nat /\ DOMAIN f.store = 1 .. Len(f.store)
        /\ f.store # <<>> => Len(f.store) # 0
    BY <2>1
  <2>4. StoredRecords(f.store) \in [1 .. Len(f.store) -> Record]
    BY <2>2, <2>3 DEF StoredRecords
  <2>. QED
    BY <2>3, <2>4
<1>13. more \in Seq(Record) /\ (more = <<>> => recs = <<>> /\ f.store = <<>>)
  <2> DEFINE q == StoredRecords(f.store)
  <2> HIDE DEF q
  <2>1. /\ recs \o q \in Seq(Record) /\ Len(recs \o q) = Len(recs) + Len(q)
        /\ Len(recs) \in Nat /\ Len(q) \in Nat
        /\ recs # <<>> => Len(recs) # 0
        /\ q # <<>> => Len(q) # 0
    BY <1>2, <1>12, ConcatProperties DEF recs, q
  <2>2. recs \o q = <<>> => Len(recs) = 0 /\ Len(q) = 0
    BY <2>1
  <2>. QED
    BY <1>12, <2>1, <2>2 DEF q
<1>14. /\ w \in WorkType /\ w.index = work[s].index /\ w.busy
       /\ w.todo = rest /\ w.recs = more
  BY <1>2, <1>6, <1>9, <1>13 DEF WorkType
<1>15. work' = [work EXCEPT ![s] = w]
  <2>1. work \in [Servers -> WorkType]
    BY <1>1 DEF Shape
  <2> HIDE DEF more
  <2> HIDE DEF w
  <2>2. ASSUME NEW t \in Servers, t # s PROVE work'[t] = work[t]
    BY <1>4, <2>1, <2>2
  <2>3. work'[s] = [[work[s] EXCEPT !.todo = Tail(work[s].todo)]
                        EXCEPT !.recs = work[s].recs \o StoredRecords(f.store)]
    BY <1>2, <1>4, <2>1 DEF WorkType
  <2>4. work'[s] = w
    BY <2>3 DEF w, rest, todo, more, recs
  <2>5. work' = [t \in Servers |-> work'[t]]
    BY <1>4, <2>1
  <2>. QED
    BY <2>1, <2>2, <2>4, <2>5
<1> HIDE DEF w, more
<1>16. /\ log'[s] = l /\ work'[s] = w
       /\ \A t \in Servers : t # s => log'[t] = log[t] /\ work'[t] = work[t]
       /\ DOMAIN log' = Servers /\ work' \in [Servers -> WorkType]
  BY <1>1, <1>3, <1>14, <1>15 DEF Shape
<1>17. Shape'
  BY <1>1, <1>3, <1>16 DEF Shape
<1>18. ASSUME NEW t \in Servers, t # s PROVE ServerInv(t)'
  <2>1. ServerInv(t)
    BY DEF IInv
  <2>. QED
    BY <1>3, <1>16, <1>18, <2>1, Elsewhere
<1>19. WorkFindsFrame(s)'
  <2>1. \A j \in DOMAIN rest : rest[j] \in DOMAIN l.segments
    BY <1>6, <1>7, <1>10
  <2>2. ASSUME more = <<>>
        PROVE  rest # <<>> /\ \E j \in DOMAIN rest : HasFrames(l, rest[j])
    <3>1. recs = <<>> /\ ~HasFrames(k, i)
      BY <1>10, <1>13, <2>2
    <3>2. PICK j \in DOMAIN todo : HasFrames(k, todo[j])
      BY <1>3, <1>7, <1>9, <3>1 DEF WorkFindsFrame, k, todo, recs
    <3>3. j # 1 /\ j - 1 \in DOMAIN rest /\ (j - 1) + 1 = j
      BY <1>6, <3>1, <3>2
    <3>4. HasFrames(l, rest[j - 1])
      BY <1>6, <1>7, <1>10, <3>2, <3>3
    <3>. QED
      BY <3>3, <3>4
  <2>. QED
    BY <1>14, <1>16, <2>1, <2>2 DEF WorkFindsFrame
<1>20. ASSUME Untouched(s)
       PROVE  /\ GoodLog(l, RecordsTo(N)) /\ Last(l.segments).next = InitialOffset + N
              /\ Stored(l) = InitialOffset .. InitialOffset + N - 1
              /\ \A j \in DOMAIN k.segments : /\ l.segments[j].base = k.segments[j].base
                                              /\ l.segments[j].next = k.segments[j].next
  <2>1. /\ GoodLog(k, RecordsTo(N)) /\ Last(k.segments).next = InitialOffset + N
        /\ Stored(k) = InitialOffset .. InitialOffset + N - 1
    BY <1>1, <1>20 DEF ServerInv, LogIsPrefix, k
  <2>2. /\ GoodLog(l, RecordsTo(N))
        /\ \A j \in DOMAIN k.segments : /\ l.segments[j].base = k.segments[j].base
                                        /\ l.segments[j].next = k.segments[j].next
        /\ Stored(l) = Stored(k)
    BY <1>8, <2>1, GoodFlush DEF l
  <2>3. Last(l.segments).next = Last(k.segments).next
    <3>1. Len(k.segments) \in DOMAIN k.segments
      BY <1>5, <2>1, GoodShape
    <3>. QED
      BY <1>10, <2>2, <3>1 DEF Last
  <2>. QED
    BY <2>1, <2>2, <2>3
<1>21. WorkIsPrefix(s)'
  <2> SUFFICES ASSUME Untouched(s)' PROVE WorkIsPrefix(s)'
    BY DEF WorkIsPrefix
  <2>1. Untouched(s)
    BY <1>3 DEF Untouched
  <2> DEFINE segs == l.segments
             n == Len(segs)
             b == segs[i].next - InitialOffset
  <2>2. /\ Len(recs) <= N /\ recs = FirstRecords(Len(recs))
        /\ \A j \in DOMAIN todo : todo[j] = todo[1] + j - 1
        /\ InitialOffset + Len(recs) = k.segments[i].base
        /\ InitialOffset + work[s].index <= k.segments[todo[Len(todo)]].next
    BY <1>1, <1>3, <1>6, <2>1 DEF ServerInv, WorkIsPrefix, todo, recs, k
  <2>3. /\ InitialOffset + Len(recs) = segs[i].base
        /\ InitialOffset + work[s].index <= segs[todo[Len(todo)]].next
        /\ todo[Len(todo)] \in DOMAIN segs
    <3>1. todo[Len(todo)] \in DOMAIN k.segments
      BY <1>6, <1>7
    <3>. QED
      BY <1>8, <1>10, <1>20, <2>1, <2>2, <3>1
  <2>4. /\ N \in 0 .. Len(committed) /\ N \in Nat /\ InitialOffset \in Nat
        /\ committed \in Seq(PayloadLens) /\ Len(recs) \in Nat
        /\ work[s].index \in Nat
    <3>1. /\ N \in Nat /\ N <= Len(committed) /\ committed \in Seq(PayloadLens)
      BY <1>1 DEF Shape, ServerInv, WithinCommitted
    <3>. QED
      BY <1>2, <3>1, LenProperties, ConfigAssumption
         DEF ConfigAssumption, recs, WorkType
  <2>5. /\ n \in Nat \ {0} /\ DOMAIN segs = 1 .. n
        /\ \A j \in 1 .. n : j # n => j + 1 \in 1 .. n /\ segs[j + 1].base = segs[j].next
        /\ \A j \in 1 .. n : /\ segs[j] \in Segment
                             /\ segs[j].base \in Nat /\ segs[j].next \in Nat
                             /\ InitialOffset <= segs[j].base
                             /\ segs[j].base <= segs[j].next
                             /\ segs[j].next <= InitialOffset + N
    <3>1. LET c == Len(l.segments)
              sg == l.segments
          IN  /\ c \in Nat \ {0} /\ DOMAIN sg = 1 .. c
              /\ sg[1].base = InitialOffset /\ sg[c].next = InitialOffset + N
              /\ \A j \in 1 .. c : j # c => j + 1 \in 1 .. c /\ sg[j + 1].base = sg[j].next
              /\ \A j \in 1 .. c : /\ sg[j] \in Segment
                                   /\ sg[j].base \in Nat /\ sg[j].next \in Nat
                                   /\ InitialOffset <= sg[j].base
                                   /\ sg[j].base <= sg[j].next
                                   /\ sg[j].next <= InitialOffset + N
      BY <1>11, <1>20, <2>1, <2>4, Tiled
    <3>. QED
      BY <3>1
  <2>6. i \in 1 .. n
    BY <1>8, <1>10, <2>5
  <2>7. /\ b \in 0 .. N /\ Len(recs) \in 0 .. b /\ InitialOffset + b = segs[i].next
        /\ segs[i].base - InitialOffset = Len(recs)
    <3> DEFINE lo == segs[i].base
               hi == segs[i].next
               r == Len(recs)
    <3>1. /\ lo \in Nat /\ hi \in Nat /\ lo <= hi /\ hi <= InitialOffset + N
          /\ InitialOffset + r = lo /\ r \in Nat /\ N \in Nat /\ InitialOffset \in Nat
      BY <2>3, <2>4, <2>5, <2>6
    <3> HIDE DEF N, lo, hi, r
    <3>2. /\ hi - InitialOffset \in 0 .. N /\ r \in 0 .. (hi - InitialOffset)
          /\ InitialOffset + (hi - InitialOffset) = hi /\ lo - InitialOffset = r
      BY <3>1
    <3>. QED
      BY <3>2 DEF lo, hi, r
  <2>8. StoredRecords(f.store) = Piece(Len(recs), b)
    <3>1. Consistent(segs[i], f, RecordsTo(N))
      BY <1>10, <1>8, <1>20, <2>1 DEF GoodLog, f
    <3>2. StoredRecords(f.store \o segs[i].buf)
              = Piece(segs[i].base - InitialOffset, segs[i].next - InitialOffset)
      BY <1>10, <2>4, <2>5, <2>6, <3>1, SegmentRecords
    <3>3. f.store \o segs[i].buf = f.store
      <4>1. f.store \in Seq(Frame)
        BY <1>10 DEF File
      <4>. QED
        BY <1>10, <4>1, ConcatEmptySeq
    <3>. QED
      BY <2>7, <3>2, <3>3
  <2> HIDE DEF b, segs, n
  <2>9. more = FirstRecords(b) /\ Len(more) = b
    <3>1. b \in 0 .. Len(committed)
      BY <2>4, <2>7
    <3>2. FirstRecords(Len(recs)) \o Piece(Len(recs), b) = FirstRecords(b)
      BY <2>4, <2>7, <3>1, Joined
    <3>3. Len(FirstRecords(b)) = b
      BY <2>4, <3>1, FirstRecordsType
    <3>. QED
      BY <2>2, <2>8, <3>2, <3>3 DEF more
  <2>10. \A j \in DOMAIN rest : rest[j] = rest[1] + j - 1
    <3>1. ASSUME NEW j \in DOMAIN rest PROVE rest[j] = rest[1] + j - 1
      <4>1. 1 \in DOMAIN rest /\ j \in Nat
        BY <1>6
      <4>2. rest[1] = todo[1] + (1 + 1) - 1 /\ rest[j] = todo[1] + (j + 1) - 1
        BY <1>6, <2>2, <4>1
      <4>3. todo[1] \in Nat
        BY <1>2, <1>6, ElementOfSeq
      <4>. QED
        BY <4>1, <4>2, <4>3
    <3>. QED
      BY <3>1
  <2>11. rest = <<>> => work[s].index <= b
    <3>1. rest = <<>> => todo[Len(todo)] = i
      BY <1>6
    <3>2. segs[i].next \in Nat
      BY <2>5, <2>6
    <3>. QED
      BY <2>3, <2>4, <2>7, <3>1, <3>2
  <2>12. rest # <<>> => /\ InitialOffset + b = segs[rest[1]].base
                        /\ InitialOffset + work[s].index <= segs[rest[Len(rest)]].next
    <3> SUFFICES ASSUME rest # <<>>
                 PROVE  /\ InitialOffset + b = segs[rest[1]].base
                        /\ InitialOffset + work[s].index <= segs[rest[Len(rest)]].next
      OBVIOUS
    <3>1. Len(rest) \in Nat \ {0} /\ 1 \in DOMAIN rest /\ Len(rest) \in DOMAIN rest
      BY <1>6
    <3>2. rest[1] = i + 1 /\ rest[1] \in 1 .. n
      <4>1. rest[1] = todo[1 + 1] /\ 1 + 1 \in DOMAIN todo
        BY <1>6, <3>1
      <4>2. todo[1 + 1] = todo[1] + (1 + 1) - 1
        BY <2>2, <4>1
      <4>3. todo[1 + 1] \in DOMAIN k.segments
        BY <1>7, <4>1
      <4>. QED
        BY <1>6, <1>10, <2>5, <2>6, <4>1, <4>2, <4>3 DEF segs
    <3>3. segs[i + 1].base = segs[i].next
      BY <2>5, <2>6, <3>2
    <3>4. rest[Len(rest)] = todo[Len(todo)]
      <4>1. Len(rest) + 1 = Len(todo)
        BY <1>6
      <4>. QED
        BY <1>6, <3>1, <4>1
    <3>. QED
      BY <2>3, <2>7, <3>2, <3>3, <3>4
  <2>13. \A j : FirstRecords(j)' = FirstRecords(j)
    BY <1>3, SamePrefixes
  <2>14. b <= N /\ applied' = applied
    BY <1>3, <2>4, <2>7
  <2> HIDE DEF N
  <2>. QED
    BY <1>14, <1>16, <2>9, <2>10, <2>11, <2>12, <2>13, <2>14 DEF WorkIsPrefix, segs, N
<1>22. ServerInv(s)'
  <2>1. WithinCommitted(s)'
    BY <1>1, <1>3, <1>14, <1>16 DEF ServerInv, WithinCommitted
  <2>2. LogOpen(s)'
    BY <1>3, <1>10, <1>11, <1>16 DEF LogOpen
  <2>3. AppliedLeavesFrame(s)'
    BY <1>1, <1>3, <1>10, <1>16 DEF ServerInv, AppliedLeavesFrame, k
  <2>4. SnapshotHasRecords(s)'
    BY <1>1, <1>3 DEF ServerInv, SnapshotHasRecords
  <2>5. \A n : FirstRecords(n)' = FirstRecords(n) /\ RecordsTo(n)' = RecordsTo(n)
    BY <1>3, SamePrefixes
  <2>6. LogIsPrefix(s)'
    <3>1. RecordsTo(applied[s])' = RecordsTo(N)
      BY <1>3, <2>5
    <3>2. Untouched(s)' => Untouched(s)
      BY <1>3 DEF Untouched
    <3>. QED
      BY <1>3, <1>16, <1>20, <3>1, <3>2 DEF LogIsPrefix
  <2>7. SnapIsPrefix(s)'
    BY <1>1, <1>3, <2>5 DEF ServerInv, SnapIsPrefix, Untouched
  <2>. QED
    BY <1>19, <1>21, <2>1, <2>2, <2>3, <2>4, <2>6, <2>7 DEF ServerInv
<1>23. \A t \in Servers : ServerInv(t)'
  BY <1>18, <1>22
<1>. QED
  BY <1>17, <1>23 DEF IInv

\* No snapshot is under way.
LEMMA NoWorkIs ==
    /\ NoWork \in WorkType /\ ~NoWork.busy /\ NoWork.index = 0
    /\ NoWork.todo = <<>> /\ NoWork.recs = <<>>
    /\ DOMAIN <<>> = {} /\ Len(<<>>) = 0
BY EmptySeq DEF NoWork, WorkType

\* What was read becomes the snapshot.
LEMMA PersistDoneInv ==
    ASSUME IInv, NEW s \in Servers, PersistDone(s)
    PROVE  IInv'
<1> DEFINE sn == [index |-> work[s].index, recs |-> work[s].recs]
<1>1. Shape /\ ServerInv(s)
  BY DEF IInv
<1>2. /\ work[s].busy /\ work[s].todo = <<>>
      /\ snap' = [snap EXCEPT ![s] = sn] /\ work' = [work EXCEPT ![s] = NoWork]
      /\ UNCHANGED <<committed, log, phase, applied, restarts>>
  BY DEF PersistDone
<1>3. sn \in SnapshotType /\ sn.index = work[s].index /\ sn.recs = work[s].recs
  BY <1>1 DEF Shape, WorkType, SnapshotType
<1> HIDE DEF sn
<1>4. /\ snap'[s] = sn /\ work'[s] = NoWork
      /\ \A t \in Servers : t # s => snap'[t] = snap[t] /\ work'[t] = work[t]
      /\ snap' \in [Servers -> SnapshotType] /\ work' \in [Servers -> WorkType]
  BY <1>1, <1>2, <1>3, NoWorkIs DEF Shape
<1>5. Shape'
  BY <1>1, <1>2, <1>4 DEF Shape
<1>6. ASSUME NEW t \in Servers, t # s PROVE ServerInv(t)'
  <2>1. ServerInv(t)
    BY DEF IInv
  <2>. QED
    BY <1>2, <1>4, <1>6, <2>1, Elsewhere
<1>7. \A n : FirstRecords(n)' = FirstRecords(n) /\ RecordsTo(n)' = RecordsTo(n)
  BY <1>2, SamePrefixes
<1>8. ServerInv(s)'
  <2>1. WithinCommitted(s)'
    <3>1. Len(committed) \in Nat
      BY <1>1, LenProperties DEF Shape
    <3>. QED
      BY <1>1, <1>2, <1>3, <1>4, <3>1, NoWorkIs DEF ServerInv, WithinCommitted
  <2>2. LogOpen(s)' /\ AppliedLeavesFrame(s)'
    BY <1>1, <1>2 DEF ServerInv, LogOpen, AppliedLeavesFrame
  <2>3. WorkFindsFrame(s)'
    BY <1>4, NoWorkIs DEF WorkFindsFrame
  <2>4. SnapshotHasRecords(s)'
    <3>1. work[s].recs # <<>>
      BY <1>1, <1>2 DEF ServerInv, WorkFindsFrame
    <3>. QED
      BY <1>3, <1>4, <3>1 DEF SnapshotHasRecords
  <2>5. LogIsPrefix(s)'
    BY <1>1, <1>2, <1>7 DEF ServerInv, LogIsPrefix, Untouched
  <2>6. WorkIsPrefix(s)'
    <3>1. FirstRecords(0)' = <<>> /\ 0 <= applied[s]
      BY <1>1 DEF FirstRecords, Shape
    <3>. QED
      BY <1>2, <1>4, <3>1, NoWorkIs DEF WorkIsPrefix
  <2>7. SnapIsPrefix(s)'
    <3>1. Untouched(s)' => Untouched(s)
      BY <1>2 DEF Untouched
    <3>2. Untouched(s) => /\ Len(sn.recs) <= applied[s]
                          /\ sn.recs = FirstRecords(Len(sn.recs))
                          /\ sn.index <= Len(sn.recs)
      BY <1>1, <1>2, <1>3 DEF ServerInv, WorkIsPrefix
    <3>. QED
      BY <1>2, <1>4, <1>7, <3>1, <3>2 DEF SnapIsPrefix
  <2>. QED
    BY <2>1, <2>2, <2>3, <2>4, <2>5, <2>6, <2>7 DEF ServerInv
<1>9. \A t \in Servers : ServerInv(t)'
  BY <1>6, <1>8
<1>. QED
  BY <1>5, <1>9 DEF IInv

\* A server that failed, or that is in a later life, promises less.
LEMMA LaterLife ==
    ASSUME NEW s \in Servers, ~Untouched(s)', WithinCommitted(s)', LogOpen(s)',
           AppliedLeavesFrame(s)', WorkFindsFrame(s)', SnapshotHasRecords(s)'
    PROVE  ServerInv(s)'
BY DEF ServerInv, LogIsPrefix, WorkIsPrefix, SnapIsPrefix

\* A snapshot that cannot be read any more is given up.
LEMMA PersistCancelInv ==
    ASSUME IInv, NEW s \in Servers, PersistCancel(s)
    PROVE  IInv'
<1>1. Shape /\ ServerInv(s)
  BY DEF IInv
<1>2. /\ phase[s] = "failed" /\ work' = [work EXCEPT ![s] = NoWork]
      /\ UNCHANGED <<committed, log, phase, applied, snap, restarts>>
  BY DEF PersistCancel
<1>3. /\ work'[s] = NoWork /\ \A t \in Servers : t # s => work'[t] = work[t]
      /\ work' \in [Servers -> WorkType]
  BY <1>1, <1>2, NoWorkIs DEF Shape
<1>4. Shape'
  BY <1>1, <1>2, <1>3 DEF Shape
<1>5. ASSUME NEW t \in Servers, t # s PROVE ServerInv(t)'
  <2>1. ServerInv(t)
    BY DEF IInv
  <2>. QED
    BY <1>2, <1>3, <1>5, <2>1, Elsewhere
<1>6. ServerInv(s)'
  <2>1. WithinCommitted(s)'
    <3>1. Len(committed) \in Nat
      BY <1>1, LenProperties DEF Shape
    <3>. QED
      BY <1>1, <1>2, <1>3, <3>1, NoWorkIs DEF ServerInv, WithinCommitted
  <2>2. LogOpen(s)' /\ AppliedLeavesFrame(s)' /\ SnapshotHasRecords(s)'
    BY <1>1, <1>2 DEF ServerInv, LogOpen, AppliedLeavesFrame, SnapshotHasRecords
  <2>3. WorkFindsFrame(s)'
    BY <1>3, NoWorkIs DEF WorkFindsFrame
  <2>4. ~Untouched(s)'
    BY <1>2 DEF Untouched
  <2>. QED
    BY <2>1, <2>2, <2>3, <2>4, LaterLife
<1>7. \A t \in Servers : ServerInv(t)'
  BY <1>5, <1>6
<1>. QED
  BY <1>4, <1>7 DEF IInv

Gone == [files |-> [b \in {} |-> NoFile], segments |-> <<>>]

\* Restore resets the log at the first record, and Reset always fails.
LEMMA RestoreFails ==
    ASSUME NEW l, NEW recs, recs # <<>>
    PROVE  Restore(l, recs) = [err |-> "NotExist", log |-> Gone]
BY DEF Restore, Reset, Setup, Gone

\* The snapshot of another server ends the log of this one.
LEMMA InstallSnapshotInv ==
    ASSUME IInv, NEW s \in Servers, NEW t \in Servers, InstallSnapshot(s, t)
    PROVE  IInv'
<1>1. Shape /\ ServerInv(s) /\ ServerInv(t)
  BY DEF IInv
<1>2. /\ applied[s] < snap[t].index
      /\ Restored(s, log[s], snap[t])
      /\ snap' = [snap EXCEPT ![s] = snap[t]]
      /\ UNCHANGED <<committed, work, restarts>>
  BY DEF InstallSnapshot
<1>3. snap[t] \in SnapshotType /\ applied[s] \in Nat /\ snap[t].index \in Nat
  BY <1>1 DEF Shape, SnapshotType
<1>4. snap[t].recs # <<>>
  BY <1>1, <1>2, <1>3 DEF ServerInv, SnapshotHasRecords
<1>5. /\ log' = [log EXCEPT ![s] = Gone]
      /\ phase' = [phase EXCEPT ![s] = "failed"]
      /\ applied' = [applied EXCEPT ![s] = snap[t].index]
  <2>1. Restore(log[s], snap[t].recs) = [err |-> "NotExist", log |-> Gone]
    BY <1>4, RestoreFails
  <2>. QED
    BY <1>2, <2>1 DEF Restored
<1>6. /\ log'[s] = Gone /\ phase'[s] = "failed" /\ applied'[s] = snap[t].index
      /\ snap'[s] = snap[t]
      /\ \A u \in Servers : u # s => /\ log'[u] = log[u] /\ phase'[u] = phase[u]
                                     /\ applied'[u] = applied[u] /\ snap'[u] = snap[u]
      /\ DOMAIN log' = Servers
  BY <1>1, <1>2, <1>5 DEF Shape
<1>7. Shape'
  <2>1. /\ phase' \in [Servers -> {"up", "failed"}] /\ applied' \in [Servers -> Nat]
        /\ snap' \in [Servers -> SnapshotType]
    BY <1>1, <1>2, <1>3, <1>5 DEF Shape
  <2>. QED
    BY <1>1, <1>2, <1>6, <2>1 DEF Shape
<1>8. ASSUME NEW u \in Servers, u # s PROVE ServerInv(u)'
  <2>1. ServerInv(u)
    BY DEF IInv
  <2>2. work'[u] = work[u] /\ restarts'[u] = restarts[u] /\ committed' = committed
    BY <1>2
  <2>. QED
    BY <1>6, <1>8, <2>1, <2>2, Elsewhere
<1>9. ServerInv(s)'
  <2>1. WithinCommitted(s)'
    BY <1>1, <1>2, <1>6 DEF ServerInv, WithinCommitted
  <2>2. LogOpen(s)' /\ AppliedLeavesFrame(s)'
    BY <1>6 DEF LogOpen, AppliedLeavesFrame, Gone
  <2>3. SnapshotHasRecords(s)'
    BY <1>4, <1>6 DEF SnapshotHasRecords
  <2>4. WorkFindsFrame(s)'
    BY <1>1, <1>2, <1>6 DEF ServerInv, WorkFindsFrame
  <2>5. ~Untouched(s)'
    BY <1>6 DEF Untouched
  <2>. QED
    BY <2>1, <2>2, <2>3, <2>4, <2>5, LaterLife
<1>10. \A u \in Servers : ServerInv(u)'
  BY <1>8, <1>9
<1>. QED
  BY <1>7, <1>10 DEF IInv

\* A server comes up again: with the directory it left and nothing applied, or,
\* where there is a snapshot, not at all.
LEMMA RestartInv ==
    ASSUME IInv, NEW s \in Servers, NEW clean \in BOOLEAN, Restart(s, clean)
    PROVE  IInv'
<1>1. Shape /\ ServerInv(s)
  BY DEF IInv
<1>. PICK files \in Left(s, clean) : Restored(s, Setup(files, TRUE).log, snap[s])
  BY DEF Restart
<1> DEFINE reopened == Setup(files, TRUE).log
           res == Restore(reopened, snap[s].recs)
<1>2. /\ phase[s] = "up" /\ restarts[s] < MaxRestarts
      /\ restarts' = [restarts EXCEPT ![s] = @ + 1]
      /\ log' = [log EXCEPT ![s] = res.log]
      /\ phase' = [phase EXCEPT ![s] = IF res.err = "" THEN "up" ELSE "failed"]
      /\ applied' = [applied EXCEPT ![s] = snap[s].index]
      /\ work' = [work EXCEPT ![s] = NoWork]
      /\ UNCHANGED <<committed, snap>>
  BY DEF Restart, Restored
<1>3. Directory(files)
  <2>1. SoundLog(log[s])
    BY <1>1, <1>2 DEF ServerInv, LogOpen
  <2>2. Directory(ClosedFiles(log[s])) /\ Directory(log[s].files)
    BY <2>1, ClosedDirectory DEF SoundLog
  <2>3. log[s].segments # <<>>
    BY <1>1, <1>2 DEF ServerInv, LogOpen
  <2>4. \A g \in CutAppends(log[s]) : Directory(g)
    BY <2>1, <2>3, CutDirectory
  <2>. QED
    BY <2>2, <2>4 DEF Left
<1>4. SoundLog(reopened) /\ reopened.segments # <<>>
  <2>1. reopened = Reopened(files)
    BY DEF Setup
  <2>. QED
    BY <1>3, <2>1, ReopenedSound
<1> HIDE DEF reopened
<1>5. \/ snap[s].recs # <<>> /\ res.err # "" /\ res.log = Gone
      \/ snap[s].recs = <<>> /\ res.err = "" /\ res.log = reopened
  <2>1. CASE snap[s].recs # <<>>
    <3>1. res = [err |-> "NotExist", log |-> Gone]
      BY <2>1, RestoreFails
    <3>. QED
      BY <2>1, <3>1
  <2>2. CASE snap[s].recs = <<>>
    <3>1. res = [err |-> "", log |-> reopened]
      BY <2>2 DEF Restore
    <3> HIDE DEF res
    <3>2. res.err = "" /\ res.log = reopened
      BY <3>1
    <3>. QED
      BY <2>2, <3>2
  <2>. QED
    BY <2>1, <2>2
<1> HIDE DEF res
<1>6. /\ log'[s] = res.log /\ applied'[s] = snap[s].index /\ work'[s] = NoWork
      /\ phase'[s] = (IF res.err = "" THEN "up" ELSE "failed")
      /\ restarts'[s] = restarts[s] + 1
      /\ DOMAIN log' = Servers
  BY <1>1, <1>2 DEF Shape
<1>7. ASSUME NEW u \in Servers, u # s
      PROVE  /\ log'[u] = log[u] /\ applied'[u] = applied[u] /\ work'[u] = work[u]
             /\ phase'[u] = phase[u] /\ restarts'[u] = restarts[u]
  BY <1>1, <1>2, <1>7 DEF Shape
<1>8. restarts[s] \in Nat /\ restarts[s] + 1 \in 0 .. MaxRestarts /\ snap[s].index \in Nat
  <2>1. restarts[s] \in 0 .. MaxRestarts /\ MaxRestarts \in Nat /\ snap[s] \in SnapshotType
    BY <1>1, ClusterAssumption DEF Shape, ClusterAssumption
  <2>2. snap[s].index \in Nat
    BY <2>1 DEF SnapshotType
  <2>3. restarts[s] < MaxRestarts
    BY DEF Restart
  <2>. QED
    BY <2>1, <2>2, <2>3
<1>9. Shape'
  <2>1. phase' \in [Servers -> {"up", "failed"}]
    BY <1>1, <1>2 DEF Shape
  <2>2. applied' \in [Servers -> Nat] /\ restarts' \in [Servers -> 0 .. MaxRestarts]
    BY <1>1, <1>2, <1>8 DEF Shape
  <2>3. work' \in [Servers -> WorkType]
    BY <1>1, <1>2, NoWorkIs DEF Shape
  <2>. QED
    BY <1>1, <1>2, <1>6, <2>1, <2>2, <2>3 DEF Shape
<1>10. ASSUME NEW u \in Servers, u # s PROVE ServerInv(u)'
  <2>1. ServerInv(u)
    BY DEF IInv
  <2>2. snap'[u] = snap[u] /\ committed' = committed
    BY <1>2
  <2>. QED
    BY <1>7, <1>10, <2>1, <2>2, Elsewhere
<1>11. ServerInv(s)'
  <2>1. WithinCommitted(s)'
    <3>1. Len(committed) \in Nat
      BY <1>1, LenProperties DEF Shape
    <3>2. snap[s].index <= Len(committed) /\ snap' = snap /\ committed' = committed
      BY <1>1, <1>2 DEF ServerInv, WithinCommitted
    <3>3. applied'[s] = snap[s].index /\ work'[s].index = 0
      BY <1>6, NoWorkIs
    <3>. QED
      BY <3>1, <3>2, <3>3 DEF WithinCommitted
  <2>2. LogOpen(s)'
    BY <1>4, <1>5, <1>6 DEF LogOpen, Gone
  <2>3. AppliedLeavesFrame(s)'
    <3>1. snap[s].recs = <<>> => snap[s].index = 0
      BY <1>1, <1>8 DEF ServerInv, SnapshotHasRecords
    <3>2. phase'[s] = "up" => applied'[s] = 0
      BY <1>5, <1>6, <3>1
    <3>. QED
      BY <3>2 DEF AppliedLeavesFrame
  <2>4. WorkFindsFrame(s)'
    BY <1>6, NoWorkIs DEF WorkFindsFrame
  <2>5. SnapshotHasRecords(s)'
    BY <1>1, <1>2 DEF ServerInv, SnapshotHasRecords
  <2>6. ~Untouched(s)'
    <3>1. restarts'[s] = restarts[s] + 1
      BY <1>6
    <3>2. restarts'[s] # 0
      BY <1>8, <3>1
    <3>. QED
      BY <3>2 DEF Untouched
  <2>. QED
    BY <2>1, <2>2, <2>3, <2>4, <2>5, <2>6, LaterLife
<1>12. \A u \in Servers : ServerInv(u)'
  BY <1>10, <1>11
<1>. QED
  BY <1>9, <1>12 DEF IInv

-----------------------------------------------------------------------------
(* The theorems.                                                            *)

\* One lemma per action; a step that changes nothing changes no server.
LEMMA StepInv ==
    ASSUME IInv, [Next]_vars
    PROVE  IInv'
<1>1. CASE UNCHANGED vars
  <2>1. Shape'
    BY <1>1 DEF vars, IInv, Shape
  <2>2. ASSUME NEW s \in Servers PROVE ServerInv(s)'
    <3>1. ServerInv(s)
      BY DEF IInv
    <3>. QED
      BY <1>1, <3>1, Elsewhere DEF vars
  <2>. QED
    BY <2>1, <2>2 DEF IInv
<1>2. CASE \E len \in PayloadLens : Commit(len)
  BY <1>2, CommitInv
<1>3. CASE \E s \in Servers : \/ Apply(s)
                              \/ Snapshot(s) \/ PersistStore(s)
                              \/ PersistDone(s) \/ PersistCancel(s)
  BY <1>3, ApplyInv, SnapshotInv, PersistStoreInv, PersistDoneInv, PersistCancelInv
<1>4. CASE \E s, t \in Servers : InstallSnapshot(s, t)
  BY <1>4, InstallSnapshotInv
<1>5. CASE \E s \in Servers, clean \in BOOLEAN : Restart(s, clean)
  BY <1>5, RestartInv
<1>. QED
  BY <1>1, <1>2, <1>3, <1>4, <1>5 DEF Next

\* The invariant holds in every state: fsm.Apply, Snapshot, Persist and Restore of
\* all servers, in any order, with crashes and restarts between any two steps.
THEOREM Invariance == Spec => []IInv
<1>1. Init => IInv
  BY InitInv
<1>2. IInv /\ [Next]_vars => IInv'
  BY StepInv
<1>. QED
  BY <1>1, <1>2, PTL DEF Spec

\* Every server is in one of its two phases and has applied a prefix of the
\* committed commands; its segments and files are ones that Log can have, also
\* after setup opened what a crash left (Log.setup, fsm.Apply, fsm.Restore).
THEOREM TypeCorrect == Spec => []TypeOK
BY Invariance, InvIsTypeOK, PTL

\* Servers that were never restarted hold the same records at the same offsets,
\* as far as they have applied: their segments lie end to end from InitialOffset
\* on and hold the records of the commands in order (fsm.Apply, Log.Append,
\* Log.Reader).
THEOREM ReplicasStayEqual == Spec => []ReplicasAgree
BY Invariance, InvIsReplicasAgree, PTL

\* A snapshot of such a server is a prefix of the commands that reaches at least
\* to its index, though commands are applied, stores flushed and segments rolled
\* over while it is persisted (snapshot.Persist, originReader.Read).
THEOREM SnapshotsArePrefixes == Spec => []SnapshotIsPrefix
BY Invariance, InvIsSnapshotIsPrefix, PTL
=============================================================================
