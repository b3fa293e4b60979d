------------------------- MODULE SegmentedLogProofs -------------------------
(***************************************************************************)
(* Lemmas about the operators of SegmentedLog, for all sizes and initial   *)
(* offsets: what keeps a log good, and what a read of a good log returns.  *)
(***************************************************************************)
EXTENDS SegmentedLog, SequenceTheorems, FiniteSetTheorems, TLAPS

-----------------------------------------------------------------------------
(* Numbers.                                                                 *)

\* Every non-empty set of naturals has a least element, which Min returns.  The
\* intervals up to its elements are finite sets, and the smallest of those is
\* the one up to the least element.
LEMMA MinIsLeast ==
    ASSUME NEW T \in SUBSET Nat, T # {}
    PROVE  /\ Min(T) \in T
           /\ \A n \in T : Min(T) <= n
<1> DEFINE U == {1 .. n : n \in T}
<1>1. U \subseteq FiniteSubsetsOf(Nat) /\ U # {}
  <2>1. \A n \in T : 1 .. n \in SUBSET Nat /\ IsFiniteSet(1 .. n)
    BY FS_Interval
  <2>. QED
    BY <2>1 DEF FiniteSubsetsOf
<1>2. PICK X \in U : \A Y \in U : <<Y, X>> \notin StrictSubsetOrdering(Nat)
  <2>1. IsWellFoundedOn(StrictSubsetOrdering(Nat), FiniteSubsetsOf(Nat))
    BY FS_StrictSubsetOrderingWellFounded
  <2> HIDE DEF U
  <2>. QED
    BY <1>1, <2>1, WFMin
<1>3. PICK m \in T : X = 1 .. m
  OBVIOUS
<1>4. ASSUME NEW n \in T PROVE m <= n
  <2>1. SUFFICES ASSUME n < m PROVE FALSE
    OBVIOUS
  <2>2. (1 .. n) \subseteq Nat /\ (1 .. m) \subseteq Nat
    OBVIOUS
  <2>3. (1 .. n) \subseteq (1 .. m)
    BY <2>1
  <2>4. m \in 1 .. m /\ m \notin 1 .. n
    BY <2>1
  <2>5. <<1 .. n, 1 .. m>> \in StrictSubsetOrdering(Nat)
    BY <2>2, <2>3, <2>4 DEF StrictSubsetOrdering
  <2>. QED
    BY <1>2, <1>3, <2>5
<1>. QED
  BY <1>4 DEF Min

\* The entry that index.Write adds to n entries goes to slot n.
LEMMA SlotOfEntry ==
    ASSUME NEW n \in Nat, entryWidth * n + entryWidth <= MaxIndexBytes
    PROVE  /\ (entryWidth * n) \div entryWidth = n
           /\ n \in Slots
BY ConfigAssumption DEF Slots, entryWidth, ConfigAssumption

\* Appending to the second of two sequences is appending to their concatenation.
LEMMA AppendToConcat ==
    ASSUME NEW S, NEW a \in Seq(S), NEW b \in Seq(S), NEW e \in S
    PROVE  a \o Append(b, e) = Append(a \o b, e)
<1>1. <<e>> \in Seq(S)
  OBVIOUS
<1>2. Append(b, e) = b \o <<e>>
  BY AppendIsConcat
<1>3. a \o b \in Seq(S)
  BY ConcatProperties
<1>4. Append(a \o b, e) = (a \o b) \o <<e>>
  BY <1>3, AppendIsConcat
<1>5. a \o (b \o <<e>>) = (a \o b) \o <<e>>
  BY <1>1, ConcatAssociative
<1>. QED
  BY <1>2, <1>4, <1>5

-----------------------------------------------------------------------------
(* Frames.                                                                  *)

\* Frames end at naturals.
LEMMA FrameEndType ==
    ASSUME NEW fr \in Frame
    PROVE  FrameEnd(fr) \in Nat /\ FrameEnd(fr) >= fr.pos + lenWidth
BY DEF Frame, Record, FrameEnd, MarshalLen, lenWidth

\* The size of a store file is a natural.
LEMMA StoreBytesType ==
    ASSUME NEW frames \in Seq(Frame)
    PROVE  StoreBytes(frames) \in Nat
BY FrameEndType DEF StoreBytes, Last

\* Flushing moves the buffered frames behind the written ones as they are: the
\* sizes counted at the appends are their true positions.
LEMMA FlushedFrames ==
    ASSUME NEW recs, NEW s \in Segment, NEW f \in File, Consistent(s, f, recs)
    PROVE  Flushed(f, s.buf) = [f EXCEPT !.store = f.store \o s.buf]
<1> DEFINE frames == f.store \o s.buf
<1>1. f.store \in Seq(Frame) /\ s.buf \in Seq(Frame)
  BY DEF File, Segment
<1>2. CASE s.buf = <<>>
  <2>1. Flushed(f, s.buf) = f
    BY <1>2 DEF Flushed
  <2>2. f.store \o s.buf = f.store
    BY <1>1, <1>2, ConcatEmptySeq
  <2>. QED
    BY <2>1, <2>2 DEF File
<1>3. CASE s.buf # <<>>
  <2> DEFINE n == Len(f.store)
             shift == StoreBytes(f.store) - s.buf[1].pos
  <2>1. /\ n \in Nat /\ Len(s.buf) \in Nat \ {0}
        /\ DOMAIN frames = 1 .. n + Len(s.buf)
        /\ frames[n + 1] = s.buf[1]
        /\ n # 0 => frames[n] = f.store[n]
    <3>1. n \in Nat /\ Len(s.buf) \in Nat \ {0}
      BY <1>1, <1>3, EmptySeq, LenProperties
    <3>2. frames \in Seq(Frame) /\ Len(frames) = n + Len(s.buf)
      BY <1>1, ConcatProperties
    <3>3. DOMAIN frames = 1 .. n + Len(s.buf)
      BY <3>2, LenProperties
    <3>4. \A i \in 1 .. n + Len(s.buf) :
              frames[i] = IF i <= n THEN f.store[i] ELSE s.buf[i - n]
      BY <1>1, ConcatProperties
    <3> HIDE DEF frames, n
    <3>. QED
      BY <3>1, <3>3, <3>4
  <2>2. s.buf[1].pos = IF n = 0 THEN 0 ELSE FrameEnd(frames[n])
    <3>1. \A k \in DOMAIN frames :
              frames[k].pos = IF k = 1 THEN 0 ELSE FrameEnd(frames[k - 1])
      BY DEF Consistent
    <3> HIDE DEF frames, n
    <3>. QED
      BY <2>1, <3>1
  <2>3. StoreBytes(f.store) = s.buf[1].pos
    BY <1>1, <2>1, <2>2, EmptySeq DEF StoreBytes, Last
  <2>4. shift = 0
    BY <1>1, <2>3, StoreBytesType
  <2>5. \A i \in DOMAIN s.buf : [s.buf[i] EXCEPT !.pos = @ + shift] = s.buf[i]
    <3>1. TAKE i \in DOMAIN s.buf
    <3>2. s.buf[i] \in Frame
      BY <1>1, LenProperties, ElementOfSeq
    <3>. QED
      BY <2>4, <3>2 DEF Frame
  <2>6. [i \in DOMAIN s.buf |-> [s.buf[i] EXCEPT !.pos = @ + shift]] = s.buf
    <3>1. s.buf = [i \in DOMAIN s.buf |-> s.buf[i]]
      BY <1>1, LenProperties
    <3>. QED
      BY <2>5, <3>1
  <2>. QED
    BY <1>3, <2>6 DEF Flushed
<1>. QED
  BY <1>2, <1>3

\* So a flush leaves the segment consistent.
LEMMA FlushConsistent ==
    ASSUME NEW recs, NEW s \in Segment, NEW f \in File, Consistent(s, f, recs)
    PROVE  LET t == [s EXCEPT !.buf = <<>>]
               g == Flushed(f, s.buf)
           IN  t \in Segment /\ g \in File /\ Consistent(t, g, recs)
<1> DEFINE t == [s EXCEPT !.buf = <<>>]
           g == [f EXCEPT !.store = f.store \o s.buf]
<1>1. f.store \o s.buf \in Seq(Frame)
  BY ConcatProperties DEF File, Segment
<1>2. t \in Segment /\ g \in File
  BY <1>1, EmptySeq DEF File, Segment
<1>3. g.store \o t.buf = f.store \o s.buf
  BY <1>1, ConcatEmptySeq DEF File, Segment
<1>4. Consistent(t, g, recs)
  <2>1. /\ t.base = s.base /\ t.next = s.next /\ t.size = s.size
        /\ t.isize = s.isize /\ g.slots = f.slots
    BY DEF Segment, File
  <2> HIDE DEF t, g
  <2>. QED
    BY <1>3, <2>1 DEF Consistent
<1>. QED
  BY <1>2, <1>4, FlushedFrames

\* The file of a base that has none yet, and what growing its index makes of it.
LEMMA GrownType ==
    /\ NoFile \in File
    /\ \A f \in File : Grown(f) \in File
    /\ \A f \in File : Grown(f).store = f.store /\ Grown(f).slots = f.slots
<1>1. NoEntry \in Entry
  BY DEF NoEntry, Entry
<1>2. NoFile \in File
  BY <1>1, EmptySeq, ConfigAssumption DEF NoFile, File, ConfigAssumption
<1>3. MaxIndexBytes \in 0 .. MaxIndexBytes
  BY ConfigAssumption DEF ConfigAssumption
<1>. QED
  BY <1>2, <1>3 DEF Grown, File

\* A segment on new files starts empty, consistent and with room.
LEMMA FreshConsistent ==
    ASSUME NEW b \in Nat, NEW recs
    PROVE  LET s == OpenSegment(NoFile, b)
           IN  /\ s \in Segment /\ Consistent(s, Grown(NoFile), recs)
               /\ s.base = b /\ s.next = b /\ ~IsMaxed(s)
<1> DEFINE s == OpenSegment(NoFile, b)
<1>1. s = [base |-> b, next |-> b, size |-> 0, isize |-> 0, buf |-> <<>>]
  BY DEF OpenSegment, NoFile, LastRelative, entryWidth, StoreBytes
<1>2. Grown(NoFile).store = <<>>
  BY GrownType DEF NoFile
<1>3. s \in Segment
  BY <1>1, EmptySeq DEF Segment
<1>4. Consistent(s, Grown(NoFile), recs)
  <2>1. Grown(NoFile).store \o s.buf = <<>>
    BY <1>1, <1>2, ConcatEmptySeq, EmptySeq
  <2>2. /\ s.base = b /\ s.next = b /\ s.size = 0 /\ s.isize = 0
        /\ entryWidth * (b - b) = 0 /\ 0 <= MaxIndexBytes
        /\ Len(<<>>) = b - b /\ DOMAIN <<>> = {}
    BY <1>1, ConfigAssumption DEF entryWidth, ConfigAssumption
  <2> HIDE DEF s
  <2>. QED
    BY <2>1, <2>2 DEF Consistent, StoreBytes
<1>5. ~IsMaxed(s)
  BY <1>1, ConfigAssumption
     DEF IsMaxed, IndexMaxed, entryWidth, ConfigAssumption
<1>. QED
  BY <1>1, <1>3, <1>4, <1>5

\* The frames of a consistent segment, one by one.
LEMMA FramesOf ==
    ASSUME NEW recs, NEW s \in Segment, NEW f \in File, Consistent(s, f, recs)
    PROVE  LET frames == f.store \o s.buf
               n == s.next - s.base
           IN  /\ n \in Nat /\ Len(frames) = n
               /\ frames \in Seq(Frame) /\ DOMAIN frames = 1 .. n
               /\ s.size = IF n = 0 THEN 0 ELSE FrameEnd(frames[n])
               /\ \A k \in 1 .. n : frames[k] \in Frame
<1> DEFINE frames == f.store \o s.buf
           n == s.next - s.base
<1>1. frames \in Seq(Frame)
  BY ConcatProperties DEF File, Segment
<1>2. n \in Nat /\ Len(frames) = n /\ s.size = StoreBytes(frames)
  BY DEF Consistent, Segment
<1> HIDE DEF frames, n
<1>3. DOMAIN frames = 1 .. n /\ \A k \in 1 .. n : frames[k] \in Frame
  BY <1>1, <1>2, LenProperties, ElementOfSeq
<1>4. s.size = IF n = 0 THEN 0 ELSE FrameEnd(frames[n])
  BY <1>1, <1>2, EmptySeq DEF StoreBytes, Last
<1>. QED
  BY <1>1, <1>2, <1>3, <1>4 DEF frames, n

\* segment.Append on a segment with room keeps it consistent, with the new
\* record among those it holds.
LEMMA AppendConsistent ==
    ASSUME NEW recs, NEW s \in Segment, NEW f \in File, Consistent(s, f, recs),
           ~IndexMaxed(s), NEW id \in Nat, NEW len \in Nat,
           NEW fr, fr = NewFrame(s, id, len),
           NEW t, t = Indexed(Buffered(s, fr)),
           NEW g, g = PutEntry(f, s)
    PROVE  t \in Segment /\ g \in File /\ Consistent(t, g, recs \cup {fr.rec})
<1> DEFINE n  == s.next - s.base
           old == f.store \o s.buf
           new == g.store \o t.buf
<1>1. /\ n \in Nat /\ Len(old) = n /\ old \in Seq(Frame) /\ DOMAIN old = 1 .. n
      /\ s.size = IF n = 0 THEN 0 ELSE FrameEnd(old[n])
      /\ \A k \in 1 .. n : old[k] \in Frame
  BY FramesOf
<1>2. /\ s.base \in Nat /\ s.next \in Nat /\ s.size \in Nat /\ s.isize \in Nat
      /\ s.buf \in Seq(Frame) /\ f.store \in Seq(Frame)
      /\ f.slots \in [Slots -> Entry]
  BY DEF Segment, File
<1>3. /\ fr = [pos |-> s.size,
               rec |-> [offset |-> s.next, id |-> id, len |-> len]]
      /\ fr \in Frame /\ FrameEnd(fr) \in Nat
  BY <1>2, FrameEndType DEF NewFrame, Frame, Record
<1>4. /\ s.isize = entryWidth * n
      /\ s.isize \div entryWidth = n /\ n \in Slots
      /\ s.isize + entryWidth <= MaxIndexBytes
  <2>1. s.isize = entryWidth * n
    BY DEF Consistent
  <2>2. s.isize + entryWidth <= MaxIndexBytes
    BY <1>2, ConfigAssumption DEF IndexMaxed, ConfigAssumption, entryWidth
  <2> HIDE DEF n
  <2>. QED
    BY <1>1, <2>1, <2>2, SlotOfEntry
<1>5. /\ t.base = s.base /\ t.next = s.next + 1 /\ t.size = FrameEnd(fr)
      /\ t.isize = s.isize + entryWidth /\ t.buf = Append(s.buf, fr)
      /\ t \in Segment
  <2> DEFINE u == Buffered(s, fr)
  <2>1. Append(s.buf, fr) \in Seq(Frame)
    BY <1>2, <1>3, AppendProperties
  <2>2. /\ u.base = s.base /\ u.next = s.next /\ u.size = FrameEnd(fr)
        /\ u.isize = s.isize /\ u.buf = Append(s.buf, fr) /\ u \in Segment
    BY <1>3, <2>1 DEF Buffered, Segment
  <2>3. t = Indexed(u)
    OBVIOUS
  <2> HIDE DEF u
  <2>4. t = [base |-> s.base, next |-> s.next + 1, size |-> FrameEnd(fr),
             isize |-> s.isize + entryWidth, buf |-> Append(s.buf, fr)]
    BY <2>2, <2>3 DEF Indexed, Segment
  <2>5. s.next + 1 \in Nat /\ s.isize + entryWidth \in Nat
    BY <1>2 DEF entryWidth
  <2>6. /\ t.base = s.base /\ t.next = s.next + 1 /\ t.size = FrameEnd(fr)
        /\ t.isize = s.isize + entryWidth /\ t.buf = Append(s.buf, fr)
    BY <2>4
  <2>7. t \in Segment
    <3> HIDE DEF n, old, new
    <3>1. u.next + 1 \in Nat /\ u.isize + entryWidth \in Nat
      BY <2>2, <2>5
    <3>. QED
      BY <2>2, <2>3, <3>1 DEF Indexed, Segment
  <2>. QED
    BY <2>6, <2>7
<1>6. /\ g.store = f.store /\ g \in File
      /\ g.slots = [f.slots EXCEPT ![n] = [off |-> n, pos |-> s.size]]
  BY <1>1, <1>2, <1>4 DEF PutEntry, File, Entry
<1> HIDE DEF n, old
<1>7. /\ Len(new) = n + 1 /\ DOMAIN new = 1 .. n + 1
      /\ \A k \in 1 .. n : new[k] = old[k]
      /\ new[n + 1] = fr
  <2>1. f.store \o Append(s.buf, fr) = Append(f.store \o s.buf, fr)
    <3>1. f.store \in Seq(Frame) /\ s.buf \in Seq(Frame) /\ fr \in Frame
      BY <1>2, <1>3
    <3>2. \A a, b \in Seq(Frame), e \in Frame : a \o Append(b, e) = Append(a \o b, e)
      BY AppendToConcat
    <3>. QED
      BY <3>1, <3>2, Zenon
  <2>2. new = Append(old, fr)
    BY <1>5, <1>6, <2>1 DEF old
  <2> HIDE DEF new
  <2>3. /\ Append(old, fr) \in Seq(Frame) /\ Len(Append(old, fr)) = n + 1
        /\ \A k \in 1 .. n : Append(old, fr)[k] = old[k]
        /\ Append(old, fr)[n + 1] = fr
    BY <1>1, <1>3, AppendProperties
  <2>. QED
    BY <1>1, <2>2, <2>3, LenProperties
<1>8. Consistent(t, g, recs \cup {fr.rec})
  <2> HIDE DEF new
  <2>1. /\ t.base <= t.next /\ t.next - t.base = n + 1
        /\ t.isize = entryWidth * (n + 1) /\ t.isize <= MaxIndexBytes
    <3>1. s.next = s.base + n
      BY <1>2 DEF n
    <3>2. entryWidth * (n + 1) = entryWidth * n + entryWidth
      BY <1>1 DEF entryWidth
    <3>. QED
      BY <1>1, <1>2, <1>4, <1>5, <3>1, <3>2
  <2>2. t.size = StoreBytes(new)
    <3>1. new # <<>> /\ Last(new) = fr
      <4>1. Len(<<>>) = 0
        OBVIOUS
      <4>. QED
        BY <1>1, <1>7, <4>1 DEF Last
    <3>. QED
      BY <1>5, <3>1 DEF StoreBytes
  <2>3. \A k \in 1 .. n :
            /\ old[k].pos = IF k = 1 THEN 0 ELSE FrameEnd(old[k - 1])
            /\ \A j \in 1 .. k - 1 : FrameEnd(old[j]) <= old[k].pos
            /\ old[k].rec \in recs
            /\ old[k].rec.offset = s.base + k - 1
            /\ f.slots[k - 1] = [off |-> k - 1, pos |-> old[k].pos]
    BY <1>1 DEF Consistent, old
  <2>4. ASSUME NEW k \in 1 .. n + 1
        PROVE  /\ new[k].pos = IF k = 1 THEN 0 ELSE FrameEnd(new[k - 1])
               /\ \A j \in 1 .. k - 1 : FrameEnd(new[j]) <= new[k].pos
               /\ new[k].rec \in recs \cup {fr.rec}
               /\ new[k].rec.offset = t.base + k - 1
               /\ g.slots[k - 1] = [off |-> k - 1, pos |-> new[k].pos]
    <3>1. CASE k \in 1 .. n
      <4>1. new[k] = old[k] /\ \A j \in 1 .. k - 1 : new[j] = old[j]
        BY <1>1, <1>7, <3>1
      <4>2. g.slots[k - 1] = f.slots[k - 1]
        BY <1>1, <1>2, <1>4, <1>6, <3>1
      <4>3. /\ old[k].pos = IF k = 1 THEN 0 ELSE FrameEnd(old[k - 1])
            /\ \A j \in 1 .. k - 1 : FrameEnd(old[j]) <= old[k].pos
            /\ old[k].rec \in recs
            /\ old[k].rec.offset = s.base + k - 1
            /\ f.slots[k - 1] = [off |-> k - 1, pos |-> old[k].pos]
        BY <2>3, <3>1
      <4>4. k # 1 => new[k - 1] = old[k - 1]
        BY <1>1, <3>1, <4>1
      <4>. QED
        BY <1>5, <4>1, <4>2, <4>3, <4>4
    <3>2. CASE k = n + 1
      <4>1. fr.pos = s.size /\ fr.rec.offset = s.next
        BY <1>3
      <4>2. \A j \in 1 .. n : FrameEnd(old[j]) <= s.size
        <5>1. TAKE j \in 1 .. n
        <5>2. CASE j = n
          BY <1>1, <1>2, <5>2
        <5>3. CASE j < n
          <6>1. FrameEnd(old[j]) <= old[n].pos
            <7>1. n \in 1 .. n /\ j \in 1 .. n - 1
              BY <1>1, <5>3
            <7>. QED
              BY <2>3, <7>1
          <6>2. /\ FrameEnd(old[n]) >= old[n].pos + lenWidth
                /\ FrameEnd(old[n]) \in Nat /\ FrameEnd(old[j]) \in Nat
                /\ old[n].pos \in Nat
            BY <1>1, FrameEndType DEF Frame
          <6>. QED
            BY <1>1, <5>3, <6>1, <6>2 DEF lenWidth
        <5>. QED
          BY <1>1, <5>2, <5>3
      <4>3. g.slots[n] = [off |-> n, pos |-> s.size]
        BY <1>2, <1>4, <1>6
      <4>4. s.size = IF k = 1 THEN 0 ELSE FrameEnd(new[k - 1])
        BY <1>1, <1>7, <3>2
      <4>5. \A j \in 1 .. k - 1 : FrameEnd(new[j]) <= s.size
        BY <1>1, <1>7, <3>2, <4>2
      <4>6. s.base + n = s.next
        BY <1>2 DEF n
      <4>. QED
        BY <1>1, <1>2, <1>5, <1>7, <3>2, <4>1, <4>3, <4>4, <4>5, <4>6
    <3>. QED
      BY <1>1, <3>1, <3>2
  <2>. QED
    <3>1. \A k \in DOMAIN new :
              /\ new[k].pos = IF k = 1 THEN 0 ELSE FrameEnd(new[k - 1])
              /\ \A j \in 1 .. k - 1 : FrameEnd(new[j]) <= new[k].pos
              /\ new[k].rec \in recs \cup {fr.rec}
              /\ new[k].rec.offset = t.base + k - 1
              /\ g.slots[k - 1] = [off |-> k - 1, pos |-> new[k].pos]
      BY <1>7, <2>4
    <3>2. Len(new) = t.next - t.base /\ t.isize = entryWidth * (t.next - t.base)
      BY <1>7, <2>1
    <3>. QED
      BY <2>1, <2>2, <3>1, <3>2, Zenon DEF Consistent, new
<1>. QED
  BY <1>5, <1>6, <1>8

\* More records to choose from never make a segment inconsistent.
LEMMA MoreRecords ==
    ASSUME NEW recs, NEW more, recs \subseteq more, NEW s, NEW f,
           Consistent(s, f, recs)
    PROVE  Consistent(s, f, more)
BY DEF Consistent

\* A maxed segment holds a record.
LEMMA MaxedHolds ==
    ASSUME NEW recs, NEW s \in Segment, NEW f \in File, Consistent(s, f, recs),
           IsMaxed(s)
    PROVE  s.base < s.next
<1> SUFFICES ASSUME s.base = s.next PROVE FALSE
  BY DEF Consistent, Segment
<1>1. s.size = 0
  <2>1. s.next - s.base = 0
    BY DEF Segment
  <2>. QED
    BY <2>1, FramesOf
<1>2. s.isize = 0
  BY DEF Consistent, Segment, entryWidth
<1>. QED
  BY <1>1, <1>2, ConfigAssumption
     DEF IsMaxed, IndexMaxed, entryWidth, ConfigAssumption

-----------------------------------------------------------------------------
(* Reading a consistent segment.                                            *)

\* The record in the result of a successful read.
LEMMA RecordOfResult ==
    ASSUME NEW res, NEW r, res = [err |-> "", rec |-> r]
    PROVE  res.rec = r
OBVIOUS

\* Position pos leads to one frame, and it has a record of recs with offset off.
Leads(frames, pos, off, recs) ==
    \E k \in DOMAIN frames :
        /\ {j \in DOMAIN frames : frames[j].pos = pos} = {k}
        /\ frames[k].rec \in recs
        /\ frames[k].rec.offset = off

\* The entry of an offset leads to the frame with the record of that offset,
\* whether it was flushed before or not.
LEMMA EntryLeads ==
    ASSUME NEW recs, NEW s \in Segment, NEW f \in File, Consistent(s, f, recs),
           NEW off \in s.base .. s.next - 1
    PROVE  Leads(Flushed(f, s.buf).store, f.slots[off - s.base].pos, off, recs)
<1> DEFINE frames == f.store \o s.buf
           pos == f.slots[off - s.base].pos
           n == s.next - s.base
           k == off - s.base + 1
           at == {j \in DOMAIN frames : frames[j].pos = pos}
<1>1. Flushed(f, s.buf).store = frames
  <2>1. Flushed(f, s.buf) = [f EXCEPT !.store = f.store \o s.buf]
    BY FlushedFrames
  <2>. QED
    BY <2>1 DEF File
<1>2. /\ n \in Nat /\ DOMAIN frames = 1 .. n
      /\ \A j \in 1 .. n : frames[j] \in Frame
  BY FramesOf
<1>3. k \in 1 .. n /\ k - 1 = off - s.base /\ s.base + k - 1 = off
  BY DEF Segment
<1>4. \A j \in 1 .. n :
          /\ \A i \in 1 .. j - 1 : FrameEnd(frames[i]) <= frames[j].pos
          /\ frames[j].rec \in recs
          /\ frames[j].rec.offset = s.base + j - 1
          /\ f.slots[j - 1] = [off |-> j - 1, pos |-> frames[j].pos]
  BY <1>2 DEF Consistent
<1> HIDE DEF frames, n, k
<1>5. pos = frames[k].pos
  <2>1. f.slots[k - 1] = [off |-> k - 1, pos |-> frames[k].pos]
    BY <1>3, <1>4
  <2>. QED
    BY <1>3, <2>1
<1>6. \A i, j \in 1 .. n : i < j => frames[i].pos < frames[j].pos
  <2>1. TAKE i, j \in 1 .. n
  <2>2. HAVE i < j
  <2>3. FrameEnd(frames[i]) <= frames[j].pos
    <3>1. i \in 1 .. j - 1
      BY <1>2, <2>2
    <3>. QED
      BY <1>4, <3>1
  <2>4. /\ FrameEnd(frames[i]) \in Nat
        /\ FrameEnd(frames[i]) >= frames[i].pos + lenWidth
    BY <1>2, FrameEndType
  <2>5. frames[i].pos \in Nat /\ frames[j].pos \in Nat
    BY <1>2 DEF Frame
  <2>. QED
    BY <2>3, <2>4, <2>5 DEF lenWidth
<1>7. at = {k}
  <2>1. \A j \in 1 .. n : frames[j].pos \in Nat
    BY <1>2 DEF Frame
  <2>. QED
    BY <1>2, <1>3, <1>5, <1>6, <2>1
<1>. QED
  BY <1>1, <1>2, <1>3, <1>4, <1>7 DEF Leads

\* What a read returns that decodes record r.
ResultOf(r) == IF MarshalLen(r) = 0 THEN Failure("ZeroSize")
               ELSE [err |-> "", rec |-> r]

\* A read of offset off of a segment decodes a record of recs that has it.
ReadsOne(s, f, off, recs) ==
    \E r \in recs :
       /\ r.offset = off
       /\ StoreRead(Flushed(f, s.buf).store, f.slots[off - s.base].pos)
              = ResultOf(r)

\* A read of a held offset of one consistent segment.
LEMMA ReadConsistent ==
    ASSUME NEW recs, NEW s \in Segment, NEW f \in File, Consistent(s, f, recs),
           NEW off \in s.base .. s.next - 1
    PROVE  ReadsOne(s, f, off, recs)
<1> DEFINE frames == Flushed(f, s.buf).store
           pos == f.slots[off - s.base].pos
           at == {j \in DOMAIN frames : frames[j].pos = pos}
<1>1. PICK k \in DOMAIN frames :
          at = {k} /\ frames[k].rec \in recs /\ frames[k].rec.offset = off
  <2>1. Leads(frames, pos, off, recs)
    BY EntryLeads
  <2>. QED
    BY <2>1 DEF Leads
<1>2. at # {} /\ (CHOOSE j \in at : TRUE) = k
  BY <1>1
<1>3. StoreRead(frames, pos) = ResultOf(frames[k].rec)
  BY <1>2 DEF StoreRead, ResultOf
<1>. QED
  BY <1>1, <1>3 DEF ReadsOne

-----------------------------------------------------------------------------
(* Log values: the part of the inductive invariant that is about log.       *)

GoodLog(l, recs) ==
    /\ l.segments \in Seq(Segment)
    /\ l.files \in [DOMAIN l.files -> File]
    /\ DOMAIN l.files = {l.segments[i].base : i \in DOMAIN l.segments}
    /\ \A i \in DOMAIN l.segments :
           Consistent(l.segments[i], l.files[l.segments[i].base], recs)
    /\ \A i, j \in DOMAIN l.segments :
           i < j => /\ l.segments[i].base < l.segments[i].next
                    /\ l.segments[i].next <= l.segments[j].base

\* The indices of the segments, and where their files are.
LEMMA GoodShape ==
    ASSUME NEW recs, NEW l, GoodLog(l, recs)
    PROVE  /\ Len(l.segments) \in Nat
           /\ DOMAIN l.segments = 1 .. Len(l.segments)
           /\ l.segments # <<>> => Len(l.segments) \in DOMAIN l.segments
           /\ \A i \in DOMAIN l.segments :
                 /\ l.segments[i] \in Segment
                 /\ l.segments[i].base \in Nat /\ l.segments[i].next \in Nat
                 /\ l.segments[i].base <= l.segments[i].next
                 /\ l.segments[i].base \in DOMAIN l.files
                 /\ l.files[l.segments[i].base] \in File
           /\ \A i, j \in DOMAIN l.segments :
                 i # j => l.segments[i].base # l.segments[j].base
<1>1. l.segments \in Seq(Segment)
  BY DEF GoodLog
<1>2. /\ Len(l.segments) \in Nat
      /\ DOMAIN l.segments = 1 .. Len(l.segments)
      /\ l.segments # <<>> => Len(l.segments) \in DOMAIN l.segments
  BY <1>1, LenProperties, EmptySeq
<1>3. \A i \in DOMAIN l.segments : l.segments[i] \in Segment
  BY <1>1, <1>2, ElementOfSeq
<1>4. \A i \in DOMAIN l.segments :
          /\ l.segments[i].base \in Nat /\ l.segments[i].next \in Nat
          /\ l.segments[i].base <= l.segments[i].next
          /\ l.segments[i].base \in DOMAIN l.files
  BY <1>3 DEF GoodLog, Consistent, Segment
<1>5. \A b \in DOMAIN l.files : l.files[b] \in File
  BY DEF GoodLog
<1>6. \A i, j \in DOMAIN l.segments :
          i < j => l.segments[i].base < l.segments[j].base
  BY <1>4 DEF GoodLog
<1>. QED
  BY <1>2, <1>3, <1>4, <1>5, <1>6

\* The offsets at which segments end.
Ends(l) == {l.segments[i].next : i \in DOMAIN l.segments}

\* A stored offset is held by one of the segments.
LEMMA InStored ==
    ASSUME NEW l, NEW off
    PROVE  off \in Stored(l) <=> \E i \in DOMAIN l.segments : off \in Held(l.segments[i])
BY DEF Stored, Range

\* What a log holds is a matter of the offsets of its segments.
LEMMA SameOffsets ==
    ASSUME NEW l, NEW m, DOMAIN m.segments = DOMAIN l.segments,
           \A j \in DOMAIN l.segments : /\ m.segments[j].base = l.segments[j].base
                                        /\ m.segments[j].next = l.segments[j].next
    PROVE  Stored(m) = Stored(l) /\ Ends(m) = Ends(l)
<1>1. \A off : off \in Stored(m) <=> off \in Stored(l)
  BY InStored DEF Held
<1>. QED
  BY <1>1 DEF Ends

\* The last segment ends where the log does.
LEMMA StoredBelowEnd ==
    ASSUME NEW recs, NEW l, GoodLog(l, recs), NEW off \in Stored(l)
    PROVE  /\ off \in Nat
           /\ l.segments # <<>>
           /\ Last(l.segments).next \in Nat
           /\ off < Last(l.segments).next
<1> DEFINE n == Len(l.segments)
<1>1. PICK i \in DOMAIN l.segments : off \in Held(l.segments[i])
  BY InStored
<1>2. /\ DOMAIN l.segments = 1 .. n /\ n \in Nat
      /\ l.segments # <<>> => n \in DOMAIN l.segments
      /\ \A j \in DOMAIN l.segments :
            /\ l.segments[j].base \in Nat /\ l.segments[j].next \in Nat
            /\ l.segments[j].base <= l.segments[j].next
  BY GoodShape
<1>3. l.segments # <<>> /\ Last(l.segments).next = l.segments[n].next
  BY <1>1, <1>2 DEF Last
<1>4. off \in Nat /\ off < l.segments[i].next
  BY <1>1, <1>2 DEF Held
<1>5. i < n => l.segments[i].next <= l.segments[n].base
  BY <1>1, <1>2, <1>3 DEF GoodLog
<1> HIDE DEF n
<1>6. CASE i = n
  BY <1>2, <1>3, <1>4, <1>6
<1>7. CASE i < n
  <2>1. off < l.segments[n].next
    BY <1>1, <1>2, <1>3, <1>4, <1>5, <1>7
  <2>. QED
    BY <1>2, <1>3, <1>4, <2>1
<1>. QED
  BY <1>1, <1>2, <1>6, <1>7

\* The segments of m are those of l, but for segment i, which is t.
SameBut(m, l, i, t) ==
    /\ Len(m.segments) = Len(l.segments)
    /\ DOMAIN m.segments = DOMAIN l.segments
    /\ m.segments[i] = t
    /\ \A j \in DOMAIN l.segments : j # i => m.segments[j] = l.segments[j]

\* Exchanging one segment and its file for consistent ones: only the last
\* segment may end later than before.
LEMMA GoodReplace ==
    ASSUME NEW recs, NEW more, recs \subseteq more, NEW l, GoodLog(l, recs),
           NEW i \in DOMAIN l.segments, NEW t \in Segment, NEW g \in File,
           Consistent(t, g, more), t.base = l.segments[i].base,
           i # Len(l.segments) => t.next = l.segments[i].next,
           t.next >= l.segments[i].next,
           NEW m, m = PutSegment(l, i, t, g)
    PROVE  GoodLog(m, more) /\ SameBut(m, l, i, t)
<1> DEFINE b == l.segments[i].base
<1>1. /\ DOMAIN l.segments = 1 .. Len(l.segments) /\ Len(l.segments) \in Nat
      /\ l.segments \in Seq(Segment)
      /\ b \in DOMAIN l.files
      /\ \A j \in DOMAIN l.segments : l.segments[j].base = b => j = i
  BY GoodShape DEF GoodLog
<1>2. /\ m.segments \in Seq(Segment) /\ Len(m.segments) = Len(l.segments)
      /\ DOMAIN m.segments = DOMAIN l.segments
      /\ \A j \in DOMAIN l.segments :
            m.segments[j] = IF j = i THEN t ELSE l.segments[j]
  <2>1. i \in 1 .. Len(l.segments)
    BY <1>1
  <2>2. /\ [l.segments EXCEPT ![i] = t] \in Seq(Segment)
        /\ Len([l.segments EXCEPT ![i] = t]) = Len(l.segments)
        /\ \A j \in 1 .. Len(l.segments) :
              [l.segments EXCEPT ![i] = t][j] = IF j = i THEN t ELSE l.segments[j]
    BY <1>1, <2>1, ExceptSeq
  <2>. QED
    BY <1>1, <2>2 DEF PutSegment
<1>3. /\ m.files = [c \in DOMAIN l.files |-> IF c = b THEN g ELSE l.files[c]]
      /\ DOMAIN m.files = DOMAIN l.files
  <2>1. DOMAIN l.files \cup {b} = DOMAIN l.files
    BY <1>1
  <2>. QED
    BY <2>1 DEF PutFile, PutSegment
<1>4. m.files \in [DOMAIN m.files -> File]
  BY <1>3 DEF GoodLog
<1>5. \A j \in DOMAIN l.segments :
          /\ m.segments[j].base = l.segments[j].base
          /\ j # i => m.segments[j].next = l.segments[j].next
          /\ m.segments[i].next = t.next
  BY <1>2
<1>6. DOMAIN m.files = {m.segments[j].base : j \in DOMAIN m.segments}
  <2>1. {m.segments[j].base : j \in DOMAIN m.segments} =
            {l.segments[j].base : j \in DOMAIN l.segments}
    BY <1>2, <1>5
  <2>2. DOMAIN l.files = {l.segments[j].base : j \in DOMAIN l.segments}
    BY DEF GoodLog
  <2>. QED
    BY <1>3, <2>1, <2>2
<1>7. ASSUME NEW j \in DOMAIN m.segments
      PROVE  Consistent(m.segments[j], m.files[m.segments[j].base], more)
  <2>1. CASE j = i
    BY <1>1, <1>2, <1>3, <2>1
  <2>2. CASE j # i
    <3>1. l.segments[j].base # b /\ l.segments[j].base \in DOMAIN l.files
      BY <1>1, <1>2, <2>2, GoodShape
    <3>2. m.files[l.segments[j].base] = l.files[l.segments[j].base]
      BY <1>3, <3>1
    <3>3. Consistent(l.segments[j], l.files[l.segments[j].base], recs)
      BY <1>2 DEF GoodLog
    <3>4. Consistent(l.segments[j], l.files[l.segments[j].base], more)
      BY <3>3, MoreRecords
    <3>. QED
      BY <1>2, <2>2, <3>2, <3>4
  <2>. QED
    BY <2>1, <2>2
<1>8. ASSUME NEW j \in DOMAIN m.segments, NEW k \in DOMAIN m.segments, j < k
      PROVE  /\ m.segments[j].base < m.segments[j].next
             /\ m.segments[j].next <= m.segments[k].base
  <2>1. /\ l.segments[j].base < l.segments[j].next
        /\ l.segments[j].next <= l.segments[k].base
    BY <1>2, <1>8 DEF GoodLog
  <2>2. m.segments[j].next = l.segments[j].next
    BY <1>1, <1>2, <1>5, <1>8
  <2>. QED
    BY <1>2, <1>5, <2>1, <2>2
<1>9. GoodLog(m, more)
  BY <1>2, <1>4, <1>6, <1>7, <1>8 DEF GoodLog
<1>. QED
  BY <1>2, <1>9 DEF SameBut

\* A rollover at the end of the last segment.
LEMMA GoodRollover ==
    ASSUME NEW recs, NEW l, GoodLog(l, recs), l.segments # <<>>,
           Last(l.segments).base < Last(l.segments).next
    PROVE  LET b == Last(l.segments).next
               m == NewSegment(l, b)
           IN  /\ GoodLog(m, recs)
               /\ m.segments # <<>>
               /\ Last(m.segments).next = b
               /\ ~IndexMaxed(Last(m.segments))
               /\ Stored(m) = Stored(l) /\ Ends(m) = Ends(l)
<1> DEFINE n == Len(l.segments)
           b == l.segments[n].next
           t == OpenSegment(NoFile, b)
           m == NewSegment(l, b)
<1>1. /\ n \in Nat /\ n \in DOMAIN l.segments /\ DOMAIN l.segments = 1 .. n
      /\ l.segments \in Seq(Segment)
      /\ Last(l.segments) = l.segments[n]
      /\ \A i \in 1 .. n : /\ l.segments[i].base \in Nat
                           /\ l.segments[i].next \in Nat
                           /\ l.segments[i].base \in DOMAIN l.files
  BY GoodShape DEF GoodLog, Last
<1>2. /\ t \in Segment /\ Consistent(t, Grown(NoFile), recs)
      /\ t.base = b /\ t.next = b /\ ~IsMaxed(t)
  BY <1>1, FreshConsistent
<1>3. ~IndexMaxed(t)
  BY <1>2 DEF IsMaxed
<1>4. \A i \in 1 .. n : l.segments[i].base < l.segments[i].next
                        /\ l.segments[i].next <= b
  <2>1. TAKE i \in 1 .. n
  <2>2. CASE i = n
    BY <1>1, <2>2
  <2>3. CASE i < n
    <3>1. /\ l.segments[i].base < l.segments[i].next
          /\ l.segments[i].next <= l.segments[n].base
      BY <1>1, <2>3 DEF GoodLog
    <3>2. l.segments[n].base < b
      BY <1>1
    <3>. QED
      BY <1>1, <3>1, <3>2
  <2>. QED
    BY <1>1, <2>2, <2>3
<1>5. b \notin DOMAIN l.files
  <2>1. DOMAIN l.files = {l.segments[i].base : i \in 1 .. n}
    BY <1>1 DEF GoodLog
  <2>2. \A i \in 1 .. n : l.segments[i].base # b
    BY <1>1, <1>4
  <2> HIDE DEF b
  <2>. QED
    BY <2>1, <2>2
<1> HIDE DEF t
<1>6. /\ m.files = PutFile(l.files, b, Grown(NoFile))
      /\ m.segments = Append(l.segments, t)
  BY <1>5 DEF NewSegment, FileOf, t
<1> HIDE DEF m, n, b
<1>7. /\ m.segments \in Seq(Segment) /\ Len(m.segments) = n + 1
      /\ m.segments # <<>> /\ DOMAIN m.segments = 1 .. n + 1
      /\ \A i \in 1 .. n : m.segments[i] = l.segments[i]
      /\ m.segments[n + 1] = t
  <2>1. /\ Append(l.segments, t) \in Seq(Segment)
        /\ Append(l.segments, t) # <<>>
        /\ Len(Append(l.segments, t)) = n + 1
        /\ \A i \in 1 .. n : Append(l.segments, t)[i] = l.segments[i]
        /\ Append(l.segments, t)[n + 1] = t
    BY <1>1, <1>2, AppendProperties DEF n
  <2>. QED
    BY <1>6, <2>1, LenProperties
<1>8. /\ DOMAIN m.files = DOMAIN l.files \cup {b}
      /\ m.files[b] = Grown(NoFile)
      /\ \A c \in DOMAIN l.files : m.files[c] = l.files[c]
      /\ m.files \in [DOMAIN m.files -> File]
  <2>1. Grown(NoFile) \in File
    BY GrownType
  <2>. QED
    BY <1>5, <1>6, <2>1 DEF PutFile, GoodLog
<1>9. GoodLog(m, recs)
  <2>1. DOMAIN m.files = {m.segments[i].base : i \in DOMAIN m.segments}
    <3>1. DOMAIN l.files = {l.segments[i].base : i \in 1 .. n}
      BY <1>1 DEF GoodLog
    <3>2. \A i \in 1 .. n + 1 : i \in 1 .. n \/ i = n + 1
      BY <1>1
    <3>3. n + 1 \in 1 .. n + 1 /\ \A i \in 1 .. n : i \in 1 .. n + 1
      BY <1>1
    <3>. QED
      BY <1>2, <1>7, <1>8, <3>1, <3>2, <3>3
  <2>2. ASSUME NEW i \in DOMAIN m.segments
        PROVE  Consistent(m.segments[i], m.files[m.segments[i].base], recs)
    <3>1. CASE i \in 1 .. n
      BY <1>1, <1>7, <1>8, <3>1 DEF GoodLog
    <3>2. CASE i = n + 1
      BY <1>2, <1>7, <1>8, <3>2
    <3>. QED
      BY <1>1, <1>7, <3>1, <3>2
  <2>3. ASSUME NEW i \in DOMAIN m.segments, NEW j \in DOMAIN m.segments, i < j
        PROVE  /\ m.segments[i].base < m.segments[i].next
               /\ m.segments[i].next <= m.segments[j].base
    <3>1. i \in 1 .. n /\ m.segments[i] = l.segments[i]
      BY <1>1, <1>7, <2>3
    <3>2. CASE j \in 1 .. n
      BY <1>1, <1>7, <2>3, <3>1, <3>2 DEF GoodLog
    <3>3. CASE j = n + 1
      BY <1>2, <1>4, <1>7, <3>1, <3>3
    <3>. QED
      BY <1>1, <1>7, <3>2, <3>3
  <2>. QED
    BY <1>7, <1>8, <2>1, <2>2, <2>3 DEF GoodLog
<1>10. \A i \in 1 .. n + 1 : i \in 1 .. n \/ i = n + 1
  BY <1>1
<1>11. Stored(m) = Stored(l)
  <2>1. Held(t) = {}
    BY <1>1, <1>2 DEF Held, b, n
  <2>2. ASSUME NEW off \in Stored(m) PROVE off \in Stored(l)
    <3>1. PICK i \in 1 .. n + 1 : off \in Held(m.segments[i])
      BY <1>7, InStored
    <3>2. i \in 1 .. n /\ m.segments[i] = l.segments[i]
      BY <1>7, <1>10, <2>1, <3>1
    <3>. QED
      BY <1>1, <3>1, <3>2, InStored
  <2>3. ASSUME NEW off \in Stored(l) PROVE off \in Stored(m)
    <3>1. PICK i \in 1 .. n : off \in Held(l.segments[i])
      BY <1>1, InStored
    <3>2. i \in DOMAIN m.segments /\ m.segments[i] = l.segments[i]
      BY <1>1, <1>7, <3>1
    <3>. QED
      BY <3>1, <3>2, InStored
  <2>. QED
    BY <2>2, <2>3
<1>12. Ends(m) = Ends(l)
  <2>1. t.next = l.segments[n].next
    BY <1>2 DEF b
  <2>2. n + 1 \in 1 .. n + 1 /\ n \in 1 .. n /\ \A i \in 1 .. n : i \in 1 .. n + 1
    BY <1>1
  <2>. QED
    BY <1>1, <1>7, <1>10, <2>1, <2>2 DEF Ends
<1>. QED
  BY <1>1, <1>2, <1>3, <1>7, <1>9, <1>11, <1>12 DEF Last, m, b, n

\* segment.Append on an active segment with room.
LEMMA GoodAppend ==
    ASSUME NEW recs, NEW l, GoodLog(l, recs), l.segments # <<>>,
           ~IndexMaxed(Last(l.segments)), NEW id \in Nat, NEW len \in Nat
    PROVE  LET m == SegmentAppend(l, id, len)
               next == Last(l.segments).next
           IN  /\ GoodLog(m, recs \cup {[offset |-> next, id |-> id, len |-> len]})
               /\ m.segments # <<>>
               /\ Last(m.segments).next = next + 1
               /\ Stored(m) = Stored(l) \cup {next}
               /\ Ends(m) \subseteq Ends(l) \cup {next + 1}
<1> DEFINE n == Len(l.segments)
           s == l.segments[n]
           f == l.files[s.base]
           fr == NewFrame(s, id, len)
           t == Indexed(Buffered(s, fr))
           g == PutEntry(f, s)
           more == recs \cup {fr.rec}
           m == SegmentAppend(l, id, len)
<1>1. /\ n \in DOMAIN l.segments /\ s \in Segment /\ f \in File
      /\ n \in Nat /\ Last(l.segments) = s /\ ~IndexMaxed(s)
  BY GoodShape DEF Last
<1>2. Consistent(s, f, recs)
  BY <1>1 DEF GoodLog
<1>3. m = PutSegment(l, n, t, g)
  BY <1>1 DEF SegmentAppend
<1>4. /\ t \in Segment /\ g \in File /\ Consistent(t, g, more)
      /\ t.base = s.base /\ t.next = s.next + 1
      /\ fr.rec = [offset |-> s.next, id |-> id, len |-> len]
  <2>1. fr = NewFrame(s, id, len) /\ t = Indexed(Buffered(s, fr))
        /\ g = PutEntry(f, s)
    OBVIOUS
  <2>2. t.base = s.base /\ t.next = s.next + 1
    BY <1>1 DEF Indexed, Buffered, Segment
  <2>3. fr.rec = [offset |-> s.next, id |-> id, len |-> len]
    BY DEF NewFrame
  <2> HIDE DEF s, f, fr, t, g
  <2>4. t \in Segment /\ g \in File /\ Consistent(t, g, recs \cup {fr.rec})
    BY <1>1, <1>2, <2>1, AppendConsistent
  <2>. QED
    BY <2>2, <2>3, <2>4
<1> HIDE DEF fr, t, g, more, m
<1>5. /\ GoodLog(m, more) /\ Len(m.segments) = n
      /\ m.segments[n] = t /\ SameBut(m, l, n, t)
  <2>1. recs \subseteq more
    BY DEF more
  <2>2. n \in DOMAIN l.segments /\ n = Len(l.segments)
    BY <1>1
  <2>3. t.base = l.segments[n].base /\ t.next = l.segments[n].next + 1
    BY <1>4
  <2> HIDE DEF n
  <2>4. t.next >= l.segments[n].next
    BY <1>1, <2>3 DEF Segment
  <2>5. GoodLog(m, more) /\ SameBut(m, l, n, t)
    BY <1>3, <1>4, <2>1, <2>2, <2>3, <2>4, GoodReplace
  <2>. QED
    BY <2>2, <2>5 DEF SameBut
<1>6. m.segments # <<>>
  BY <1>1, <1>5, GoodShape
<1>7. Stored(m) = Stored(l) \cup {s.next}
  <2>1. s.base \in Nat /\ s.next \in Nat /\ s.base <= s.next
    BY <1>1, GoodShape
  <2>2. Held(t) = Held(s) \cup {s.next}
    BY <1>4, <2>1 DEF Held
  <2>3. \A off : off \in Stored(m) <=> off \in Stored(l) \cup {s.next}
    <3> HIDE DEF n
    <3>. QED
      BY <1>1, <1>5, <2>2, InStored DEF SameBut
  <2>. QED
    BY <2>3
<1>8. Ends(m) \subseteq Ends(l) \cup {s.next + 1}
  <2> HIDE DEF n
  <2>. QED
    BY <1>1, <1>4, <1>5 DEF SameBut, Ends
<1>. QED
  BY <1>1, <1>4, <1>5, <1>6, <1>7, <1>8 DEF Last, m, more

\* Append in its two halves: a log whose active segment is full rolls over at its
\* end, provided that high is still its highest offset, and the record goes to a
\* segment with room for it.
LEMMA GoodAppendLocked ==
    ASSUME NEW recs, NEW l, GoodLog(l, recs), l.segments # <<>>,
           NEW h, h = HighestOffset(l), NEW id \in Nat, NEW len \in Nat
    PROVE  LET m == AppendLocked(l, h, id, len)
               s == AppendTarget(l, h)
               end == Last(l.segments).next
           IN  /\ end \in Nat
               /\ s.next = end /\ ~IndexMaxed(s)
               /\ GoodLog(m, recs \cup {[offset |-> end, id |-> id, len |-> len]})
               /\ m.segments # <<>>
               /\ Last(m.segments).next = end + 1
               /\ Stored(m) = Stored(l) \cup {end}
               /\ Ends(m) \subseteq Ends(l) \cup {end + 1}
<1> DEFINE end == Last(l.segments).next
           r   == Rolled(l, h)
           m   == SegmentAppend(r, id, len)
<1>1. /\ end \in Nat
      /\ Last(l.segments).base \in Nat
      /\ IsMaxed(Last(l.segments)) => Last(l.segments).base < end
  <2> DEFINE t == l.segments[Len(l.segments)]
             f == l.files[t.base]
  <2>1. /\ Last(l.segments) = t /\ t \in Segment /\ f \in File
        /\ t.base \in Nat /\ t.next \in Nat
    BY GoodShape DEF Last
  <2>2. Consistent(t, f, recs)
    BY GoodShape DEF GoodLog
  <2> HIDE DEF t, f
  <2>3. IsMaxed(t) => t.base < t.next
    BY <2>1, <2>2, MaxedHolds
  <2>. QED
    BY <2>1, <2>3
<1>2. /\ GoodLog(r, recs) /\ r.segments # <<>>
      /\ Last(r.segments).next = end
      /\ ~IndexMaxed(Last(r.segments))
      /\ Stored(r) = Stored(l) /\ Ends(r) = Ends(l)
  <2>1. CASE ~IsMaxed(Last(l.segments))
    <3>1. r = l
      BY <2>1 DEF Rolled
    <3> HIDE DEF r
    <3>. QED
      BY <2>1, <3>1 DEF IsMaxed
  <2>2. CASE IsMaxed(Last(l.segments))
    <3>1. h + 1 = end
      BY <1>1, <2>2 DEF HighestOffset
    <3>2. r = NewSegment(l, end)
      BY <2>2, <3>1 DEF Rolled
    <3> HIDE DEF r
    <3>. QED
      BY <1>1, <2>2, <3>2, GoodRollover
  <2>. QED
    BY <2>1, <2>2
<1>3. AppendLocked(l, h, id, len) = m /\ AppendTarget(l, h) = Last(r.segments)
  BY DEF AppendLocked, AppendTarget
<1> HIDE DEF r
<1>4. LET next == Last(r.segments).next
      IN  /\ GoodLog(m, recs \cup {[offset |-> next, id |-> id, len |-> len]})
          /\ m.segments # <<>>
          /\ Last(m.segments).next = next + 1
          /\ Stored(m) = Stored(r) \cup {next}
          /\ Ends(m) \subseteq Ends(r) \cup {next + 1}
  BY <1>2, GoodAppend
<1>. QED
  BY <1>1, <1>2, <1>3, <1>4

\* The flush of a store, by a read of its segment.
LEMMA GoodFlush ==
    ASSUME NEW recs, NEW l, GoodLog(l, recs), NEW i \in DOMAIN l.segments
    PROVE  LET m == FlushSegment(l, i)
           IN  /\ GoodLog(m, recs)
               /\ Len(m.segments) = Len(l.segments)
               /\ DOMAIN m.segments = DOMAIN l.segments
               /\ \A j \in DOMAIN l.segments :
                     /\ m.segments[j].base = l.segments[j].base
                     /\ m.segments[j].next = l.segments[j].next
               /\ Stored(m) = Stored(l) /\ Ends(m) = Ends(l)
<1> DEFINE s == l.segments[i]
           f == l.files[s.base]
           t == [s EXCEPT !.buf = <<>>]
           g == Flushed(f, s.buf)
           m == FlushSegment(l, i)
<1>1. s \in Segment /\ f \in File
  BY GoodShape
<1>2. Consistent(s, f, recs)
  BY DEF GoodLog
<1>3. t \in Segment /\ g \in File /\ Consistent(t, g, recs)
  BY <1>1, <1>2, FlushConsistent
<1>4. t.base = s.base /\ t.next = s.next
  BY <1>1 DEF Segment
<1>5. m = PutSegment(l, i, t, g)
  BY DEF FlushSegment
<1> HIDE DEF t, g, m
<1>6. /\ GoodLog(m, recs)
      /\ Len(m.segments) = Len(l.segments)
      /\ DOMAIN m.segments = DOMAIN l.segments
      /\ m.segments[i] = t
      /\ \A j \in DOMAIN l.segments : j # i => m.segments[j] = l.segments[j]
  <2>1. /\ i # Len(l.segments) => t.next = l.segments[i].next
        /\ t.next >= l.segments[i].next /\ t.base = l.segments[i].base
        /\ recs \subseteq recs
    BY <1>1, <1>4 DEF Segment
  <2>2. GoodLog(m, recs) /\ SameBut(m, l, i, t)
    BY <1>3, <1>5, <2>1, GoodReplace
  <2>. QED
    BY <2>2 DEF SameBut
<1>7. \A j \in DOMAIN l.segments : /\ m.segments[j].base = l.segments[j].base
                                   /\ m.segments[j].next = l.segments[j].next
  BY <1>4, <1>6
<1>8. Stored(m) = Stored(l) /\ Ends(m) = Ends(l)
  BY <1>6, <1>7, SameOffsets
<1>. QED
  BY <1>6, <1>7, <1>8 DEF m

\* Truncate drops the first d segments of l, which end at or below lowest + 1,
\* and leaves m with the others, which do not.
Drops(m, l, lowest, d) ==
    /\ m.segments \in Seq(Segment)
    /\ Len(m.segments) = Len(l.segments) - d
    /\ DOMAIN m.segments = 1 .. Len(l.segments) - d
    /\ \A i \in 1 .. Len(l.segments) - d : m.segments[i] = l.segments[d + i]
    /\ \A i \in 1 .. Len(l.segments) : i <= d <=> l.segments[i].next <= lowest + 1

\* TruncateLog drops a prefix of the segments, and their files.
LEMMA TruncateDrops ==
    ASSUME NEW recs, NEW l, GoodLog(l, recs), NEW lowest \in Nat
    PROVE  \E d \in 0 .. Len(l.segments) : Drops(TruncateLog(l, lowest), l, lowest, d)
<1> DEFINE n == Len(l.segments)
           kept == {i \in DOMAIN l.segments : ~(l.segments[i].next <= lowest + 1)}
           m == TruncateLog(l, lowest)
<1>1. /\ n \in Nat /\ DOMAIN l.segments = 1 .. n
      /\ l.segments \in Seq(Segment)
      /\ \A i \in 1 .. n : /\ l.segments[i] \in Segment
                           /\ l.segments[i].base \in Nat
                           /\ l.segments[i].next \in Nat
                           /\ l.segments[i].base <= l.segments[i].next
  BY GoodShape DEF GoodLog
<1>2. m.segments = IF kept = {} THEN <<>> ELSE SubSeq(l.segments, Min(kept), n)
  BY DEF TruncateLog
<1> HIDE DEF m
<1>3. CASE kept = {}
  <2>1. m.segments = <<>> /\ DOMAIN m.segments = {} /\ Len(m.segments) = 0
    BY <1>2, <1>3
  <2>2. n - n = 0 /\ 1 .. n - n = {} /\ n \in 0 .. n
    BY <1>1
  <2>3. \A i \in 1 .. n : l.segments[i].next <= lowest + 1 /\ i <= n
    BY <1>1, <1>3
  <2> HIDE DEF n, kept
  <2>4. Drops(m, l, lowest, n)
    BY <2>1, <2>2, <2>3, EmptySeq DEF Drops, n
  <2>. QED
    BY <2>2, <2>4 DEF m, n
<1>4. CASE kept # {}
  <2> DEFINE d == Min(kept) - 1
  <2>1. /\ Min(kept) \in kept /\ Min(kept) \in 1 .. n /\ d \in Nat
        /\ \A i \in kept : Min(kept) <= i
    <3>1. kept \in SUBSET Nat
      BY <1>1
    <3> HIDE DEF kept
    <3>2. Min(kept) \in kept /\ \A i \in kept : Min(kept) <= i
      BY <1>4, <3>1, MinIsLeast
    <3>. QED
      BY <1>1, <3>2 DEF kept
  <2>2. Min(kept) = d + 1 /\ d \in 0 .. n /\ d + 1 <= n
    BY <1>1, <2>1
  <2>3. ASSUME NEW i \in 1 .. n, Min(kept) < i PROVE i \in kept
    <3>1. l.segments[Min(kept)].next <= l.segments[i].base
      BY <1>1, <2>1, <2>3 DEF GoodLog
    <3>2. ~(l.segments[Min(kept)].next <= lowest + 1)
      BY <2>1
    <3>3. /\ l.segments[i].base \in Nat /\ l.segments[i].next \in Nat
          /\ l.segments[i].base <= l.segments[i].next
          /\ l.segments[Min(kept)].next \in Nat
      BY <1>1, <2>1
    <3>4. ~(l.segments[i].next <= lowest + 1)
      BY <3>1, <3>2, <3>3
    <3>. QED
      BY <1>1, <3>4
  <2>4. \A i \in 1 .. n : i <= d <=> l.segments[i].next <= lowest + 1
    <3>1. \A i \in 1 .. n : i \in kept <=> ~(l.segments[i].next <= lowest + 1)
      BY <1>1
    <3> HIDE DEF kept, d
    <3>2. \A i \in 1 .. n : i \in kept <=> ~(i <= d)
      BY <1>1, <2>1, <2>2, <2>3
    <3>. QED
      BY <3>1, <3>2
  <2> HIDE DEF kept, d
  <2>5. /\ m.segments \in Seq(Segment)
        /\ Len(m.segments) = n - (d + 1) + 1
        /\ \A i \in 1 .. n - (d + 1) + 1 : m.segments[i] = l.segments[d + 1 + i - 1]
    <3>1. m.segments = SubSeq(l.segments, d + 1, n)
      BY <1>2, <1>4, <2>2
    <3>2. \A i \in d + 1 .. n : l.segments[i] \in Segment
      BY <1>1, <2>1
    <3>3. d + 1 \in Int /\ n \in Int
      BY <1>1, <2>1
    <3>. QED
      BY <2>2, <3>1, <3>2, <3>3, SubSeqProperties
  <2>6. n - (d + 1) + 1 = n - d /\ \A i \in 1 .. n - d : d + 1 + i - 1 = d + i
    BY <1>1, <2>1
  <2>7. /\ m.segments \in Seq(Segment) /\ Len(m.segments) = n - d
        /\ DOMAIN m.segments = 1 .. n - d
        /\ \A i \in 1 .. n - d : m.segments[i] = l.segments[d + i]
    BY <2>5, <2>6, LenProperties
  <2> HIDE DEF n
  <2>8. Drops(m, l, lowest, d)
    BY <2>4, <2>7 DEF Drops, n
  <2>. QED
    BY <2>2, <2>8 DEF m, n
<1>. QED
  BY <1>3, <1>4

\* Truncate keeps a suffix of the segments, and their files.
LEMMA GoodTruncate ==
    ASSUME NEW recs, NEW l, GoodLog(l, recs), NEW lowest \in Nat
    PROVE  LET m == TruncateLog(l, lowest)
           IN  /\ GoodLog(m, recs)
               /\ l.segments # <<>> /\ lowest + 1 < Last(l.segments).next
                      => m.segments # <<>>
               /\ m.segments # <<>>
                      => Last(m.segments) = Last(l.segments)
<1> DEFINE n == Len(l.segments)
           kept == {i \in DOMAIN l.segments : ~(l.segments[i].next <= lowest + 1)}
           gone == {l.segments[i].base : i \in DOMAIN l.segments \ kept}
           m == TruncateLog(l, lowest)
<1>1. /\ n \in Nat /\ DOMAIN l.segments = 1 .. n
      /\ \A i \in 1 .. n : l.segments[i].next \in Nat
      /\ \A i, j \in 1 .. n :
            i # j => l.segments[i].base # l.segments[j].base
  BY GoodShape DEF GoodLog
<1>2. m.files = [b \in DOMAIN l.files \ gone |-> l.files[b]]
  BY DEF TruncateLog
<1>3. m.files \in [DOMAIN m.files -> File] /\ DOMAIN m.files = DOMAIN l.files \ gone
  BY <1>2 DEF GoodLog
<1>4. DOMAIN m.files = {l.segments[i].base : i \in kept}
  BY <1>1, <1>3 DEF GoodLog
<1>5. \A b \in DOMAIN m.files : m.files[b] = l.files[b]
  BY <1>2, <1>3
<1> HIDE DEF m, gone
<1>6. PICK d \in 0 .. n : Drops(m, l, lowest, d)
  BY TruncateDrops DEF m
<1>7. /\ m.segments \in Seq(Segment)
      /\ Len(m.segments) = n - d
      /\ DOMAIN m.segments = 1 .. n - d
      /\ \A i \in 1 .. n - d : m.segments[i] = l.segments[d + i]
      /\ \A i \in 1 .. n : i <= d <=> l.segments[i].next <= lowest + 1
  BY <1>6 DEF Drops
<1>8. kept = d + 1 .. n
  BY <1>1, <1>6, <1>7
<1> HIDE DEF kept, n
<1>9. \A i \in 1 .. n - d : d + i \in kept /\ d + i \in 1 .. n
  BY <1>1, <1>6, <1>8
<1>10. DOMAIN m.files = {m.segments[i].base : i \in DOMAIN m.segments}
  <2>1. \A k \in kept : k - d \in 1 .. n - d /\ d + (k - d) = k
    BY <1>1, <1>6, <1>8
  <2>2. \A k \in kept : m.segments[k - d] = l.segments[k]
    BY <1>7, <2>1
  <2>3. \A k \in kept : \E i \in DOMAIN m.segments :
            l.segments[k].base = m.segments[i].base
    BY <1>7, <2>1, <2>2
  <2>4. \A i \in DOMAIN m.segments : \E k \in kept :
            l.segments[k].base = m.segments[i].base
    BY <1>7, <1>9
  <2>. QED
    BY <1>4, <2>3, <2>4
<1>11. GoodLog(m, recs)
  <2>1. ASSUME NEW i \in DOMAIN m.segments
        PROVE  Consistent(m.segments[i], m.files[m.segments[i].base], recs)
    <3>1. m.segments[i] = l.segments[d + i] /\ d + i \in DOMAIN l.segments
      BY <1>1, <1>7, <1>9, <2>1
    <3>2. m.files[m.segments[i].base] = l.files[l.segments[d + i].base]
      BY <1>5, <1>10, <2>1, <3>1
    <3>. QED
      BY <3>1, <3>2 DEF GoodLog
  <2>2. ASSUME NEW i \in DOMAIN m.segments, NEW j \in DOMAIN m.segments, i < j
        PROVE  /\ m.segments[i].base < m.segments[i].next
               /\ m.segments[i].next <= m.segments[j].base
    <3>1. d + i < d + j
      BY <1>6, <1>7, <2>2
    <3>2. /\ d + i \in DOMAIN l.segments /\ d + j \in DOMAIN l.segments
          /\ m.segments[i] = l.segments[d + i]
          /\ m.segments[j] = l.segments[d + j]
      BY <1>1, <1>7, <1>9, <2>2
    <3>. QED
      BY <3>1, <3>2 DEF GoodLog
  <2>. QED
    BY <1>3, <1>7, <1>10, <2>1, <2>2 DEF GoodLog
<1>12. l.segments # <<>> /\ lowest + 1 < Last(l.segments).next => m.segments # <<>>
  <2>1. SUFFICES ASSUME l.segments # <<>>, lowest + 1 < Last(l.segments).next
                 PROVE  m.segments # <<>>
    OBVIOUS
  <2>2. n \in 1 .. n /\ Last(l.segments) = l.segments[n]
    BY <1>1, <2>1, GoodShape DEF Last, n
  <2>3. ~(n <= d)
    BY <1>1, <1>7, <2>1, <2>2
  <2>4. Len(m.segments) > 0
    BY <1>1, <1>6, <1>7, <2>3
  <2>. QED
    BY <2>4
<1>13. m.segments # <<>> => Last(m.segments) = Last(l.segments)
  <2>1. SUFFICES ASSUME m.segments # <<>> PROVE Last(m.segments) = Last(l.segments)
    OBVIOUS
  <2>2. Len(m.segments) > 0
    BY <1>7, <2>1, EmptySeq, LenProperties
  <2>3. n - d \in 1 .. n - d /\ d + (n - d) = n
    BY <1>1, <1>6, <1>7, <2>2
  <2>4. m.segments[n - d] = l.segments[n]
    BY <1>7, <2>3
  <2>. QED
    BY <1>7, <2>4 DEF Last, n
<1>. QED
  BY <1>11, <1>12, <1>13 DEF m

\* NewLog leaves one empty segment at InitialOffset.
LEMMA GoodEmpty ==
    /\ GoodLog(EmptyLog, {})
    /\ EmptyLog.segments # <<>>
    /\ Last(EmptyLog.segments).next = InitialOffset
    /\ Stored(EmptyLog) = {}
<1> DEFINE t == OpenSegment(NoFile, InitialOffset)
           m == EmptyLog
<1>1. InitialOffset \in Nat
  BY ConfigAssumption DEF ConfigAssumption
<1>2. /\ t \in Segment /\ Consistent(t, Grown(NoFile), {})
      /\ t.base = InitialOffset /\ t.next = InitialOffset
  BY <1>1, FreshConsistent
<1> HIDE DEF t
<1>3. m.segments = <<t>>
  <2>1. m.segments = Append(<<>>, t)
    BY DEF EmptyLog, NewSegment, FileOf, t
  <2>. QED
    BY <2>1
<1>4. /\ DOMAIN m.files = {InitialOffset}
      /\ m.files[InitialOffset] = Grown(NoFile)
      /\ m.files \in [DOMAIN m.files -> File]
  <2>1. m.files = [c \in {InitialOffset} |-> Grown(NoFile)]
    BY DEF EmptyLog, NewSegment, FileOf, PutFile
  <2>2. Grown(NoFile) \in File
    BY GrownType
  <2>. QED
    BY <2>1, <2>2
<1> HIDE DEF m
<1>5. /\ m.segments \in Seq(Segment) /\ m.segments # <<>>
      /\ DOMAIN m.segments = {1} /\ m.segments[1] = t
  BY <1>2, <1>3
<1>6. DOMAIN m.files = {m.segments[i].base : i \in DOMAIN m.segments}
  BY <1>2, <1>4, <1>5
<1>7. \A i \in DOMAIN m.segments :
          Consistent(m.segments[i], m.files[m.segments[i].base], {})
  BY <1>2, <1>4, <1>5
<1>8. \A i, j \in DOMAIN m.segments : ~(i < j)
  BY <1>5
<1>9. Last(m.segments).next = InitialOffset
  BY <1>2, <1>3 DEF Last
<1>10. Stored(m) = {}
  <2>1. Held(t) = {}
    BY <1>1, <1>2 DEF Held
  <2>2. \A off : off \notin Stored(m)
    BY <1>5, <2>1, InStored
  <2>. QED
    BY <2>2
<1>. QED
  BY <1>4, <1>5, <1>6, <1>7, <1>8, <1>9, <1>10 DEF GoodLog, m

\* The search finds the first of the segments that reach from at or below the
\* offset to at or above it.
LEMMA FoundIn ==
    ASSUME NEW l, l.segments \in Seq(Segment), NEW off,
           NEW i, i = FindSegment(l, off)
    PROVE  /\ i # 0 => /\ i \in DOMAIN l.segments
                       /\ l.segments[i].base <= off /\ off <= l.segments[i].next
           /\ \A j \in DOMAIN l.segments :
                 l.segments[j].base <= off /\ off <= l.segments[j].next
                     => i # 0 /\ i <= j
<1> DEFINE hits == {j \in DOMAIN l.segments :
                       l.segments[j].base <= off /\ off <= l.segments[j].next}
<1>1. hits \in SUBSET Nat /\ 0 \notin hits
  OBVIOUS
<1>2. i = IF hits = {} THEN 0 ELSE Min(hits)
  BY DEF FindSegment
<1>3. hits # {} => i \in hits /\ \A j \in hits : i <= j
  <2> HIDE DEF hits
  <2>1. hits # {} => Min(hits) \in hits /\ \A j \in hits : Min(hits) <= j
    BY <1>1, MinIsLeast
  <2>. QED
    BY <1>2, <2>1
<1>4. hits = {} => i = 0
  BY <1>2
<1>. QED
  BY <1>1, <1>3, <1>4

\* So it does in a good log.
LEMMA FoundFirst ==
    ASSUME NEW recs, NEW l, GoodLog(l, recs), NEW off,
           NEW i, i = FindSegment(l, off)
    PROVE  /\ i # 0 => /\ i \in DOMAIN l.segments
                       /\ l.segments[i].base <= off /\ off <= l.segments[i].next
           /\ \A j \in DOMAIN l.segments :
                 l.segments[j].base <= off /\ off <= l.segments[j].next
                     => i # 0 /\ i <= j
<1>1. l.segments \in Seq(Segment)
  BY GoodShape DEF GoodLog
<1>. QED
  BY <1>1, FoundIn

\* What can be read is in a segment: the search accepts the end of a segment,
\* the check behind it does not.
LEMMA ReadableStored ==
    ASSUME NEW recs, NEW l, GoodLog(l, recs), NEW off \in Nat, Readable(l, off)
    PROVE  off \in Stored(l)
<1> DEFINE i == FindSegment(l, off)
<1>1. i # 0 /\ ~(l.segments[i].next <= off)
  BY DEF Readable, ReadLog, Failure
<1>2. i \in DOMAIN l.segments /\ l.segments[i].base <= off
  BY <1>1, FoundFirst
<1> HIDE DEF i
<1>3. l.segments[i].base \in Nat /\ l.segments[i].next \in Nat
  BY <1>2, GoodShape
<1>4. off \in Held(l.segments[i])
  BY <1>1, <1>2, <1>3 DEF Held
<1>. QED
  BY <1>2, <1>4, InStored

\* A read of the log that finds a record of recs with offset off.
Finds(l, off, recs) ==
    \E r \in recs :
        /\ r.offset = off
        /\ ReadLog(l, off) = ResultOf(r)

\* The search leads to the segment with the offset unless an earlier segment ends
\* there, and then to that one.
LEMMA ReadStored ==
    ASSUME NEW recs, NEW l, GoodLog(l, recs), NEW off \in Stored(l)
    PROVE  IF off \in Ends(l) THEN ~Readable(l, off) ELSE Finds(l, off, recs)
<1> DEFINE i == FindSegment(l, off)
           s == l.segments[i]
           f == l.files[s.base]
           k == off - s.base
<1>1. off \in Nat /\ DOMAIN l.segments \subseteq Nat \ {0}
  BY StoredBelowEnd, GoodShape
<1>2. \A j \in DOMAIN l.segments :
          /\ l.segments[j].base \in Nat /\ l.segments[j].next \in Nat
          /\ l.segments[j].base <= l.segments[j].next
  BY GoodShape
<1>3. /\ i # 0 /\ i \in DOMAIN l.segments
      /\ s.base <= off /\ off <= s.next
      /\ \A j \in DOMAIN l.segments :
             l.segments[j].base <= off /\ off <= l.segments[j].next => i <= j
  <2>1. PICK h \in DOMAIN l.segments : off \in Held(l.segments[h])
    BY InStored
  <2>2. l.segments[h].base <= off /\ off <= l.segments[h].next
    BY <1>1, <1>2, <2>1 DEF Held
  <2>. QED
    BY <2>2, FoundFirst
<1> HIDE DEF i
<1>4. CASE off \in Ends(l)
  <2>1. PICK e \in DOMAIN l.segments : l.segments[e].next = off
    BY <1>4 DEF Ends
  <2>2. i <= e
    BY <1>2, <1>3, <2>1
  <2>3. i < e => s.next <= l.segments[e].base
    BY <1>3, <2>1 DEF GoodLog
  <2>4. s.next <= off
    <3>1. CASE i = e
      BY <1>2, <2>1, <3>1
    <3>2. CASE i < e
      <4>1. /\ s.next <= l.segments[e].base /\ l.segments[e].base <= off
            /\ s.next \in Nat /\ l.segments[e].base \in Nat
        BY <1>2, <1>3, <2>1, <2>3, <3>2
      <4> HIDE DEF s
      <4>. QED
        BY <1>1, <4>1
    <3>. QED
      BY <1>1, <1>3, <2>2, <3>1, <3>2
  <2>5. ReadLog(l, off) = Failure("OffsetOutOfRange")
    BY <2>4 DEF ReadLog, i
  <2>. QED
    BY <1>4, <2>5 DEF Readable, Failure
<1>5. CASE off \notin Ends(l)
  <2>1. off # s.next
    BY <1>3, <1>5 DEF Ends
  <2>2. /\ s \in Segment /\ f \in File /\ s.base \in Nat /\ s.next \in Nat
        /\ Consistent(s, f, recs)
    BY <1>3, GoodShape DEF GoodLog
  <2>3. off \in s.base .. s.next - 1 /\ ~(s.next <= off)
    BY <1>1, <1>3, <2>1, <2>2
  <2>4. ReadLog(l, off) = SegmentRead(l, s, off)
    BY <1>3, <2>3 DEF ReadLog, i
  <2>5. ~(s.isize < (k + 1) * entryWidth)
    <3>1. s.isize = entryWidth * (s.next - s.base)
      BY <2>2 DEF Consistent
    <3>. QED
      BY <2>2, <2>3, <3>1 DEF entryWidth
  <2>6. SegmentRead(l, s, off) = StoreRead(Flushed(f, s.buf).store, f.slots[k].pos)
    BY <2>5 DEF SegmentRead
  <2> HIDE DEF s, f
  <2>7. ReadsOne(s, f, off, recs)
    BY <2>2, <2>3, ReadConsistent
  <2>8. Finds(l, off, recs)
    BY <2>4, <2>6, <2>7 DEF ReadsOne, Finds
  <2>. QED
    BY <1>5, <2>8
<1>. QED
  BY <1>4, <1>5

\* A successful read, of record r.
ReadsRecord(l, off, r) ==
    /\ r.offset = off
    /\ MarshalLen(r) # 0
    /\ off \in Stored(l) /\ off \notin Ends(l)
    /\ ReadLog(l, off) = [err |-> "", rec |-> r]

\* A read of a good log that succeeds returns one of the records it was given.
LEMMA ReadGood ==
    ASSUME NEW recs, NEW l, GoodLog(l, recs), NEW off \in Nat, Readable(l, off)
    PROVE  \E r \in recs : ReadsRecord(l, off, r)
<1>1. off \in Stored(l)
  BY ReadableStored
<1>2. off \notin Ends(l) /\ Finds(l, off, recs)
  BY <1>1, ReadStored
<1>3. PICK r \in recs :
          /\ r.offset = off
          /\ ReadLog(l, off) = ResultOf(r)
  BY <1>2 DEF Finds
<1>4. MarshalLen(r) # 0
  <2>1. Failure("ZeroSize").err # ""
    BY DEF Failure
  <2>. QED
    BY <1>3, <2>1 DEF Readable, ResultOf
<1>5. ReadsRecord(l, off, r)
  BY <1>1, <1>2, <1>3, <1>4 DEF ReadsRecord, ResultOf
<1>. QED
  BY <1>5

-----------------------------------------------------------------------------
(* Induction, folds and flattened sequences.  FoldLeft and FlattenSeq of    *)
(* the community modules choose a function that satisfies a recursion; the  *)
(* lemmas show that there is one, and what it is.                           *)

\* Induction, over a set rather than a predicate: a set of naturals that holds 0
\* and the successor of each of its elements is the set of all of them.
LEMMA InductionOnNat ==
    ASSUME NEW T \in SUBSET Nat, 0 \in T, \A n \in T : n + 1 \in T
    PROVE  T = Nat
<1> DEFINE U == Nat \ T
<1>1. SUFFICES ASSUME U # {} PROVE FALSE
  OBVIOUS
<1>2. Min(U) \in U /\ \A n \in U : Min(U) <= n
  BY <1>1, MinIsLeast
<1> DEFINE m == Min(U)
<1>3. m \in Nat /\ m # 0 /\ m \notin T
  BY <1>2
<1> HIDE DEF m
<1>4. m - 1 \in Nat /\ (m - 1) + 1 = m /\ ~(m <= m - 1)
  BY <1>3
<1>5. m - 1 \in T
  BY <1>2, <1>4 DEF m
<1>. QED
  BY <1>3, <1>4, <1>5

\* FoldLeft takes the greatest index first.
LEMMA MaxIsTop ==
    ASSUME NEW n \in Nat, NEW t \in SUBSET (1 .. n), n \in t
    PROVE  Max(t) = n
<1>1. \A x \in t : n >= x
  OBVIOUS
<1>2. \A x \in t : x >= n => x = n
  OBVIOUS
<1>. QED
  BY <1>1, <1>2 DEF Max

\* The folding function of the community modules, for an operation G on W.
Folds(f, base, G, seq, n) ==
    \A t \in SUBSET (1 .. n) :
        f[t] = IF t = {} THEN base ELSE G[<<f[t \ {Max(t)}], seq[Max(t)]>>]

Foldable(W, base, G, seq, n) ==
    \E f \in [SUBSET (1 .. n) -> W] : Folds(f, base, G, seq, n)

\* Where G maps W and the elements of seq back to W, the fold over seq exists.
LEMMA FoldExists ==
    ASSUME NEW W, NEW D, NEW G \in [W \X D -> W], NEW base \in W, NEW seq,
           NEW N \in Nat, \A i \in 1 .. N : seq[i] \in D
    PROVE  Foldable(W, base, G, seq, N)
<1> DEFINE T == {n \in Nat : n <= N => Foldable(W, base, G, seq, n)}
<1>1. 0 \in T
  <2> DEFINE f == [t \in SUBSET (1 .. 0) |-> base]
  <2>1. f \in [SUBSET (1 .. 0) -> W] /\ \A t \in SUBSET (1 .. 0) : t = {} /\ f[t] = base
    OBVIOUS
  <2>2. Folds(f, base, G, seq, 0)
    BY <2>1 DEF Folds
  <2>. QED
    BY <2>1, <2>2 DEF Foldable
<1>2. ASSUME NEW n \in T PROVE n + 1 \in T
  <2> SUFFICES ASSUME n + 1 <= N
               PROVE  Foldable(W, base, G, seq, n + 1)
    OBVIOUS
  <2>0. n \in Nat /\ n <= N /\ n + 1 \in 1 .. N
    OBVIOUS
  <2>1. PICK f \in [SUBSET (1 .. n) -> W] : Folds(f, base, G, seq, n)
    BY <2>0 DEF Foldable
  <2> DEFINE rest(t) == t \ {n + 1}
             g == [t \in SUBSET (1 .. n + 1) |->
                     IF n + 1 \in t THEN G[<<f[rest(t)], seq[n + 1]>>] ELSE f[t]]
  <2>2. \A t \in SUBSET (1 .. n + 1) : rest(t) \in SUBSET (1 .. n)
    BY <2>0
  <2>3. \A t \in SUBSET (1 .. n + 1) : n + 1 \notin t => t \in SUBSET (1 .. n)
    BY <2>0
  <2>4. g \in [SUBSET (1 .. n + 1) -> W]
    <3>1. ASSUME NEW t \in SUBSET (1 .. n + 1) PROVE g[t] \in W
      <4>1. CASE n + 1 \in t
        <5>1. f[rest(t)] \in W /\ seq[n + 1] \in D
          BY <2>0, <2>2
        <5>. QED
          BY <4>1, <5>1
      <4>2. CASE n + 1 \notin t
        BY <2>3, <4>2
      <4>. QED
        BY <4>1, <4>2
    <3>. QED
      BY <3>1
  <2>5. ASSUME NEW t \in SUBSET (1 .. n + 1)
        PROVE  g[t] = IF t = {} THEN base ELSE G[<<g[t \ {Max(t)}], seq[Max(t)]>>]
    <3>1. CASE n + 1 \in t
      <4>1. Max(t) = n + 1
        BY <2>0, <3>1, MaxIsTop
      <4>2. rest(t) \in SUBSET (1 .. n + 1) /\ n + 1 \notin rest(t)
        BY <2>2
      <4>3. g[rest(t)] = f[rest(t)]
        BY <4>2
      <4>. QED
        BY <3>1, <4>1, <4>3
    <3>2. CASE n + 1 \notin t
      <4>1. t \in SUBSET (1 .. n) /\ g[t] = f[t]
        BY <2>3, <3>2
      <4>2. t \ {Max(t)} \in SUBSET (1 .. n) /\ n + 1 \notin t \ {Max(t)}
        BY <3>2, <4>1
      <4>3. g[t \ {Max(t)}] = f[t \ {Max(t)}]
        BY <4>2
      <4>4. f[t] = IF t = {} THEN base ELSE G[<<f[t \ {Max(t)}], seq[Max(t)]>>]
        BY <2>1, <4>1 DEF Folds
      <4>. QED
        BY <4>1, <4>3, <4>4
    <3>. QED
      BY <3>1, <3>2
  <2> HIDE DEF g
  <2>6. Folds(g, base, G, seq, n + 1)
    BY <2>5 DEF Folds
  <2>. QED
    BY <2>4, <2>6 DEF Foldable
<1>3. T = Nat
  <2>1. T \in SUBSET Nat /\ \A n \in T : n + 1 \in T
    BY <1>2
  <2> HIDE DEF T
  <2>. QED
    BY <1>1, <2>1, InductionOnNat
<1>. QED
  BY <1>3

\* The function that FlattenSeq recurs over, on the first n sequences.
Flattens(f, ss, n) ==
    f = [i \in 1 .. n |-> IF i = 1 THEN ss[i] ELSE f[i - 1] \o ss[i]]

\* FlattenSeq is that function at the last sequence.
LEMMA FlattenIs ==
    ASSUME NEW ss, Len(ss) # 0
    PROVE  FlattenSeq(ss) = (CHOOSE f : Flattens(f, ss, Len(ss)))[Len(ss)]
BY DEF FlattenSeq, Flattens

\* There is such a function, by induction over the number of sequences.
LEMMA FlattensExists ==
    ASSUME NEW S, NEW ss \in Seq(Seq(S)), NEW n \in 0 .. Len(ss)
    PROVE  \E f \in [1 .. n -> Seq(S)] : Flattens(f, ss, n)
<1> DEFINE N == Len(ss)
           P(m) == \E f \in [1 .. m -> Seq(S)] : Flattens(f, ss, m)
           T == {m \in Nat : m <= N => P(m)}
<1>0. N \in Nat /\ \A i \in 1 .. N : ss[i] \in Seq(S)
  OBVIOUS
<1>1. P(0)
  <2> DEFINE f == [i \in 1 .. 0 |-> <<>>]
  <2>1. f \in [1 .. 0 -> Seq(S)]
    OBVIOUS
  <2>2. Flattens(f, ss, 0)
    BY DEF Flattens
  <2>. QED
    BY <2>1, <2>2
<1>2. ASSUME NEW m \in Nat, m + 1 <= N, P(m) PROVE P(m + 1)
  <2>1. PICK f \in [1 .. m -> Seq(S)] : Flattens(f, ss, m)
    BY <1>2
  <2>2. \A i \in 1 .. m : f[i] = IF i = 1 THEN ss[i] ELSE f[i - 1] \o ss[i]
    BY <2>1 DEF Flattens
  <2> DEFINE e == IF m = 0 THEN ss[1] ELSE f[m] \o ss[m + 1]
             g == [i \in 1 .. m + 1 |-> IF i = m + 1 THEN e ELSE f[i]]
  <2>3. e \in Seq(S)
    <3>1. CASE m = 0
      BY <1>0, <1>2, <3>1
    <3>2. CASE m # 0
      <4>1. f[m] \in Seq(S) /\ ss[m + 1] \in Seq(S)
        BY <1>0, <1>2, <3>2
      <4>. QED
        BY <3>2, <4>1, ConcatProperties
    <3>. QED
      BY <3>1, <3>2
  <2> HIDE DEF e
  <2>4. g \in [1 .. m + 1 -> Seq(S)]
    BY <2>3
  <2>5. ASSUME NEW i \in 1 .. m + 1
        PROVE  g[i] = IF i = 1 THEN ss[i] ELSE g[i - 1] \o ss[i]
    <3>1. CASE i = m + 1
      <4>1. i # 1 => g[i - 1] = f[m] /\ m # 0
        BY <3>1
      <4>2. i = 1 => m = 0
        BY <3>1
      <4>. QED
        BY <3>1, <4>1, <4>2 DEF e
    <3>2. CASE i # m + 1
      <4>1. i \in 1 .. m /\ g[i] = f[i] /\ (i # 1 => g[i - 1] = f[i - 1])
        BY <3>2
      <4>. QED
        BY <2>2, <4>1
    <3>. QED
      BY <3>1, <3>2
  <2>6. g = [i \in 1 .. m + 1 |-> g[i]]
    OBVIOUS
  <2> HIDE DEF g
  <2>7. Flattens(g, ss, m + 1)
    BY <2>5, <2>6 DEF Flattens
  <2>. QED
    BY <2>4, <2>7
<1> HIDE DEF P
<1>3. T \in SUBSET Nat /\ 0 \in T
  BY <1>1
<1>4. ASSUME NEW m \in T PROVE m + 1 \in T
  <2>1. m \in Nat /\ (m + 1 <= N => m <= N)
    BY <1>0
  <2>. QED
    BY <1>2, <2>1
<1> HIDE DEF T
<1>5. T = Nat
  BY <1>3, <1>4, InductionOnNat
<1>. QED
  <2>1. n \in T /\ n <= N
    BY <1>0, <1>5
  <2>2. P(n)
    BY <2>1 DEF T
  <2>. QED
    BY <2>2 DEF P

\* What FlattenSeq returns is what any such function has at the last sequence.
LEMMA FlattenedBy ==
    ASSUME NEW S, NEW ss \in Seq(Seq(S)), ss # <<>>,
           NEW g, \A i \in 1 .. Len(ss) :
                      g[i] = IF i = 1 THEN ss[i] ELSE g[i - 1] \o ss[i]
    PROVE  FlattenSeq(ss) = g[Len(ss)]
<1> DEFINE N == Len(ss)
           f == CHOOSE h : Flattens(h, ss, N)
           T == {m \in Nat : m + 1 <= N => f[m + 1] = g[m + 1]}
<1>1. N \in Nat \ {0}
  OBVIOUS
<1>2. Flattens(f, ss, N)
  <2>1. \E h : Flattens(h, ss, N)
    <3>1. N \in 0 .. Len(ss)
      BY <1>1
    <3>2. \E h \in [1 .. N -> Seq(S)] : Flattens(h, ss, N)
      BY <3>1, FlattensExists
    <3>. QED
      BY <3>2
  <2>. QED
    BY <2>1
<1>3. FlattenSeq(ss) = f[N]
  BY <1>1, FlattenIs
<1> HIDE DEF f
<1>4. \A i \in 1 .. N : f[i] = IF i = 1 THEN ss[i] ELSE f[i - 1] \o ss[i]
  BY <1>2 DEF Flattens
<1>5. 0 \in T
  BY <1>1, <1>4
<1>6. ASSUME NEW m \in T PROVE m + 1 \in T
  <2> SUFFICES ASSUME (m + 1) + 1 <= N PROVE f[(m + 1) + 1] = g[(m + 1) + 1]
    OBVIOUS
  <2> DEFINE i == (m + 1) + 1
  <2>1. m \in Nat /\ i \in 1 .. N /\ i # 1 /\ i - 1 = m + 1 /\ m + 1 <= N
    BY <1>1
  <2>2. f[m + 1] = g[m + 1]
    BY <2>1
  <2> HIDE DEF i
  <2>3. f[i] = f[i - 1] \o ss[i] /\ g[i] = g[i - 1] \o ss[i]
    BY <1>4, <2>1
  <2>4. f[i] = g[i]
    BY <2>1, <2>2, <2>3
  <2>. QED
    BY <2>4 DEF i
<1>7. T \in SUBSET Nat
  OBVIOUS
<1> HIDE DEF T
<1>8. N - 1 \in T
  <2>1. T = Nat
    BY <1>5, <1>6, <1>7, InductionOnNat
  <2>. QED
    BY <1>1, <2>1
<1>9. f[N] = g[N]
  <2>1. N - 1 \in Nat /\ (N - 1) + 1 = N
    BY <1>1
  <2>. QED
    BY <1>1, <1>8, <2>1 DEF T
<1>. QED
  BY <1>3, <1>9

\* FlattenSeq of sequences over S is a sequence over S.
LEMMA FlattenType ==
    ASSUME NEW S, NEW ss \in Seq(Seq(S))
    PROVE  FlattenSeq(ss) \in Seq(S)
<1>1. CASE ss = <<>>
  <2>1. FlattenSeq(ss) = ss
    BY <1>1 DEF FlattenSeq
  <2>. QED
    BY <1>1, <2>1, EmptySeq
<1>2. CASE ss # <<>>
  <2>1. Len(ss) \in 1 .. Len(ss) /\ Len(ss) \in 0 .. Len(ss)
    BY <1>2
  <2>2. PICK f \in [1 .. Len(ss) -> Seq(S)] : Flattens(f, ss, Len(ss))
    BY <2>1, FlattensExists
  <2>3. \A i \in 1 .. Len(ss) : f[i] = IF i = 1 THEN ss[i] ELSE f[i - 1] \o ss[i]
    BY <2>2 DEF Flattens
  <2>4. FlattenSeq(ss) = f[Len(ss)]
    BY <1>2, <2>3, FlattenedBy
  <2>. QED
    BY <2>1, <2>4
<1>. QED
  BY <1>1, <1>2

\* Max is in the set, for the finite sets of indices that a fold goes through.
LEMMA MaxIsGreatest ==
    ASSUME NEW n \in Nat, NEW t \in SUBSET (1 .. n), t # {}
    PROVE  Max(t) \in t
<1> DEFINE U == {n - i : i \in t}
<1>1. U \in SUBSET Nat /\ U # {}
  <2>1. \A i \in t : n - i \in Nat
    OBVIOUS
  <2>2. PICK i \in t : TRUE
    OBVIOUS
  <2>3. n - i \in U
    OBVIOUS
  <2>. QED
    BY <2>1, <2>3
<1>2. PICK i \in t : n - i = Min(U)
  <2>1. Min(U) \in U
    BY <1>1, MinIsLeast
  <2>. QED
    BY <2>1
<1>3. \A j \in t : n - i <= n - j
  <2>1. \A m \in U : Min(U) <= m
    BY <1>1, MinIsLeast
  <2>. QED
    BY <1>2, <2>1
<1>4. \A j \in t : i >= j
  <2>1. i \in Nat /\ \A j \in t : j \in Nat
    OBVIOUS
  <2>. QED
    BY <1>3, <2>1
<1>. QED
  BY <1>4 DEF Max

\* A fold that starts in W and stays in it at every step ends in it.
LEMMA FoldSteps ==
    ASSUME NEW W, NEW N \in Nat, NEW h, h[1 .. 0] \in W,
           \A n \in 0 .. N - 1 : h[1 .. n] \in W => h[1 .. (n + 1)] \in W
    PROVE  \A n \in 0 .. N : h[1 .. n] \in W
<1> DEFINE T == {n \in Nat : n <= N => h[1 .. n] \in W}
<1>1. T \in SUBSET Nat /\ 0 \in T
  OBVIOUS
<1>2. ASSUME NEW n \in T PROVE n + 1 \in T
  <2>1. n + 1 <= N => n <= N /\ n \in 0 .. N - 1
    OBVIOUS
  <2>. QED
    BY <2>1
<1>3. T = Nat
  <2> HIDE DEF T
  <2>. QED
    BY <1>1, <1>2, InductionOnNat
<1>. QED
  BY <1>3

\* Every finite set of naturals can be listed in increasing order.
LEMMA SortedExists ==
    ASSUME NEW S \in SUBSET Nat, IsFiniteSet(S)
    PROVE  \E seq \in [1 .. Cardinality(S) -> S] :
               \A i, j \in 1 .. Cardinality(S) : i < j => seq[i] < seq[j]
<1> DEFINE Sorts(seq, n) == \A i, j \in 1 .. n : i < j => seq[i] < seq[j]
           P(n) == \A R \in SUBSET Nat : IsFiniteSet(R) /\ Cardinality(R) = n =>
                       \E seq \in [1 .. n -> R] : Sorts(seq, n)
           T == {n \in Nat : P(n)}
<1>1. P(0)
  <2>1. ASSUME NEW R \in SUBSET Nat PROVE \E seq \in [1 .. 0 -> R] : Sorts(seq, 0)
    <3>1. [i \in 1 .. 0 |-> 0] \in [1 .. 0 -> R] /\ Sorts([i \in 1 .. 0 |-> 0], 0)
      OBVIOUS
    <3>. QED
      BY <3>1
  <2>. QED
    BY <2>1
<1>2. ASSUME NEW n \in Nat, P(n) PROVE P(n + 1)
  <2>1. ASSUME NEW R \in SUBSET Nat, IsFiniteSet(R), Cardinality(R) = n + 1
        PROVE  \E seq \in [1 .. n + 1 -> R] : Sorts(seq, n + 1)
    <3>1. R # {}
      BY <2>1, FS_EmptySet
    <3> DEFINE x == Min(R)
               Q == R \ {x}
    <3>2. x \in R /\ \A r \in R : x <= r
      BY <3>1, MinIsLeast
    <3> HIDE DEF x
    <3>3. IsFiniteSet(Q) /\ Cardinality(Q) = n
      <4>1. Cardinality(Q) = Cardinality(R) - 1
        BY <2>1, <3>2, FS_RemoveElement
      <4>. QED
        BY <2>1, <4>1, FS_RemoveElement
    <3>4. PICK seq \in [1 .. n -> Q] : Sorts(seq, n)
      BY <1>2, <3>3
    <3>5. \A i \in 1 .. n : seq[i] \in R /\ x < seq[i]
      <4>1. \A r \in Q : r \in Nat /\ x \in Nat /\ x <= r /\ x # r
        BY <3>2
      <4>2. \A i \in 1 .. n : seq[i] \in Q
        OBVIOUS
      <4> HIDE DEF Q
      <4>3. \A i \in 1 .. n : seq[i] \in Nat /\ x \in Nat /\ x <= seq[i] /\ x # seq[i]
        BY <4>1, <4>2
      <4>4. \A i \in 1 .. n : seq[i] \in R
        BY <4>2 DEF Q
      <4>. QED
        BY <4>3, <4>4
    <3> DEFINE new == [i \in 1 .. n + 1 |-> IF i = 1 THEN x ELSE seq[i - 1]]
    <3>6. \A i \in 1 .. n + 1 : i # 1 => i - 1 \in 1 .. n /\ new[i] = seq[i - 1]
      OBVIOUS
    <3>7. new[1] = x
      OBVIOUS
    <3>8. new \in [1 .. n + 1 -> R]
      BY <3>2, <3>5
    <3> HIDE DEF new
    <3>9. ASSUME NEW i \in 1 .. n + 1, NEW j \in 1 .. n + 1, i < j PROVE new[i] < new[j]
      <4>1. j # 1 /\ new[j] = seq[j - 1] /\ j - 1 \in 1 .. n
        BY <3>6, <3>9
      <4>2. CASE i = 1
        BY <3>5, <3>7, <4>1, <4>2
      <4>3. CASE i # 1
        <5>1. i - 1 \in 1 .. n /\ new[i] = seq[i - 1] /\ i - 1 < j - 1
          BY <3>6, <3>9, <4>3
        <5>. QED
          BY <3>4, <4>1, <5>1
      <4>. QED
        BY <4>2, <4>3
    <3>. QED
      BY <3>8, <3>9
  <2>. QED
    BY <2>1
<1> HIDE DEF P
<1>3. T = Nat
  <2>1. T \in SUBSET Nat /\ 0 \in T /\ \A n \in T : n + 1 \in T
    BY <1>1, <1>2
  <2> HIDE DEF T
  <2>. QED
    BY <2>1, InductionOnNat
<1>4. Cardinality(S) \in T
  BY <1>3, FS_CardinalityType
<1>5. P(Cardinality(S))
  BY <1>4
<1>. QED
  BY <1>5 DEF P

\* Sorted is such a list.
LEMMA SortedType ==
    ASSUME NEW S \in SUBSET Nat, IsFiniteSet(S)
    PROVE  /\ Sorted(S) \in [1 .. Cardinality(S) -> S]
           /\ \A i, j \in 1 .. Cardinality(S) : i < j => Sorted(S)[i] < Sorted(S)[j]
BY SortedExists DEF Sorted

-----------------------------------------------------------------------------
(* Logs in any life of a process.  A directory that a crash left can make   *)
(* setup open segments whose counters do not fit their files, and some      *)
(* twice; what is left of a good log is a sound one.                        *)

\* What is true of a segment in every life of a process, even one that was
\* opened again and whose counters do not fit its files.
Sound(s) ==
    /\ s \in Segment /\ s.base <= s.next /\ s.isize <= MaxIndexBytes
    /\ \A k \in DOMAIN s.buf : /\ s.buf[1].pos <= s.buf[k].pos
                               /\ s.buf[k].pos <= s.size

Directory(files) ==
    /\ DOMAIN files \in SUBSET Nat /\ IsFiniteSet(DOMAIN files)
    /\ files \in [DOMAIN files -> File]

SoundLog(l) ==
    /\ Directory(l.files)
    /\ l.segments \in Seq(Segment)
    /\ \A i \in DOMAIN l.segments :
          Sound(l.segments[i]) /\ l.segments[i].base \in DOMAIN l.files

\* Some frame is in the buffer of segment i or in its store.
HasFrames(l, i) ==
    l.segments[i].buf # <<>> \/ l.files[l.segments[i].base].store # <<>>

\* A directory after one of its files was replaced or added.
LEMMA PutInDirectory ==
    ASSUME NEW files, Directory(files), NEW b \in Nat, NEW f \in File
    PROVE  /\ Directory(PutFile(files, b, f))
           /\ DOMAIN PutFile(files, b, f) = DOMAIN files \cup {b}
           /\ PutFile(files, b, f)[b] = f
           /\ \A c \in DOMAIN files : c # b => PutFile(files, b, f)[c] = files[c]
<1> DEFINE g == PutFile(files, b, f)
<1>1. /\ DOMAIN g = DOMAIN files \cup {b} /\ g[b] = f
      /\ \A c \in DOMAIN files : c # b => g[c] = files[c]
      /\ g = [c \in DOMAIN g |-> g[c]]
  BY DEF PutFile
<1> HIDE DEF g
<1>2. DOMAIN g \in SUBSET Nat /\ IsFiniteSet(DOMAIN g)
  BY <1>1, FS_AddElement DEF Directory
<1>3. \A c \in DOMAIN g : g[c] \in File
  BY <1>1 DEF Directory
<1>4. Directory(g)
  BY <1>1, <1>2, <1>3 DEF Directory
<1>. QED
  BY <1>1, <1>4 DEF g

\* A flush makes a file of a file, and loses no frame.
LEMMA FlushedType ==
    ASSUME NEW f \in File, NEW s, Sound(s)
    PROVE  /\ Flushed(f, s.buf) \in File
           /\ Flushed(f, s.buf).store = <<>> <=> f.store = <<>> /\ s.buf = <<>>
<1>1. f.store \in Seq(Frame) /\ s.buf \in Seq(Frame)
  BY DEF File, Sound, Segment
<1>2. CASE s.buf = <<>>
  BY <1>2 DEF Flushed
<1>3. CASE s.buf # <<>>
  <2> DEFINE shift == StoreBytes(f.store) - s.buf[1].pos
             moved == [i \in DOMAIN s.buf |-> [s.buf[i] EXCEPT !.pos = @ + shift]]
  <2>1. StoreBytes(f.store) \in Nat
    BY <1>1, StoreBytesType
  <2>2. Len(s.buf) \in Nat \ {0} /\ DOMAIN s.buf = 1 .. Len(s.buf)
    BY <1>1, <1>3
  <2>3. \A i \in DOMAIN s.buf : s.buf[i] \in Frame /\ s.buf[1].pos <= s.buf[i].pos
    BY <1>1 DEF Sound
  <2>4. ASSUME NEW i \in DOMAIN s.buf PROVE [s.buf[i] EXCEPT !.pos = @ + shift] \in Frame
    <3>1. /\ s.buf[i] \in Frame /\ s.buf[i].pos \in Nat /\ s.buf[1].pos \in Nat
          /\ s.buf[1].pos <= s.buf[i].pos
      BY <2>2, <2>3 DEF Frame
    <3>2. s.buf[i].pos + shift \in Nat
      BY <2>1, <3>1
    <3> HIDE DEF shift
    <3>. QED
      BY <3>1, <3>2 DEF Frame
  <2>5. moved \in Seq(Frame) /\ Len(moved) = Len(s.buf)
    <3>1. moved \in [1 .. Len(s.buf) -> Frame]
      BY <2>2, <2>4
    <3> HIDE DEF moved
    <3>. QED
      BY <2>2, <3>1
  <2>6. Flushed(f, s.buf) = [f EXCEPT !.store = f.store \o moved]
    BY <1>3 DEF Flushed
  <2> HIDE DEF moved
  <2>7. f.store \o moved \in Seq(Frame) /\ f.store \o moved # <<>>
    <3>1. /\ f.store \o moved \in Seq(Frame)
          /\ Len(f.store \o moved) = Len(f.store) + Len(moved)
      BY <1>1, <2>5, ConcatProperties
    <3>2. Len(f.store) \in Nat
      BY <1>1
    <3>. QED
      BY <2>2, <2>5, <3>1, <3>2
  <2>. QED
    BY <1>3, <2>6, <2>7 DEF File
<1>. QED
  BY <1>2, <1>3

\* newSegment makes a sound segment of any file whatever.
LEMMA OpenedSound ==
    ASSUME NEW f \in File, NEW b \in Nat
    PROVE  LET s == OpenSegment(f, b)
           IN  Sound(s) /\ s.base = b /\ s.buf = <<>>
<1> DEFINE s == OpenSegment(f, b)
<1>1. f.ilen \in 0 .. MaxIndexBytes /\ f.store \in Seq(Frame) /\ MaxIndexBytes \in Nat
  BY ConfigAssumption DEF File, ConfigAssumption
<1>2. LastRelative(f, f.ilen) \in Nat \cup {-1}
  <2>1. CASE f.ilen < entryWidth
    BY <2>1 DEF LastRelative
  <2>2. CASE ~(f.ilen < entryWidth)
    <3> DEFINE n == f.ilen \div entryWidth
    <3>1. n \in 1 .. MaxIndexBytes \div entryWidth /\ MaxIndexBytes \div entryWidth \in Nat
      BY <1>1, <2>2 DEF entryWidth
    <3> HIDE DEF n
    <3>2. n - 1 \in Slots
      BY <3>1 DEF Slots
    <3>3. f.slots[n - 1] \in Entry
      BY <3>2 DEF File
    <3>4. LastRelative(f, f.ilen) = f.slots[n - 1].off
      BY <2>2 DEF LastRelative, n
    <3>. QED
      BY <3>3, <3>4 DEF Entry
  <2>. QED
    BY <2>1, <2>2
<1>3. StoreBytes(f.store) \in Nat
  BY <1>1, StoreBytesType
<1>4. b + LastRelative(f, f.ilen) + 1 \in Nat /\ b <= b + LastRelative(f, f.ilen) + 1
  BY <1>2
<1>5. s \in Segment /\ s.base = b /\ s.buf = <<>> /\ s.isize = f.ilen /\ s.base <= s.next
  BY <1>1, <1>3, <1>4 DEF OpenSegment, Segment
<1> HIDE DEF s
<1>6. Sound(s)
  BY <1>1, <1>5 DEF Sound
<1>. QED
  BY <1>5, <1>6 DEF s

\* Opening one more base.
LEMMA NewSegmentSound ==
    ASSUME NEW l, SoundLog(l), NEW b \in Nat
    PROVE  LET m == NewSegment(l, b)
               n == Len(l.segments)
           IN  /\ SoundLog(m) /\ m = [files |-> m.files, segments |-> m.segments]
               /\ n \in Nat /\ Len(m.segments) = n + 1 /\ DOMAIN m.segments = 1 .. n + 1
               /\ \A i \in 1 .. n : m.segments[i] = l.segments[i]
               /\ \A i \in 1 .. n : HasFrames(l, i) => HasFrames(m, i)
<1> DEFINE m == NewSegment(l, b)
           n == Len(l.segments)
           f == FileOf(l.files, b)
           s == OpenSegment(f, b)
<1>1. f \in File
  BY GrownType DEF FileOf, SoundLog, Directory
<1>2. Sound(s) /\ s.base = b /\ s.buf = <<>>
  BY <1>1, OpenedSound
<1>3. Grown(f) \in File /\ Grown(f).store = f.store
  BY <1>1, GrownType
<1>4. m = [files |-> PutFile(l.files, b, Grown(f)), segments |-> Append(l.segments, s)]
  BY DEF NewSegment
<1>5. /\ Directory(m.files) /\ DOMAIN m.files = DOMAIN l.files \cup {b}
      /\ m.files[b] = Grown(f)
      /\ \A c \in DOMAIN l.files : c # b => m.files[c] = l.files[c]
  <2> DEFINE fs == l.files
             g == Grown(f)
  <2>1. m.files = PutFile(fs, b, g) /\ Directory(fs) /\ g \in File
    BY <1>3, <1>4 DEF SoundLog
  <2> HIDE DEF m, fs, g
  <2>2. Directory(PutFile(fs, b, g))
    BY <2>1, PutInDirectory
  <2>3. DOMAIN PutFile(fs, b, g) = DOMAIN fs \cup {b}
    BY DEF PutFile
  <2>4. /\ PutFile(fs, b, g)[b] = g
        /\ \A c \in DOMAIN fs : c # b => PutFile(fs, b, g)[c] = fs[c]
    BY DEF PutFile
  <2>5. DOMAIN m.files = DOMAIN fs \cup {b}
    BY <2>1, <2>3
  <2>6. m.files[b] = g /\ \A c \in DOMAIN fs : c # b => m.files[c] = fs[c]
    BY <2>1, <2>4
  <2>7. Directory(m.files)
    BY <2>1, <2>2
  <2>. QED
    BY <2>5, <2>6, <2>7 DEF fs, g
<1>6. s \in Segment /\ l.segments \in Seq(Segment) /\ m.segments = Append(l.segments, s)
  BY <1>2, <1>4 DEF Sound, SoundLog
<1>7. b \in DOMAIN l.files => f = l.files[b]
  BY DEF FileOf
<1>8. m = [files |-> m.files, segments |-> m.segments]
  BY <1>4
<1> HIDE DEF m, s, f
<1>9. /\ n \in Nat /\ m.segments \in Seq(Segment) /\ Len(m.segments) = n + 1
      /\ DOMAIN m.segments = 1 .. n + 1 /\ DOMAIN l.segments = 1 .. n
      /\ m.segments[n + 1] = s /\ \A i \in 1 .. n : m.segments[i] = l.segments[i]
  BY <1>6
<1> HIDE DEF n
<1>10. ASSUME NEW i \in 1 .. n + 1
       PROVE  Sound(m.segments[i]) /\ m.segments[i].base \in DOMAIN m.files
  <2>1. CASE i = n + 1
    BY <1>2, <1>5, <1>9, <2>1
  <2>2. CASE i # n + 1
    <3>1. i \in 1 .. n
      BY <1>9, <2>2
    <3>. QED
      BY <1>5, <1>9, <3>1 DEF SoundLog
  <2>. QED
    BY <2>1, <2>2
<1>11. SoundLog(m)
  BY <1>5, <1>9, <1>10 DEF SoundLog
<1>12. ASSUME NEW i \in 1 .. n, HasFrames(l, i) PROVE HasFrames(m, i)
  <2>1. m.segments[i] = l.segments[i] /\ l.segments[i].base \in DOMAIN l.files
    BY <1>9 DEF SoundLog
  <2>2. m.files[l.segments[i].base].store = l.files[l.segments[i].base].store
    BY <1>3, <1>5, <1>7, <2>1
  <2>. QED
    BY <1>12, <2>1, <2>2 DEF HasFrames
<1>. QED
  BY <1>8, <1>9, <1>11, <1>12 DEF m, n

\* The fields of a segment after the two halves of an append to it.
LEMMA BufferedType ==
    ASSUME NEW s \in Segment, NEW fr \in Frame
    PROVE  LET u == Buffered(s, fr)
           IN  /\ u.base = s.base /\ u.next = s.next /\ u.size = FrameEnd(fr)
               /\ u.isize = s.isize /\ u.buf = Append(s.buf, fr) /\ u \in Segment
<1>1. Append(s.buf, fr) \in Seq(Frame) /\ FrameEnd(fr) \in Nat
  BY FrameEndType, AppendProperties DEF Segment
<1>. QED
  BY <1>1 DEF Buffered, Segment

\* The fields of a segment after index.Write.
LEMMA IndexedType ==
    ASSUME NEW u \in Segment
    PROVE  LET t == Indexed(u)
           IN  /\ t.base = u.base /\ t.next = u.next + 1 /\ t.size = u.size
               /\ t.isize = u.isize + entryWidth /\ t.buf = u.buf /\ t \in Segment
<1> DEFINE v == [u EXCEPT !.isize = u.isize + entryWidth]
           t == [v EXCEPT !.next = v.next + 1]
<1>1. u.next + 1 \in Nat /\ u.isize + entryWidth \in Nat
  BY DEF Segment, entryWidth
<1>2. /\ v.base = u.base /\ v.next = u.next /\ v.size = u.size
      /\ v.isize = u.isize + entryWidth /\ v.buf = u.buf /\ v \in Segment
  BY <1>1 DEF Segment
<1>3. Indexed(u) = t
  BY <1>2 DEF Indexed
<1> HIDE DEF v
<1>4. /\ t.base = v.base /\ t.next = v.next + 1 /\ t.size = v.size
      /\ t.isize = v.isize /\ t.buf = v.buf /\ t \in Segment
  BY <1>1, <1>2 DEF Segment
<1>. QED
  BY <1>2, <1>3, <1>4

\* An operation on segment i and its file.
LEMMA PutSegmentSound ==
    ASSUME NEW l, SoundLog(l), NEW i \in DOMAIN l.segments,
           NEW t, Sound(t), t.base = l.segments[i].base, NEW g \in File,
           l.files[t.base].store # <<>> => g.store # <<>>,
           HasFrames(l, i) => t.buf # <<>> \/ g.store # <<>>
    PROVE  LET m == PutSegment(l, i, t, g)
           IN  /\ SoundLog(m) /\ m = [files |-> m.files, segments |-> m.segments]
               /\ Len(m.segments) = Len(l.segments)
               /\ DOMAIN m.segments = DOMAIN l.segments /\ m.segments[i] = t
               /\ m.files[t.base] = g
               /\ \A j \in DOMAIN l.segments : j # i => m.segments[j] = l.segments[j]
               /\ \A j \in DOMAIN l.segments : HasFrames(l, j) => HasFrames(m, j)
<1> DEFINE m == PutSegment(l, i, t, g)
<1>1. l.segments \in Seq(Segment) /\ t \in Segment /\ t.base \in DOMAIN l.files
  BY DEF SoundLog, Sound
<1>2. m = [files |-> PutFile(l.files, t.base, g), segments |-> [l.segments EXCEPT ![i] = t]]
  BY DEF PutSegment
<1>3. /\ m.files = PutFile(l.files, t.base, g)
      /\ m.segments = [l.segments EXCEPT ![i] = t]
      /\ m = [files |-> m.files, segments |-> m.segments]
  BY <1>2
<1> HIDE DEF m
<1>4. t.base \in Nat /\ Directory(l.files)
  BY <1>1 DEF SoundLog, Directory
<1>5. /\ Directory(m.files) /\ DOMAIN m.files = DOMAIN l.files
      /\ m.files[t.base] = g
      /\ \A c \in DOMAIN l.files : c # t.base => m.files[c] = l.files[c]
  <2> DEFINE fs == l.files
             c0 == t.base
  <2>1. Directory(fs) /\ c0 \in Nat /\ m.files = PutFile(fs, c0, g) /\ c0 \in DOMAIN fs
    BY <1>1, <1>3, <1>4
  <2> HIDE DEF fs, c0
  <2>2. Directory(PutFile(fs, c0, g))
    BY <2>1, PutInDirectory
  <2>3. DOMAIN PutFile(fs, c0, g) = DOMAIN fs \cup {c0}
    BY DEF PutFile
  <2>4. /\ PutFile(fs, c0, g)[c0] = g
        /\ \A c \in DOMAIN fs : c # c0 => PutFile(fs, c0, g)[c] = fs[c]
    BY DEF PutFile
  <2>5. DOMAIN m.files = DOMAIN fs
    BY <2>1, <2>3
  <2>. QED
    BY <2>1, <2>2, <2>4, <2>5 DEF fs, c0
<1>6. /\ m.segments \in Seq(Segment) /\ Len(m.segments) = Len(l.segments)
      /\ DOMAIN m.segments = DOMAIN l.segments /\ m.segments[i] = t
      /\ \A j \in DOMAIN l.segments : j # i => m.segments[j] = l.segments[j]
  BY <1>1, <1>3, ExceptSeq
<1>7. \A j \in DOMAIN l.segments :
          /\ Sound(m.segments[j]) /\ m.segments[j].base = l.segments[j].base
          /\ l.segments[j].base \in DOMAIN m.files
  BY <1>1, <1>5, <1>6 DEF SoundLog
<1>8. SoundLog(m)
  BY <1>5, <1>6, <1>7 DEF SoundLog
<1>9. ASSUME NEW j \in DOMAIN l.segments, HasFrames(l, j) PROVE HasFrames(m, j)
  <2>1. CASE j = i
    BY <1>5, <1>6, <1>9, <2>1 DEF HasFrames
  <2>2. CASE j # i
    <3>1. m.segments[j] = l.segments[j] /\ l.segments[j].base \in DOMAIN l.files
      BY <1>6, <1>7, <1>5, <2>2
    <3>2. l.files[l.segments[j].base].store # <<>> => m.files[l.segments[j].base].store # <<>>
      BY <1>5, <3>1
    <3>. QED
      BY <1>9, <3>1, <3>2 DEF HasFrames
  <2>. QED
    BY <2>1, <2>2
<1>. QED
  BY <1>3, <1>5, <1>6, <1>8, <1>9 DEF m

\* store.Append puts the frame behind all that are in the buffer.
LEMMA BufferedSound ==
    ASSUME NEW s, Sound(s), NEW id \in Nat, NEW len \in Nat
    PROVE  LET t == Buffered(s, NewFrame(s, id, len))
           IN  /\ Sound(t) /\ t.base = s.base /\ t.next = s.next /\ t.isize = s.isize
               /\ t.buf # <<>>
<1> DEFINE fr == NewFrame(s, id, len)
           t  == Buffered(s, fr)
<1>1. s \in Segment /\ s.buf \in Seq(Frame) /\ s.size \in Nat
  BY DEF Sound, Segment
<1>2. fr \in Frame /\ fr.pos = s.size
  BY <1>1 DEF NewFrame, Frame, Record, Segment
<1> HIDE DEF fr
<1>3. FrameEnd(fr) \in Nat /\ s.size <= FrameEnd(fr)
  BY <1>1, <1>2, FrameEndType DEF lenWidth
<1>4. /\ t.base = s.base /\ t.next = s.next /\ t.isize = s.isize
      /\ t.size = FrameEnd(fr) /\ t.buf = Append(s.buf, fr) /\ t \in Segment
  BY <1>1, <1>2, BufferedType
<1> HIDE DEF t
<1> DEFINE n == Len(s.buf)
<1>5. /\ n \in Nat /\ DOMAIN s.buf = 1 .. n /\ DOMAIN t.buf = 1 .. n + 1
      /\ t.buf[n + 1] = fr /\ \A k \in 1 .. n : t.buf[k] = s.buf[k]
  BY <1>1, <1>2, <1>4
<1>6. \A k \in 1 .. n : /\ s.buf[k].pos \in Nat /\ s.buf[1].pos <= s.buf[k].pos
                        /\ s.buf[k].pos <= s.size
  <2>1. \A k \in 1 .. n : s.buf[k] \in Frame
    BY <1>1, <1>5
  <2>. QED
    BY <1>5, <2>1 DEF Sound, Frame
<1> HIDE DEF n
<1>7. t.buf[1].pos \in Nat /\ t.buf[1].pos <= s.size
  <2>1. CASE n = 0
    BY <1>1, <1>2, <1>5, <2>1
  <2>2. CASE n # 0
    <3>1. 1 \in 1 .. n
      BY <1>5, <2>2
    <3>. QED
      BY <1>5, <1>6, <3>1
  <2>. QED
    BY <2>1, <2>2
<1>8. ASSUME NEW k \in 1 .. n + 1
      PROVE  t.buf[1].pos <= t.buf[k].pos /\ t.buf[k].pos <= t.size
  <2>1. CASE k = n + 1
    BY <1>1, <1>2, <1>3, <1>4, <1>5, <1>7, <2>1
  <2>2. CASE k # n + 1
    <3>1. k \in 1 .. n /\ 1 \in 1 .. n
      BY <1>5, <2>2
    <3>2. t.buf[k] = s.buf[k] /\ t.buf[1] = s.buf[1]
      BY <1>5, <3>1
    <3>. QED
      BY <1>1, <1>3, <1>4, <1>6, <3>1, <3>2
  <2>. QED
    BY <2>1, <2>2
<1>9. Sound(t)
  BY <1>4, <1>5, <1>8 DEF Sound
<1>10. t.buf # <<>>
  BY <1>1, <1>2, <1>4
<1>. QED
  BY <1>4, <1>9, <1>10 DEF t, fr

\* segment.Append on the active segment, with room or not.
LEMMA SegmentAppendSound ==
    ASSUME NEW l, SoundLog(l), l.segments # <<>>, NEW id \in Nat, NEW len \in Nat
    PROVE  LET m == SegmentAppend(l, id, len)
               n == Len(l.segments)
           IN  /\ SoundLog(m) /\ m = [files |-> m.files, segments |-> m.segments]
               /\ Len(m.segments) = n /\ DOMAIN m.segments = DOMAIN l.segments
               /\ n \in DOMAIN l.segments /\ HasFrames(m, n)
               /\ \A j \in DOMAIN l.segments :
                     /\ m.segments[j].base = l.segments[j].base
                     /\ l.segments[j].next <= m.segments[j].next
               /\ \A j \in DOMAIN l.segments : HasFrames(l, j) => HasFrames(m, j)
<1> DEFINE n == Len(l.segments)
           s == l.segments[n]
           f == l.files[s.base]
           t == Buffered(s, NewFrame(s, id, len))
           m == SegmentAppend(l, id, len)
<1>1. n \in DOMAIN l.segments
  BY DEF SoundLog
<1>2. Sound(s) /\ s.base \in DOMAIN l.files /\ f \in File
  BY <1>1 DEF SoundLog, Directory
<1>3. /\ Sound(t) /\ t.base = s.base /\ t.next = s.next /\ t.isize = s.isize
      /\ t.buf # <<>>
  BY <1>2, BufferedSound
<1>4. \A j \in DOMAIN l.segments : l.segments[j].next \in Nat
  <2>1. \A j \in DOMAIN l.segments : l.segments[j] \in Segment
    BY DEF SoundLog, Sound
  <2>. QED
    BY <2>1 DEF Segment
<1>5. CASE IndexMaxed(s)
  <2>1. m = PutSegment(l, n, t, f)
    BY <1>5 DEF SegmentAppend
  <2> HIDE DEF t, m
  <2>2. /\ SoundLog(m) /\ m = [files |-> m.files, segments |-> m.segments]
        /\ Len(m.segments) = n /\ DOMAIN m.segments = DOMAIN l.segments
        /\ m.segments[n] = t
        /\ \A j \in DOMAIN l.segments : j # n => m.segments[j] = l.segments[j]
        /\ \A j \in DOMAIN l.segments : HasFrames(l, j) => HasFrames(m, j)
    <3>1. LET q == PutSegment(l, n, t, f)
            IN  /\ SoundLog(q) /\ q = [files |-> q.files, segments |-> q.segments]
                /\ Len(q.segments) = Len(l.segments)
                /\ DOMAIN q.segments = DOMAIN l.segments /\ q.segments[n] = t
                /\ q.files[t.base] = f
                /\ \A j \in DOMAIN l.segments : j # n => q.segments[j] = l.segments[j]
                /\ \A j \in DOMAIN l.segments : HasFrames(l, j) => HasFrames(q, j)
      <4>1. /\ n \in DOMAIN l.segments /\ Sound(t) /\ t.base = l.segments[n].base
            /\ f \in File /\ (l.files[t.base].store # <<>> => f.store # <<>>)
            /\ HasFrames(l, n) => t.buf # <<>> \/ f.store # <<>>
        BY <1>1, <1>2, <1>3
      <4> HIDE DEF n, s, f
      <4>. QED
        BY <4>1, PutSegmentSound
    <3>. QED
      BY <2>1, <3>1
  <2>3. \A j \in DOMAIN l.segments : /\ m.segments[j].base = l.segments[j].base
                                     /\ l.segments[j].next <= m.segments[j].next
    BY <1>1, <1>3, <1>4, <2>2
  <2>. QED
    BY <1>1, <1>3, <2>2, <2>3 DEF HasFrames, m
<1>6. CASE ~IndexMaxed(s)
  <2> DEFINE u == Indexed(t)
             g == PutEntry(f, s)
  <2>1. m = PutSegment(l, n, u, g)
    BY <1>6 DEF SegmentAppend
  <2>2. g \in File /\ g.store = f.store
    <3>1. s \in Segment /\ s.base <= s.next
      BY <1>2 DEF Sound
    <3> DEFINE e == [off |-> s.next - s.base, pos |-> s.size]
               at == s.isize \div entryWidth
               slots == [f.slots EXCEPT ![at] = e]
    <3>2. e \in Entry
      BY <3>1 DEF Segment, Entry
    <3>3. g = [f EXCEPT !.slots = slots]
      BY DEF PutEntry
    <3> HIDE DEF s, f, g, e, at
    <3>4. f.slots \in [Slots -> Entry]
      BY <1>2 DEF File
    <3>5. slots \in [Slots -> Entry]
      BY <3>2, <3>4
    <3> HIDE DEF slots
    <3>. QED
      BY <1>2, <3>3, <3>5 DEF File
  <2>3. Sound(u) /\ u.base = s.base /\ u.next = s.next + 1 /\ u.buf # <<>>
    <3>1. t \in Segment /\ t.isize + entryWidth <= MaxIndexBytes /\ t.base <= t.next + 1
      <4>1. t \in Segment /\ t.base <= t.next /\ t.isize = s.isize
        BY <1>3 DEF Sound
      <4> HIDE DEF s, t
      <4>2. t.next \in Nat /\ t.base \in Nat /\ t.isize \in Nat
        BY <4>1 DEF Segment
      <4>3. t.isize + entryWidth <= MaxIndexBytes
        BY <1>6, <4>1, <4>2, ConfigAssumption DEF IndexMaxed, entryWidth, ConfigAssumption
      <4>. QED
        BY <4>1, <4>2, <4>3
    <3> HIDE DEF t
    <3>2. /\ u \in Segment /\ u.base = t.base /\ u.next = t.next + 1
          /\ u.isize = t.isize + entryWidth /\ u.buf = t.buf /\ u.size = t.size
      BY <3>1, IndexedType
    <3> HIDE DEF u
    <3>. QED
      BY <1>3, <3>1, <3>2 DEF Sound
  <2> HIDE DEF u, g, m
  <2>4. /\ SoundLog(m) /\ m = [files |-> m.files, segments |-> m.segments]
        /\ Len(m.segments) = n /\ DOMAIN m.segments = DOMAIN l.segments
        /\ m.segments[n] = u
        /\ \A j \in DOMAIN l.segments : j # n => m.segments[j] = l.segments[j]
        /\ \A j \in DOMAIN l.segments : HasFrames(l, j) => HasFrames(m, j)
    <3>1. LET q == PutSegment(l, n, u, g)
            IN  /\ SoundLog(q) /\ q = [files |-> q.files, segments |-> q.segments]
                /\ Len(q.segments) = Len(l.segments)
                /\ DOMAIN q.segments = DOMAIN l.segments /\ q.segments[n] = u
                /\ q.files[u.base] = g
                /\ \A j \in DOMAIN l.segments : j # n => q.segments[j] = l.segments[j]
                /\ \A j \in DOMAIN l.segments : HasFrames(l, j) => HasFrames(q, j)
      <4>1. /\ n \in DOMAIN l.segments /\ Sound(u) /\ u.base = l.segments[n].base
            /\ g \in File /\ (l.files[u.base].store # <<>> => g.store # <<>>)
            /\ HasFrames(l, n) => u.buf # <<>> \/ g.store # <<>>
        BY <1>1, <2>2, <2>3
      <4> HIDE DEF n, s, f
      <4>. QED
        BY <4>1, PutSegmentSound
    <3>. QED
      BY <2>1, <3>1
  <2>5. \A j \in DOMAIN l.segments : /\ m.segments[j].base = l.segments[j].base
                                     /\ l.segments[j].next <= m.segments[j].next
    BY <1>1, <1>4, <1>2, <2>3, <2>4
  <2>. QED
    BY <1>1, <2>3, <2>4, <2>5 DEF HasFrames, m
<1>. QED
  BY <1>5, <1>6

\* A flush of segment i: the frames go from the buffer to the store.
LEMMA FlushSegmentSound ==
    ASSUME NEW l, SoundLog(l), NEW i \in DOMAIN l.segments
    PROVE  LET m == FlushSegment(l, i)
               b == l.segments[i].base
           IN  /\ SoundLog(m) /\ m = [files |-> m.files, segments |-> m.segments]
               /\ Len(m.segments) = Len(l.segments)
               /\ DOMAIN m.segments = DOMAIN l.segments
               /\ m.segments[i].base = b /\ m.segments[i].buf = <<>>
               /\ m.files[b] \in File
               /\ HasFrames(l, i) => m.files[b].store # <<>>
               /\ \A j \in DOMAIN l.segments : HasFrames(l, j) => HasFrames(m, j)
<1> DEFINE s == l.segments[i]
           f == l.files[s.base]
           t == [s EXCEPT !.buf = <<>>]
           g == Flushed(f, s.buf)
           m == FlushSegment(l, i)
<1>1. Sound(s) /\ s \in Segment /\ s.base \in DOMAIN l.files /\ f \in File
  BY DEF SoundLog, Sound, Directory
<1>2. g \in File /\ (g.store = <<>> <=> f.store = <<>> /\ s.buf = <<>>)
  BY <1>1, FlushedType
<1>3. /\ t \in Segment /\ t.base = s.base /\ t.next = s.next /\ t.isize = s.isize
      /\ t.buf = <<>>
  BY <1>1, EmptySeq DEF Segment
<1>4. m = PutSegment(l, i, t, g)
  BY DEF FlushSegment
<1>5. HasFrames(l, i) <=> g.store # <<>>
  BY <1>2 DEF HasFrames
<1> HIDE DEF s, f, t, g, m
<1>6. Sound(t)
  BY <1>1, <1>3 DEF Sound
<1>7. t.base = l.segments[i].base /\ f = l.files[t.base]
  BY <1>3 DEF s, f
<1>8. f.store # <<>> => g.store # <<>>
  BY <1>2
<1>9. /\ SoundLog(m) /\ m = [files |-> m.files, segments |-> m.segments]
      /\ Len(m.segments) = Len(l.segments)
      /\ DOMAIN m.segments = DOMAIN l.segments /\ m.segments[i] = t
      /\ m.files[t.base] = g
      /\ \A j \in DOMAIN l.segments : HasFrames(l, j) => HasFrames(m, j)
  BY <1>2, <1>4, <1>5, <1>6, <1>7, <1>8, PutSegmentSound
<1>. QED
  BY <1>2, <1>3, <1>5, <1>7, <1>9 DEF m

\* Log.Append makes one more segment or none.
LEMMA AppendLockedSound ==
    ASSUME NEW l, SoundLog(l), l.segments # <<>>, NEW id \in Nat, NEW len \in Nat
    PROVE  LET m == AppendLocked(l, HighestOffset(l), id, len)
           IN  /\ SoundLog(m)
               /\ Len(m.segments) \in Nat \ {0}
               /\ Len(l.segments) <= Len(m.segments)
               /\ HasFrames(m, Len(m.segments))
               /\ \A j \in DOMAIN l.segments :
                     /\ m.segments[j].base = l.segments[j].base
                     /\ l.segments[j].next <= m.segments[j].next
               /\ \A j \in DOMAIN l.segments : HasFrames(l, j) => HasFrames(m, j)
               /\ Last(Rolled(l, HighestOffset(l)).segments) \in Segment
<1> DEFINE high == HighestOffset(l)
           k == Rolled(l, high)
           m == AppendLocked(l, high, id, len)
           n == Len(l.segments)
<1>1. n \in Nat \ {0} /\ DOMAIN l.segments = 1 .. n /\ l.segments[n] \in Segment
  BY DEF SoundLog
<1>2. high \in Nat
  <2>1. Last(l.segments) = l.segments[n] /\ l.segments[n].next \in Nat
    BY <1>1 DEF Last, Segment
  <2>. QED
    BY <2>1 DEF HighestOffset
<1> HIDE DEF high
<1>3. /\ SoundLog(k) /\ Len(k.segments) \in Nat \ {0} /\ n <= Len(k.segments)
      /\ \A j \in 1 .. n : k.segments[j] = l.segments[j]
      /\ \A j \in 1 .. n : HasFrames(l, j) => HasFrames(k, j)
  <2>1. CASE IsMaxed(Last(l.segments))
    <3>1. k = NewSegment(l, high + 1) /\ high + 1 \in Nat
      BY <1>2, <2>1 DEF Rolled
    <3> HIDE DEF k
    <3>2. /\ SoundLog(k) /\ Len(k.segments) = n + 1
          /\ \A j \in 1 .. n : k.segments[j] = l.segments[j]
          /\ \A j \in 1 .. n : HasFrames(l, j) => HasFrames(k, j)
      BY <3>1, NewSegmentSound
    <3>. QED
      BY <1>1, <3>2
  <2>2. CASE ~IsMaxed(Last(l.segments))
    <3>1. k = l
      BY <2>2 DEF Rolled
    <3>. QED
      BY <1>1, <3>1
  <2>. QED
    BY <2>1, <2>2
<1>4. m = SegmentAppend(k, id, len)
  BY DEF AppendLocked
<1> HIDE DEF k, m
<1>5. /\ k.segments # <<>> /\ DOMAIN k.segments = 1 .. Len(k.segments)
      /\ k.segments[Len(k.segments)] \in Segment
  BY <1>3 DEF SoundLog
<1>6. /\ SoundLog(m) /\ Len(m.segments) = Len(k.segments)
      /\ HasFrames(m, Len(k.segments))
      /\ \A j \in DOMAIN k.segments : /\ m.segments[j].base = k.segments[j].base
                                      /\ k.segments[j].next <= m.segments[j].next
      /\ \A j \in DOMAIN k.segments : HasFrames(k, j) => HasFrames(m, j)
  <2>1. LET q == SegmentAppend(k, id, len)
            c == Len(k.segments)
        IN  /\ SoundLog(q) /\ q = [files |-> q.files, segments |-> q.segments]
            /\ Len(q.segments) = c /\ DOMAIN q.segments = DOMAIN k.segments
            /\ c \in DOMAIN k.segments /\ HasFrames(q, c)
            /\ \A j \in DOMAIN k.segments :
                  /\ q.segments[j].base = k.segments[j].base
                  /\ k.segments[j].next <= q.segments[j].next
            /\ \A j \in DOMAIN k.segments : HasFrames(k, j) => HasFrames(q, j)
    BY <1>3, <1>5, SegmentAppendSound
  <2>. QED
    BY <1>4, <2>1
<1>7. \A j \in 1 .. n : j \in DOMAIN k.segments
  BY <1>1, <1>3, <1>5
<1>8. Last(k.segments) \in Segment
  BY <1>5 DEF Last
<1>. QED
  BY <1>1, <1>3, <1>6, <1>7, <1>8 DEF high, k, m

\* FlattenSeq is not empty when its last sequence is not.
LEMMA FlattenNonEmpty ==
    ASSUME NEW S, NEW ss \in Seq(Seq(S)), ss # <<>>, ss[Len(ss)] # <<>>
    PROVE  FlattenSeq(ss) # <<>>
<1> DEFINE N == Len(ss)
<1>1. N \in Nat \ {0} /\ N \in 0 .. N /\ N \in 1 .. N /\ ss[N] \in Seq(S)
  OBVIOUS
<1>2. PICK f \in [1 .. N -> Seq(S)] : Flattens(f, ss, N)
  BY <1>1, FlattensExists
<1>3. \A i \in 1 .. N : f[i] = IF i = 1 THEN ss[i] ELSE f[i - 1] \o ss[i]
  BY <1>2 DEF Flattens
<1>4. FlattenSeq(ss) = f[N]
  BY <1>3, FlattenedBy
<1> HIDE DEF N
<1>5. CASE N = 1
  BY <1>1, <1>3, <1>4, <1>5 DEF N
<1>6. CASE N # 1
  <2>1. N - 1 \in 1 .. N
    BY <1>1, <1>6
  <2>2. f[N - 1] \in Seq(S)
    BY <2>1
  <2>3. f[N] = f[N - 1] \o ss[N]
    BY <1>1, <1>3, <1>6
  <2>4. ss[N] # <<>>
    BY DEF N
  <2>5. f[N - 1] \o ss[N] # <<>>
    <3> DEFINE p == f[N - 1]
               q == ss[N]
    <3>1. p \in Seq(S) /\ q \in Seq(S) /\ q # <<>>
      BY <1>1, <2>2, <2>4
    <3> HIDE DEF p, q
    <3>2. Len(p \o q) = Len(p) + Len(q) /\ Len(p) \in Nat /\ Len(q) \in Nat \ {0}
      BY <3>1, ConcatProperties
    <3>3. p \o q # <<>>
      BY <3>2
    <3>. QED
      BY <3>3 DEF p, q
  <2>. QED
    BY <1>4, <2>3, <2>5
<1>. QED
  BY <1>5, <1>6

\* The base offsets that have files are sorted, and each is opened once or twice.
LEMMA BasesToOpenType ==
    ASSUME NEW files, Directory(files)
    PROVE  BasesToOpen(files) \in Seq(Nat) /\ BasesToOpen(files) # <<>>
<1> DEFINE n == Cardinality(DOMAIN files)
           bases == Sorted(DOMAIN files)
           Names(b) == IF files[b].indexed THEN <<b, b>> ELSE <<b>>
           names == [i \in DOMAIN bases |-> Names(bases[i])]
<1>1. n \in Nat /\ bases \in [1 .. n -> DOMAIN files] /\ DOMAIN files \in SUBSET Nat
  BY SortedType, FS_CardinalityType DEF Directory
<1> HIDE DEF n, bases
<1>2. CASE bases = <<>>
  <2>1. BasesToOpen(files) = <<InitialOffset>>
    BY <1>2 DEF BasesToOpen, bases
  <2>2. <<InitialOffset>> \in Seq(Nat) /\ <<InitialOffset>> # <<>>
    BY ConfigAssumption DEF ConfigAssumption
  <2>. QED
    BY <2>1, <2>2
<1>3. CASE bases # <<>>
  <2>1. BasesToOpen(files) = FlattenSeq(names)
    BY <1>3 DEF BasesToOpen, bases
  <2>2. n # 0
    BY <1>1, <1>3
  <2>3. \A b \in Nat : Names(b) \in Seq(Nat) /\ Len(Names(b)) \in Nat \ {0}
    OBVIOUS
  <2>4. /\ DOMAIN bases = 1 .. n
        /\ \A i \in 1 .. n : bases[i] \in Nat
    BY <1>1
  <2> HIDE DEF Names
  <2>5. names \in [1 .. n -> Seq(Nat)] /\ \A i \in 1 .. n : Len(names[i]) \in Nat \ {0}
    BY <2>3, <2>4
  <2> HIDE DEF names
  <2>6. names \in Seq(Seq(Nat)) /\ Len(names) = n /\ names # <<>>
    BY <1>1, <2>2, <2>5
  <2>7. FlattenSeq(names) \in Seq(Nat)
    BY <2>6, FlattenType
  <2>8. FlattenSeq(names) # <<>>
    BY <2>2, <2>5, <2>6, <1>1, FlattenNonEmpty
  <2>. QED
    BY <2>1, <2>7, <2>8
<1>. QED
  BY <1>2, <1>3

\* The logs that setup makes on the way, as a set.
SoundLogs ==
    {l \in [files : UNION {[B -> File] : B \in SUBSET Nat}, segments : Seq(Segment)] :
        SoundLog(l)}

\* A sound log that is a record is in that set.
LEMMA InSoundLogs ==
    ASSUME NEW l, SoundLog(l), l = [files |-> l.files, segments |-> l.segments]
    PROVE  l \in SoundLogs
<1>1. l.files \in UNION {[B -> File] : B \in SUBSET Nat} /\ l.segments \in Seq(Segment)
  BY DEF SoundLog, Directory
<1>. QED
  BY <1>1 DEF SoundLogs

\* The function over which setup's loop recurs.
Opening(l, bs) ==
    CHOOSE f : f = [t \in SUBSET DOMAIN bs |->
        IF t = {} THEN l ELSE NewSegment(f[t \ {Max(t)}], bs[Max(t)])]

\* A fold takes its elements in the order of the list.
LEMMA TakeLast ==
    ASSUME NEW N \in Nat, NEW n \in 0 .. N - 1
    PROVE  /\ n \in Nat /\ n + 1 \in 1 .. N
           /\ 1 .. (n + 1) \in SUBSET (1 .. N) /\ 1 .. (n + 1) # {}
           /\ Max(1 .. (n + 1)) = n + 1
           /\ (1 .. (n + 1)) \ {n + 1} = 1 .. n
<1>1. n \in Nat /\ n + 1 \in Nat /\ n + 1 \in 1 .. N /\ n + 1 \in 1 .. (n + 1)
  OBVIOUS
<1>2. Max(1 .. (n + 1)) = n + 1
  BY <1>1, MaxIsTop
<1>3. \A i \in 1 .. (n + 1) : i \in 1 .. N
  OBVIOUS
<1>4. (1 .. (n + 1)) \ {n + 1} = 1 .. n
  OBVIOUS
<1>. QED
  BY <1>1, <1>2, <1>3, <1>4

\* setup's loop: one more segment for each base it is given.
LEMMA OpenedAll ==
    ASSUME NEW files, Directory(files), NEW bs \in Seq(Nat), bs # <<>>
    PROVE  LET m == FoldLeft(NewSegment, [files |-> files, segments |-> <<>>], bs)
           IN  SoundLog(m) /\ m.segments # <<>>
<1> DEFINE l == [files |-> files, segments |-> <<>>]
           N == Len(bs)
           h == Opening(l, bs)
           G == [p \in SoundLogs \X Nat |-> NewSegment(p[1], p[2])]
           Opens(f) == f = [t \in SUBSET (1 .. N) |->
               IF t = {} THEN l ELSE NewSegment(f[t \ {Max(t)}], bs[Max(t)])]
<1>1. N \in Nat \ {0} /\ DOMAIN bs = 1 .. N /\ \A i \in 1 .. N : bs[i] \in Nat
  OBVIOUS
<1>2. l \in SoundLogs
  <2>1. /\ l = [files |-> l.files, segments |-> l.segments]
        /\ l.segments = <<>> /\ l.files = files
    OBVIOUS
  <2> HIDE DEF l
  <2>2. l.segments \in Seq(Segment) /\ DOMAIN l.segments = {}
    BY <2>1, EmptySeq
  <2>3. SoundLog(l)
    BY <2>1, <2>2 DEF SoundLog
  <2>. QED
    BY <2>1, <2>3, InSoundLogs
<1>3. FoldLeft(NewSegment, l, bs) = h[1 .. N]
  <2>1. FoldLeft(NewSegment, l, bs) = h[DOMAIN bs]
    BY DEF FoldLeft, MapThenFoldSet, Opening
  <2>. QED
    BY <1>1, <2>1
<1>4. h = CHOOSE f : Opens(f)
  BY <1>1 DEF Opening
<1> HIDE DEF l, N, h
<1>5. \A k \in SoundLogs, b \in Nat :
          NewSegment(k, b) \in SoundLogs /\ NewSegment(k, b).segments # <<>>
  <2>1. ASSUME NEW k \in SoundLogs, NEW b \in Nat
        PROVE  NewSegment(k, b) \in SoundLogs /\ NewSegment(k, b).segments # <<>>
    <3> DEFINE m == NewSegment(k, b)
               n == Len(k.segments)
    <3>1. SoundLog(k)
      BY DEF SoundLogs
    <3>2. /\ SoundLog(m) /\ m = [files |-> m.files, segments |-> m.segments]
          /\ n \in Nat /\ Len(m.segments) = n + 1
      BY <3>1, NewSegmentSound
    <3> HIDE DEF m, n
    <3>3. m \in SoundLogs
      BY <3>2, InSoundLogs
    <3>4. m.segments # <<>>
      <4>1. n + 1 # 0
        BY <3>2
      <4>. QED
        BY <3>2, <4>1
    <3>. QED
      BY <3>3, <3>4 DEF m
  <2>. QED
    BY <2>1
<1>6. \E f : Opens(f)
  <2>1. G \in [SoundLogs \X Nat -> SoundLogs]
    BY <1>5
  <2>2. \A k \in SoundLogs, b \in Nat : G[<<k, b>>] = NewSegment(k, b)
    OBVIOUS
  <2> HIDE DEF G
  <2>3. Foldable(SoundLogs, l, G, bs, N)
    BY <1>1, <1>2, <2>1, FoldExists
  <2>4. PICK f \in [SUBSET (1 .. N) -> SoundLogs] : Folds(f, l, G, bs, N)
    BY <2>3 DEF Foldable
  <2>5. ASSUME NEW t \in SUBSET (1 .. N)
        PROVE  f[t] = IF t = {} THEN l ELSE NewSegment(f[t \ {Max(t)}], bs[Max(t)])
    <3>1. CASE t = {}
      BY <2>4, <3>1 DEF Folds
    <3>2. CASE t # {}
      <4>1. Max(t) \in t
        BY <1>1, <3>2, MaxIsGreatest
      <4>2. f[t \ {Max(t)}] \in SoundLogs /\ bs[Max(t)] \in Nat
        BY <1>1, <4>1
      <4>3. f[t] = G[<<f[t \ {Max(t)}], bs[Max(t)]>>]
        BY <2>4, <3>2 DEF Folds
      <4>. QED
        BY <2>2, <3>2, <4>2, <4>3
    <3>. QED
      BY <3>1, <3>2
  <2>6. f = [t \in SUBSET (1 .. N) |-> f[t]]
    OBVIOUS
  <2>7. Opens(f)
    BY <2>5, <2>6
  <2>. QED
    BY <2>7
<1>7. \A t \in SUBSET (1 .. N) :
          h[t] = IF t = {} THEN l ELSE NewSegment(h[t \ {Max(t)}], bs[Max(t)])
  <2>1. Opens(h)
    BY <1>4, <1>6
  <2>. QED
    BY <2>1
<1>8. ASSUME NEW n \in 0 .. N - 1
      PROVE  h[1 .. (n + 1)] = NewSegment(h[1 .. n], bs[n + 1]) /\ n + 1 \in 1 .. N
  <2>1. n \in Nat /\ 1 .. (n + 1) \in SUBSET (1 .. N) /\ 1 .. (n + 1) # {} /\ n + 1 \in 1 .. N
    BY <1>1, TakeLast
  <2>2. Max(1 .. (n + 1)) = n + 1 /\ (1 .. (n + 1)) \ {n + 1} = 1 .. n
    BY <1>1, TakeLast
  <2>. QED
    BY <1>7, <2>1, <2>2
<1>9. h[1 .. 0] \in SoundLogs
  <2>1. 1 .. 0 = {} /\ {} \in SUBSET (1 .. N)
    OBVIOUS
  <2>. QED
    BY <1>2, <1>7, <2>1
<1>10. \A n \in 0 .. N : h[1 .. n] \in SoundLogs
  <2>1. \A n \in 0 .. N - 1 : h[1 .. n] \in SoundLogs => h[1 .. (n + 1)] \in SoundLogs
    BY <1>1, <1>5, <1>8
  <2>. QED
    BY <1>1, <1>9, <2>1, FoldSteps
<1>11. h[1 .. N] \in SoundLogs /\ h[1 .. N].segments # <<>>
  <2>1. N - 1 \in 0 .. N - 1 /\ N - 1 \in 0 .. N /\ (N - 1) + 1 = N /\ N \in 0 .. N
    BY <1>1
  <2>2. h[1 .. N] = NewSegment(h[1 .. (N - 1)], bs[N]) /\ N \in 1 .. N
    BY <1>8, <2>1
  <2>3. h[1 .. (N - 1)] \in SoundLogs /\ h[1 .. N] \in SoundLogs
    BY <1>10, <2>1
  <2>. QED
    BY <1>1, <1>5, <2>2, <2>3
<1>12. SoundLog(h[1 .. N])
  BY <1>11 DEF SoundLogs
<1>. QED
  BY <1>3, <1>11, <1>12 DEF l

\* setup on any directory.
LEMMA ReopenedSound ==
    ASSUME NEW files, Directory(files)
    PROVE  SoundLog(Reopened(files)) /\ Reopened(files).segments # <<>>
BY BasesToOpenType, OpenedAll DEF Reopened

\* The log of a new server has one segment and nothing in it.
LEMMA EmptyIsSound == SoundLog(EmptyLog) /\ EmptyLog.segments # <<>>
<1> DEFINE l == [files |-> [b \in {} |-> NoFile], segments |-> <<>>]
<1>1. Directory(l.files)
  BY FS_EmptySet DEF Directory
<1>2. l.segments \in Seq(Segment) /\ DOMAIN l.segments = {}
  BY EmptySeq
<1>3. SoundLog(l)
  <2> HIDE DEF l
  <2>. QED
    BY <1>1, <1>2 DEF SoundLog
<1>4. InitialOffset \in Nat
  BY ConfigAssumption DEF ConfigAssumption
<1> HIDE DEF l
<1>5. LET m == NewSegment(l, InitialOffset)
          n == Len(l.segments)
      IN  SoundLog(m) /\ n \in Nat /\ Len(m.segments) = n + 1
  BY <1>3, <1>4, NewSegmentSound
<1>6. SoundLog(EmptyLog) /\ Len(EmptyLog.segments) \in Nat \ {0}
  BY <1>5 DEF EmptyLog, l
<1>. QED
  BY <1>6

-----------------------------------------------------------------------------
(* Closing.                                                                 *)

\* The index file as Close leaves it: cut behind the entries counted.
Cut(f, s) ==
    [f EXCEPT !.slots = [k \in Slots |-> IF k < s.isize \div entryWidth
                                         THEN f.slots[k] ELSE NoEntry],
              !.ilen  = s.isize]

\* Cutting a file leaves it a file, with the same frames.
LEMMA CutType ==
    ASSUME NEW f \in File, NEW s, Sound(s)
    PROVE  /\ Cut(f, s) \in File
           /\ Cut(f, s).store = f.store
           /\ Cut(f, s).slots = [k \in Slots |-> IF k < s.isize \div entryWidth
                                                 THEN f.slots[k] ELSE NoEntry]
<1> DEFINE z == [k \in Slots |-> IF k < s.isize \div entryWidth
                                 THEN f.slots[k] ELSE NoEntry]
<1>1. s.isize \in 0 .. MaxIndexBytes
  BY DEF Sound, Segment
<1>2. z \in [Slots -> Entry]
  <2>1. NoEntry \in Entry /\ f.slots \in [Slots -> Entry]
    BY DEF NoEntry, Entry, File
  <2>. QED
    BY <2>1
<1>3. Cut(f, s) = [f EXCEPT !.slots = z, !.ilen = s.isize]
  BY DEF Cut
<1> HIDE DEF z
<1>4. Cut(f, s) \in File /\ Cut(f, s).store = f.store /\ Cut(f, s).slots = z
  BY <1>1, <1>2, <1>3 DEF File
<1>. QED
  BY <1>4 DEF z

\* Closing a segment rewrites its own file.
LEMMA CloseSegmentSound ==
    ASSUME NEW l, SoundLog(l), NEW i \in DOMAIN l.segments
    PROVE  LET m == CloseSegment(l, i)
           IN  /\ SoundLog(m) /\ m = [files |-> m.files, segments |-> m.segments]
               /\ Len(m.segments) = Len(l.segments)
               /\ DOMAIN m.segments = DOMAIN l.segments
<1> DEFINE s == l.segments[i]
           f == l.files[s.base]
           c == Cut(f, s)
           t == [s EXCEPT !.buf = <<>>]
           g == Flushed(c, s.buf)
           m == CloseSegment(l, i)
<1>1. Sound(s) /\ s \in Segment /\ f \in File
  BY DEF SoundLog, Sound, Directory
<1>2. m = PutSegment(l, i, t, g)
  BY DEF CloseSegment, Cut
<1>3. t \in Segment /\ t.base = s.base /\ t.next = s.next /\ t.isize = s.isize /\ t.buf = <<>>
  BY <1>1, EmptySeq DEF Segment
<1>4. HasFrames(l, i) <=> s.buf # <<>> \/ f.store # <<>>
  BY DEF HasFrames
<1>5. t.base = l.segments[i].base /\ f = l.files[t.base]
  BY <1>3
<1> HIDE DEF s, f
<1>6. c \in File /\ c.store = f.store
  BY <1>1, CutType
<1> HIDE DEF c
<1>7. g \in File /\ (g.store = <<>> <=> c.store = <<>> /\ s.buf = <<>>)
  BY <1>1, <1>6, FlushedType
<1> HIDE DEF t, g, m
<1>8. Sound(t)
  BY <1>1, <1>3 DEF Sound
<1>9. f.store # <<>> => g.store # <<>>
  BY <1>6, <1>7
<1>10. HasFrames(l, i) => t.buf # <<>> \/ g.store # <<>>
  BY <1>4, <1>6, <1>7
<1>11. /\ SoundLog(m) /\ m = [files |-> m.files, segments |-> m.segments]
       /\ Len(m.segments) = Len(l.segments)
       /\ DOMAIN m.segments = DOMAIN l.segments
  BY <1>2, <1>5, <1>7, <1>8, <1>9, <1>10, PutSegmentSound
<1>. QED
  BY <1>11 DEF m

\* The function over which Close's loop recurs.
Closing(l, places) ==
    CHOOSE f : f = [t \in SUBSET DOMAIN places |->
        IF t = {} THEN l ELSE CloseSegment(f[t \ {Max(t)}], places[Max(t)])]

\* h gives what Close has made of l when it has come to each segment up to n.
ClosesUpTo(h, l, n) ==
    /\ h[1 .. 0] = l
    /\ \A k \in 0 .. n - 1 : h[1 .. (k + 1)] = CloseSegment(h[1 .. k], k + 1)
    /\ h[1 .. n] = ClosedLog(l, n)

\* Close takes the segments one after the other.
LEMMA ClosedStepByStep ==
    ASSUME NEW l, SoundLog(l), NEW n \in 0 .. Len(l.segments)
    PROVE  \E h : ClosesUpTo(h, l, n)
<1> DEFINE places == [i \in 1 .. n |-> i]
           N == Len(l.segments)
           W == {m \in SoundLogs \cup {l} : SoundLog(m) /\ DOMAIN m.segments = 1 .. N}
           D == 1 .. n
           h == Closing(l, places)
           G == [p \in W \X D |-> CloseSegment(p[1], p[2])]
           Closes(f) == f = [t \in SUBSET (1 .. n) |->
               IF t = {} THEN l ELSE CloseSegment(f[t \ {Max(t)}], places[Max(t)])]
<1>1. /\ N \in Nat /\ n \in Nat /\ n <= N /\ DOMAIN l.segments = 1 .. N
      /\ DOMAIN places = 1 .. n /\ \A i \in 1 .. n : places[i] = i
  BY LenProperties DEF SoundLog
<1>2. l \in W
  BY <1>1
<1>3. ClosedLog(l, n) = h[1 .. n]
  <2>1. ClosedLog(l, n) = FoldLeft(CloseSegment, l, places)
    BY DEF ClosedLog
  <2>2. FoldLeft(CloseSegment, l, places) = h[DOMAIN places]
    <3> HIDE DEF places
    <3>. QED
      BY DEF FoldLeft, MapThenFoldSet, Closing
  <2>. QED
    BY <1>1, <2>1, <2>2
<1>4. h = CHOOSE f : Closes(f)
  BY <1>1 DEF Closing
<1> HIDE DEF places, N, h
<1>5. \A k \in W, i \in D : CloseSegment(k, i) \in W
  <2>1. ASSUME NEW k \in W, NEW i \in D PROVE CloseSegment(k, i) \in W
    <3> DEFINE m == CloseSegment(k, i)
    <3>1. SoundLog(k) /\ i \in DOMAIN k.segments /\ DOMAIN k.segments = 1 .. N
      BY <1>1
    <3>2. /\ SoundLog(m) /\ m = [files |-> m.files, segments |-> m.segments]
          /\ DOMAIN m.segments = DOMAIN k.segments
      BY <3>1, CloseSegmentSound
    <3> HIDE DEF m
    <3>3. m \in SoundLogs
      BY <3>2, InSoundLogs
    <3>4. m \in W
      BY <3>1, <3>2, <3>3
    <3>. QED
      BY <3>4 DEF m
  <2>. QED
    BY <2>1
<1> HIDE DEF W
<1>6. \E f : Closes(f)
  <2>1. G \in [W \X D -> W]
    BY <1>5
  <2>2. \A k \in W, i \in D : G[<<k, i>>] = CloseSegment(k, i)
    OBVIOUS
  <2> HIDE DEF G
  <2>3. Foldable(W, l, G, places, n)
    BY <1>1, <1>2, <2>1, FoldExists
  <2>4. PICK f \in [SUBSET (1 .. n) -> W] : Folds(f, l, G, places, n)
    BY <2>3 DEF Foldable
  <2>5. ASSUME NEW t \in SUBSET (1 .. n)
        PROVE  f[t] = IF t = {} THEN l ELSE CloseSegment(f[t \ {Max(t)}], places[Max(t)])
    <3>1. CASE t = {}
      BY <2>4, <3>1 DEF Folds
    <3>2. CASE t # {}
      <4>1. Max(t) \in t
        BY <1>1, <3>2, MaxIsGreatest
      <4>2. f[t \ {Max(t)}] \in W /\ places[Max(t)] \in D
        BY <1>1, <4>1
      <4>3. f[t] = G[<<f[t \ {Max(t)}], places[Max(t)]>>]
        BY <2>4, <3>2 DEF Folds
      <4>. QED
        BY <2>2, <3>2, <4>2, <4>3
    <3>. QED
      BY <3>1, <3>2
  <2>6. f = [t \in SUBSET (1 .. n) |-> f[t]]
    OBVIOUS
  <2>7. Closes(f)
    BY <2>5, <2>6
  <2>. QED
    BY <2>7
<1>7. \A t \in SUBSET (1 .. n) :
          h[t] = IF t = {} THEN l ELSE CloseSegment(h[t \ {Max(t)}], places[Max(t)])
  <2>1. Closes(h)
    BY <1>4, <1>6
  <2>. QED
    BY <2>1
<1>8. ASSUME NEW k \in 0 .. n - 1
      PROVE  h[1 .. (k + 1)] = CloseSegment(h[1 .. k], k + 1)
  <2>1. k + 1 \in 1 .. n /\ 1 .. (k + 1) \in SUBSET (1 .. n) /\ 1 .. (k + 1) # {}
    BY <1>1, TakeLast
  <2>2. Max(1 .. (k + 1)) = k + 1 /\ (1 .. (k + 1)) \ {k + 1} = 1 .. k
    BY <1>1, TakeLast
  <2>3. places[k + 1] = k + 1
    BY <1>1, <2>1
  <2>. QED
    BY <1>7, <2>1, <2>2, <2>3
<1>9. h[1 .. 0] = l
  <2>1. 1 .. 0 = {} /\ {} \in SUBSET (1 .. n)
    OBVIOUS
  <2>. QED
    BY <1>7, <2>1
<1>10. ClosesUpTo(h, l, n)
  BY <1>3, <1>8, <1>9 DEF ClosesUpTo
<1>. QED
  BY <1>10

\* Close leaves a directory, however far it comes.
LEMMA ClosedSound ==
    ASSUME NEW l, SoundLog(l), NEW n \in 0 .. Len(l.segments)
    PROVE  SoundLog(ClosedLog(l, n)) /\ DOMAIN ClosedLog(l, n).segments = DOMAIN l.segments
<1> DEFINE N == Len(l.segments)
           W == {m \in SoundLogs \cup {l} : SoundLog(m) /\ DOMAIN m.segments = 1 .. N}
<1>1. N \in Nat /\ n \in Nat /\ n <= N /\ DOMAIN l.segments = 1 .. N
  BY LenProperties DEF SoundLog
<1>2. PICK h : ClosesUpTo(h, l, n)
  BY ClosedStepByStep
<1>3. h[1 .. 0] \in W
  BY <1>1, <1>2 DEF ClosesUpTo
<1> HIDE DEF N
<1>4. \A k \in 0 .. n - 1 : h[1 .. k] \in W => h[1 .. (k + 1)] \in W
  <2>1. ASSUME NEW k \in 0 .. n - 1, h[1 .. k] \in W PROVE h[1 .. (k + 1)] \in W
    <3> DEFINE p == h[1 .. k]
               q == CloseSegment(p, k + 1)
    <3>1. SoundLog(p) /\ DOMAIN p.segments = 1 .. N
      BY <2>1
    <3> HIDE DEF p
    <3>2. k + 1 \in DOMAIN p.segments
      BY <1>1, <3>1
    <3>3. /\ SoundLog(q) /\ q = [files |-> q.files, segments |-> q.segments]
          /\ DOMAIN q.segments = DOMAIN p.segments
      BY <3>1, <3>2, CloseSegmentSound
    <3> HIDE DEF q
    <3>4. q \in SoundLogs
      BY <3>3, InSoundLogs
    <3>5. q \in W
      BY <3>1, <3>3, <3>4
    <3>6. h[1 .. (k + 1)] = q
      BY <1>2 DEF ClosesUpTo, p, q
    <3> HIDE DEF W
    <3>. QED
      BY <3>5, <3>6
  <2>. QED
    BY <2>1
<1> HIDE DEF W
<1>5. h[1 .. n] \in W
  <2>1. \A k \in 0 .. n : h[1 .. k] \in W
    BY <1>1, <1>3, <1>4, FoldSteps
  <2>. QED
    BY <1>1, <2>1
<1>6. ClosedLog(l, n) \in W
  BY <1>2, <1>5 DEF ClosesUpTo
<1>. QED
  BY <1>1, <1>6 DEF W

\* The files that Close leaves are a directory that setup can open.
LEMMA ClosedDirectory ==
    ASSUME NEW l, SoundLog(l)
    PROVE  Directory(ClosedFiles(l))
<1>1. Len(l.segments) \in 0 .. Len(l.segments)
  BY LenProperties DEF SoundLog
<1>2. SoundLog(ClosedLog(l, Len(l.segments)))
  BY <1>1, ClosedSound
<1>. QED
  BY <1>2 DEF SoundLog, ClosedFiles

\* The files that a crash inside newSegment leaves.
LEMMA StubType == Stubs \subseteq File
<1>1. NoFile \in File
  BY GrownType
<1>2. ASSUME NEW k \in {0, MaxIndexBytes}
      PROVE  [NoFile EXCEPT !.indexed = TRUE, !.ilen = k] \in File
  <2>1. PICK f : f = [NoFile EXCEPT !.indexed = TRUE]
    OBVIOUS
  <2>2. f \in File
    BY ONLY <1>1, <2>1 DEF File
  <2>3. k \in 0 .. MaxIndexBytes
    BY ConfigAssumption DEF ConfigAssumption
  <2>4. [f EXCEPT !.ilen = k] \in File
    BY ONLY <2>2, <2>3 DEF File
  <2>. QED
    BY <2>1, <2>4
<1>. QED
  BY <1>1, <1>2 DEF Stubs

\* A file with half an entry is a file.
LEMMA TornType ==
    ASSUME NEW f \in File, NEW s, Sound(s)
    PROVE  TornEntry(f, s) \in File
<1> DEFINE e  == [off |-> s.next - s.base, pos |-> f.slots[s.isize \div entryWidth].pos]
           at == s.isize \div entryWidth
<1>1. s.next - s.base \in Nat
  BY DEF Sound, Segment
<1>2. f.slots \in [Slots -> Entry]
  BY DEF File
<1>3. at \in Slots => e \in Entry
  <2>1. at \in Slots => f.slots[at].pos \in Nat
    BY <1>2 DEF Entry
  <2>. QED
    BY <1>1, <2>1 DEF Entry
<1>4. TornEntry(f, s) = [f EXCEPT !.slots = [f.slots EXCEPT ![at] = e]]
  BY DEF TornEntry
<1> HIDE DEF e, at
<1>5. [f.slots EXCEPT ![at] = e] \in [Slots -> Entry]
  BY <1>2, <1>3
<1>6. PICK sl : sl = [f.slots EXCEPT ![at] = e]
  OBVIOUS
<1>7. sl \in [Slots -> Entry] /\ TornEntry(f, s) = [f EXCEPT !.slots = sl]
  BY <1>4, <1>5, <1>6
<1>. QED
  BY ONLY <1>7, f \in File DEF File

\* A crash inside an append leaves a directory that setup can open.
LEMMA CutDirectory ==
    ASSUME NEW l, SoundLog(l), l.segments # <<>>, NEW files \in CutAppends(l)
    PROVE  Directory(files) /\ DOMAIN l.files \subseteq DOMAIN files
<1> DEFINE n == Len(l.segments)
           s == l.segments[n]
           b == HighestOffset(l) + 1
<1>1. n \in DOMAIN l.segments /\ Last(l.segments) = s
  BY DEF SoundLog, Last
<1>2. Sound(s) /\ s.base \in DOMAIN l.files /\ Directory(l.files)
  BY <1>1 DEF SoundLog
<1>3. s.base \in Nat /\ s.next \in Nat /\ l.files[s.base] \in File
  BY <1>2 DEF Sound, Segment, Directory
<1>4. b \in Nat
  BY <1>1, <1>3 DEF HighestOffset
<1> HIDE DEF n, s, b
<1>5. CASE files = TornFiles(l)
  <2>1. PICK g, c : g = TornEntry(l.files[s.base], s) /\ c = s.base
    OBVIOUS
  <2>2. files = PutFile(l.files, c, g)
    BY <1>1, <1>5, <2>1 DEF TornFiles
  <2>3. g \in File /\ c \in Nat
    BY <1>2, <1>3, <2>1, TornType
  <2>4. Directory(PutFile(l.files, c, g)) /\ DOMAIN PutFile(l.files, c, g) = DOMAIN l.files \cup {c}
    BY <1>2, <2>3, PutInDirectory
  <2>. QED
    BY <2>2, <2>4
<1>6. CASE files \in Interrupted(l.files, b)
  <2>1. PICK f \in Stubs : files = PutFile(l.files, b, f)
    BY <1>6 DEF Interrupted
  <2>2. /\ Directory(PutFile(l.files, b, f))
        /\ DOMAIN PutFile(l.files, b, f) = DOMAIN l.files \cup {b}
    BY <1>2, <1>4, StubType, PutInDirectory
  <2>. QED
    BY <2>1, <2>2
<1>. QED
  BY <1>5, <1>6 DEF CutAppends, b

\* Closing a segment of a good log loses nothing: the entries it counts are those
\* that it has, and the frames in its buffer go to its store.
LEMMA GoodClose ==
    ASSUME NEW recs, NEW l, GoodLog(l, recs), SoundLog(l), NEW i \in DOMAIN l.segments
    PROVE  LET m == CloseSegment(l, i)
               f == m.files[l.segments[i].base]
           IN  /\ GoodLog(m, recs)
               /\ DOMAIN m.segments = DOMAIN l.segments
               /\ \A j \in DOMAIN l.segments :
                     /\ m.segments[j].base = l.segments[j].base
                     /\ m.segments[j].next = l.segments[j].next
               /\ Len(f.store) = l.segments[i].next - l.segments[i].base
               /\ \A j \in DOMAIN l.segments : j # i =>
                     m.files[l.segments[j].base] = l.files[l.segments[j].base]
<1> DEFINE s == l.segments[i]
           f == l.files[s.base]
           c == Cut(f, s)
           t == [s EXCEPT !.buf = <<>>]
           g == Flushed(c, s.buf)
           m == CloseSegment(l, i)
<1>1. Sound(s) /\ s \in Segment /\ f \in File /\ Consistent(s, f, recs)
  BY DEF SoundLog, Sound, Directory, GoodLog
<1>2. m = PutSegment(l, i, t, g)
  BY DEF CloseSegment, Cut
<1>3. /\ t.base = l.segments[i].base
      /\ i # Len(l.segments) => t.next = l.segments[i].next
      /\ t.next >= l.segments[i].next
      /\ t.next = l.segments[i].next
      /\ t.base = s.base
  BY <1>1 DEF Segment
<1> HIDE DEF f, s
<1>4. /\ c \in File /\ c.store = f.store
      /\ c.slots = [k \in Slots |-> IF k < s.isize \div entryWidth
                                    THEN f.slots[k] ELSE NoEntry]
  BY <1>1, CutType
<1>5. s.isize = entryWidth * (s.next - s.base) /\ s.next \in Nat /\ s.base \in Nat
      /\ s.base <= s.next /\ s.isize <= MaxIndexBytes
  BY <1>1 DEF Consistent, Segment
<1>6. s.isize \div entryWidth = s.next - s.base
  <2>1. entryWidth = 12
    BY DEF entryWidth
  <2>. QED
    BY <1>5, <2>1
<1>7. /\ s.next - s.base \in Nat
      /\ DOMAIN (f.store \o s.buf) = 1 .. s.next - s.base
      /\ Len(f.store \o s.buf) = s.next - s.base
  BY <1>1, FramesOf
<1>8. \A k \in 1 .. s.next - s.base : k - 1 \in Slots /\ c.slots[k - 1] = f.slots[k - 1]
  <2>1. \A n \in Nat : \A k \in 1 .. n : 12 * n <= MaxIndexBytes =>
            k - 1 \in 0 .. (MaxIndexBytes \div 12) - 1 /\ k - 1 < n
    BY ConfigAssumption DEF ConfigAssumption
  <2>2. \A k \in 1 .. s.next - s.base : k - 1 \in Slots /\ k - 1 < s.next - s.base
    BY <1>5, <1>7, <2>1 DEF Slots, entryWidth
  <2> HIDE DEF c
  <2>. QED
    BY <1>4, <1>6, <2>2
<1> HIDE DEF c
<1>9. Consistent(s, c, recs)
  <2> DEFINE frames == f.store \o s.buf
  <2>1. c.store \o s.buf = frames
    BY <1>4
  <2>2. /\ s.base <= s.next /\ s.isize = entryWidth * (s.next - s.base)
        /\ s.isize <= MaxIndexBytes /\ Len(frames) = s.next - s.base
        /\ s.size = StoreBytes(frames)
        /\ \A k \in DOMAIN frames :
              /\ frames[k].pos = IF k = 1 THEN 0 ELSE FrameEnd(frames[k - 1])
              /\ \A j \in 1 .. k - 1 : FrameEnd(frames[j]) <= frames[k].pos
              /\ frames[k].rec \in recs
              /\ frames[k].rec.offset = s.base + k - 1
              /\ f.slots[k - 1] = [off |-> k - 1, pos |-> frames[k].pos]
    BY <1>1 DEF Consistent
  <2> HIDE DEF frames
  <2>3. \A k \in DOMAIN frames : c.slots[k - 1] = f.slots[k - 1]
    BY <1>7, <1>8 DEF frames
  <2>. QED
    BY <2>1, <2>2, <2>3 DEF Consistent
<1>10. t \in Segment /\ g \in File /\ Consistent(t, g, recs)
  BY <1>1, <1>4, <1>9, FlushConsistent
<1>11. g.store = f.store \o s.buf
  <2>1. g = [c EXCEPT !.store = c.store \o s.buf]
    BY <1>1, <1>4, <1>9, FlushedFrames
  <2>. QED
    BY <1>4, <2>1 DEF File
<1> HIDE DEF t, g, m
<1>12. GoodLog(m, recs) /\ SameBut(m, l, i, t)
  <2>1. recs \subseteq recs
    OBVIOUS
  <2>. QED
    BY <1>2, <1>3, <1>10, <2>1, GoodReplace
<1>13. m.files = PutFile(l.files, t.base, g)
  BY <1>2 DEF PutSegment
<1>14. m.files[s.base] = g
  BY <1>3, <1>13 DEF PutFile
<1>15. \A j \in DOMAIN l.segments : j # i =>
           m.files[l.segments[j].base] = l.files[l.segments[j].base]
  <2>1. ASSUME NEW j \in DOMAIN l.segments, j # i
        PROVE  m.files[l.segments[j].base] = l.files[l.segments[j].base]
    <3>1. l.segments[j].base # s.base /\ l.segments[j].base \in DOMAIN l.files
      BY <2>1, GoodShape DEF s
    <3>. QED
      BY <1>3, <1>13, <3>1 DEF PutFile
  <2>. QED
    BY <2>1
<1>16. \A j \in DOMAIN l.segments : /\ m.segments[j].base = l.segments[j].base
                                    /\ m.segments[j].next = l.segments[j].next
  BY <1>3, <1>12 DEF SameBut
<1>17. Len(m.files[l.segments[i].base].store) = l.segments[i].next - l.segments[i].base
  BY <1>7, <1>11, <1>14 DEF s
<1>18. DOMAIN m.segments = DOMAIN l.segments
  BY <1>12 DEF SameBut
<1>. QED
  BY <1>12, <1>15, <1>16, <1>17, <1>18 DEF m

\* The segments and the first k files of a good log l after Close came to k.
ClosedAs(m, l, recs, k) ==
    /\ GoodLog(m, recs) /\ SoundLog(m)
    /\ DOMAIN m.segments = DOMAIN l.segments
    /\ \A j \in DOMAIN l.segments : /\ m.segments[j].base = l.segments[j].base
                                    /\ m.segments[j].next = l.segments[j].next
    /\ \A j \in 1 .. k :
          Len(m.files[l.segments[j].base].store) = l.segments[j].next - l.segments[j].base

\* Close leaves a good log good, and every record of the segments it came to in
\* their files.
LEMMA GoodClosed ==
    ASSUME NEW recs, NEW l, GoodLog(l, recs), SoundLog(l), NEW n \in 0 .. Len(l.segments)
    PROVE  ClosedAs(ClosedLog(l, n), l, recs, n)
<1> DEFINE N == Len(l.segments)
<1>1. N \in Nat /\ n \in Nat /\ n <= N /\ DOMAIN l.segments = 1 .. N
  BY LenProperties DEF SoundLog
<1>2. PICK h : ClosesUpTo(h, l, n)
  BY ClosedStepByStep
<1> HIDE DEF N
<1> DEFINE T == {k \in Nat : k <= n => ClosedAs(h[1 .. k], l, recs, k)}
<1>3. 0 \in T
  BY <1>1, <1>2 DEF ClosesUpTo, ClosedAs
<1>4. ASSUME NEW k \in T PROVE k + 1 \in T
  <2> SUFFICES ASSUME k + 1 <= n
               PROVE  ClosedAs(h[1 .. (k + 1)], l, recs, k + 1)
    BY <1>4
  <2> DEFINE p == h[1 .. k]
             q == CloseSegment(p, k + 1)
             b == l.segments[k + 1].base
  <2>1. k \in Nat /\ k <= n /\ k \in 0 .. n - 1 /\ k + 1 \in 1 .. N
    BY <1>1, <1>4
  <2>2. ClosedAs(p, l, recs, k)
    BY <1>4, <2>1
  <2>3. h[1 .. (k + 1)] = q
    BY <1>2, <2>1 DEF ClosesUpTo
  <2> HIDE DEF p
  <2>4. /\ GoodLog(p, recs) /\ SoundLog(p) /\ DOMAIN p.segments = DOMAIN l.segments
        /\ \A j \in DOMAIN l.segments : /\ p.segments[j].base = l.segments[j].base
                                        /\ p.segments[j].next = l.segments[j].next
        /\ \A j \in 1 .. k : Len(p.files[l.segments[j].base].store)
                                 = l.segments[j].next - l.segments[j].base
    BY <2>2 DEF ClosedAs
  <2>5. k + 1 \in DOMAIN p.segments
    BY <1>1, <2>1, <2>4
  <2>6. LET f == q.files[p.segments[k + 1].base]
        IN  /\ GoodLog(q, recs)
            /\ DOMAIN q.segments = DOMAIN p.segments
            /\ \A j \in DOMAIN p.segments :
                  /\ q.segments[j].base = p.segments[j].base
                  /\ q.segments[j].next = p.segments[j].next
            /\ Len(f.store) = p.segments[k + 1].next - p.segments[k + 1].base
            /\ \A j \in DOMAIN p.segments : j # k + 1 =>
                  q.files[p.segments[j].base] = p.files[p.segments[j].base]
    BY <2>4, <2>5, GoodClose
  <2>7. SoundLog(q)
    BY <2>4, <2>5, CloseSegmentSound
  <2> HIDE DEF q
  <2>8. /\ DOMAIN q.segments = DOMAIN l.segments
        /\ \A j \in DOMAIN l.segments : /\ q.segments[j].base = l.segments[j].base
                                        /\ q.segments[j].next = l.segments[j].next
    BY <2>4, <2>6
  <2>9. ASSUME NEW j \in 1 .. k + 1
        PROVE  Len(q.files[l.segments[j].base].store)
                   = l.segments[j].next - l.segments[j].base
    <3>1. j \in DOMAIN l.segments
      BY <1>1, <2>1
    <3>2. CASE j = k + 1
      BY <2>4, <2>6, <3>1, <3>2
    <3>3. CASE j # k + 1
      <4>1. j \in 1 .. k
        BY <2>1, <3>3
      <4>2. p.segments[j].base = l.segments[j].base /\ j \in DOMAIN p.segments
        BY <2>4, <3>1
      <4>3. q.files[p.segments[j].base] = p.files[p.segments[j].base]
        BY <2>6, <3>3, <4>2
      <4>. QED
        BY <2>4, <4>1, <4>2, <4>3
    <3>. QED
      BY <3>2, <3>3
  <2>10. ClosedAs(q, l, recs, k + 1)
    BY <2>6, <2>7, <2>8, <2>9 DEF ClosedAs
  <2>. QED
    BY <2>3, <2>10
<1>5. n \in T
  <2>1. T \in SUBSET Nat
    OBVIOUS
  <2> HIDE DEF T
  <2>2. T = Nat
    BY <1>3, <1>4, <2>1, InductionOnNat
  <2>. QED
    BY <1>1, <2>2
<1>. QED
  BY <1>1, <1>2, <1>5 DEF ClosesUpTo
=============================================================================
