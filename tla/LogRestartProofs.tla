-------------------------- MODULE LogRestartProofs --------------------------
(***************************************************************************)
(* Theorems about LogRestart, for every number of processes, crashes and   *)
(* appends, and for all sizes of segments.                                 *)
(***************************************************************************)
EXTENDS LogRestart, SegmentedLogProofs

-----------------------------------------------------------------------------
(* Files that outlive a process.  An index entry is in the mapped file at   *)
(* once and a frame only when its buffer is flushed, so that a crash leaves *)
(* more entries than frames; setup gives the file an object whose counters  *)
(* may say less or more than that, and a second one.                        *)

\* Index f has n entries, for the offsets from b on; the frames of its store are
\* those of the first of them, and hold records of recs.  An entry without a frame
\* points past the end of the store, if it was written completely.  The length of
\* the index file is that of the entries or, after a crash, that of the mapping.
HalfWritten(e) == e.off # 0 /\ e.pos = 0

Written(f, b, n, recs) ==
    /\ entryWidth * n <= MaxIndexBytes
    /\ f.ilen = entryWidth * n \/ f.ilen = MaxIndexBytes
    /\ ~f.indexed => f = NoFile
    /\ Len(f.store) <= n
    /\ \A k \in DOMAIN f.store :
          /\ \A j \in 1 .. k - 1 : FrameEnd(f.store[j]) <= f.store[k].pos
          /\ f.store[k].rec \in recs
          /\ f.store[k].rec.offset = b + k - 1
          /\ f.slots[k - 1] = [off |-> k - 1, pos |-> f.store[k].pos]
    /\ \A k \in Len(f.store) .. n - 1 :
          /\ f.slots[k].off = k
          /\ StoreBytes(f.store) <= f.slots[k].pos \/ HalfWritten(f.slots[k])
    /\ \A k \in Slots : k >= n => f.slots[k] = NoEntry

\* What the counters of an object say that setup made of a file with n entries:
\* the truth, or what a mapping of full length looks like.
Counts(s, n) ==
    \/ s.isize = entryWidth * n /\ s.next = s.base + n
    \/ /\ s.isize = MaxIndexBytes /\ s.base < s.next
       /\ s.next <= s.base + n \/ (n = 0 /\ s.next = s.base + 1)

Again(s, n) == s.buf = <<>> /\ Counts(s, n)

\* Numbers of entries and bytes of an index.
LEMMA SlotNumbers ==
    /\ MaxIndexBytes \in Nat /\ entryWidth \in Nat \ {0}
    /\ MaxIndexBytes \div entryWidth \in Nat \ {0}
    /\ (MaxIndexBytes \div entryWidth) - 1 \in Slots
    /\ \A n \in Nat : entryWidth * n <= MaxIndexBytes =>
          /\ n <= MaxIndexBytes \div entryWidth
          /\ (entryWidth * n) \div entryWidth = n
          /\ n # 0 => n - 1 \in Slots
          /\ entryWidth * n < entryWidth <=> n = 0
    /\ \A k \in Slots : k \in Nat /\ entryWidth * k + entryWidth <= MaxIndexBytes
<1>1. MaxIndexBytes \in Nat /\ MaxIndexBytes >= entryWidth /\ entryWidth = 12
  BY ConfigAssumption DEF ConfigAssumption, entryWidth
<1>. QED
  BY <1>1 DEF Slots

\* What comes before a slot is a slot.
LEMMA SlotsBelow ==
    ASSUME NEW n \in Slots
    PROVE  0 .. n \subseteq Slots
<1>1. PICK w : w = MaxIndexBytes \div entryWidth
  OBVIOUS
<1>2. Slots = 0 .. w - 1 /\ w \in Nat
  BY <1>1, SlotNumbers DEF Slots
<1>3. n \in 0 .. w - 1
  BY <1>2
<1>. QED
  BY ONLY <1>2, <1>3

\* newSegment on a file that was written before (segment.go).
LEMMA OpenedAgain ==
    ASSUME NEW recs, NEW f \in File, NEW b \in Nat, NEW n \in Nat, Written(f, b, n, recs)
    PROVE  /\ Again(OpenSegment(f, b), n)
           /\ f.ilen = MaxIndexBytes => IndexMaxed(OpenSegment(f, b)) /\ b < OpenSegment(f, b).next
           /\ f.ilen = entryWidth * n =>
                 OpenSegment(f, b).isize = f.ilen /\ OpenSegment(f, b).next = b + n
<1> DEFINE s == OpenSegment(f, b)
           r == LastRelative(f, f.ilen)
           last == (MaxIndexBytes \div entryWidth) - 1
<1>1. s.base = b /\ s.next = b + r + 1 /\ s.isize = f.ilen /\ s.buf = <<>>
  BY DEF OpenSegment
<1>2. entryWidth * n <= MaxIndexBytes /\ f.slots \in [Slots -> Entry]
  BY DEF Written, File
<1>20. last \in Nat /\ last \in Slots /\ (entryWidth * n <= MaxIndexBytes => n <= last + 1)
  BY SlotNumbers
<1> HIDE DEF last
<1>3. \A k \in 0 .. n - 1 : f.slots[k].off = k
  <2>1. TAKE k \in 0 .. n - 1
  <2>2. Len(f.store) \in Nat /\ DOMAIN f.store = 1 .. Len(f.store)
    BY DEF File
  <2>3. CASE k < Len(f.store)
    <3>1. k + 1 \in DOMAIN f.store /\ (k + 1) - 1 = k
      BY <2>2, <2>3
    <3>2. f.slots[(k + 1) - 1] = [off |-> (k + 1) - 1, pos |-> f.store[k + 1].pos]
      BY <3>1 DEF Written
    <3>. QED
      BY <3>1, <3>2
  <2>4. CASE k >= Len(f.store)
    BY <2>2, <2>4 DEF Written
  <2>. QED
    BY <2>2, <2>3, <2>4
<1>4. ASSUME f.ilen = entryWidth * n PROVE r = n - 1
  <2>1. CASE n = 0
    BY <1>4, <2>1 DEF LastRelative, entryWidth
  <2>2. CASE n # 0
    <3>1. ~(entryWidth * n < entryWidth) /\ (entryWidth * n) \div entryWidth = n
      BY <1>2, <2>2, SlotNumbers
    <3>2. r = f.slots[n - 1].off
      BY <1>4, <3>1 DEF LastRelative
    <3>. QED
      BY <1>3, <2>2, <3>2
  <2>. QED
    BY <2>1, <2>2
<1>5. ASSUME f.ilen = MaxIndexBytes PROVE r \in Nat /\ (r < n \/ (r = 0 /\ n = 0))
  <2>1. r = f.slots[last].off
    BY <1>5, ConfigAssumption DEF LastRelative, ConfigAssumption, entryWidth, last
  <2>2. CASE last < n
    BY <1>3, <1>20, <2>1, <2>2
  <2>3. CASE ~(last < n)
    <3>1. f.slots[last] = NoEntry
      BY <1>20, <2>3 DEF Written
    <3>2. r = 0
      BY <2>1, <3>1 DEF NoEntry
    <3>. QED
      BY <1>20, <2>3, <3>2
  <2>. QED
    BY <2>2, <2>3
<1> HIDE DEF s, r
<1>6. f.ilen = entryWidth * n => s.isize = f.ilen /\ s.next = b + n
  BY <1>1, <1>4
<1>7. f.ilen = MaxIndexBytes =>
          /\ b < s.next /\ (s.next <= b + n \/ (n = 0 /\ s.next = b + 1))
          /\ s.isize = MaxIndexBytes
  BY <1>1, <1>5
<1>8. Counts(s, n)
  BY <1>1, <1>6, <1>7 DEF Written, Counts
<1>9. f.ilen = MaxIndexBytes => IndexMaxed(s)
  <2>1. MaxIndexBytes \in Nat /\ entryWidth \in Nat \ {0}
    BY SlotNumbers
  <2>. QED
    BY <1>7, <2>1 DEF IndexMaxed
<1>. QED
  BY <1>1, <1>6, <1>7, <1>8, <1>9 DEF s, Again

\* newIndex keeps what was written.
LEMMA GrownWritten ==
    ASSUME NEW recs, NEW f \in File, NEW b, NEW n, Written(f, b, n, recs)
    PROVE  /\ Written(Grown(f), b, n, recs)
           /\ Grown(f).indexed /\ Grown(f).ilen = MaxIndexBytes
<1>1. /\ Grown(f).store = f.store /\ Grown(f).slots = f.slots
      /\ Grown(f).ilen = MaxIndexBytes /\ Grown(f).indexed
  BY DEF Grown, File
<1>. QED
  BY <1>1 DEF Written

\* A file that is not there has no entries.
LEMMA NothingWritten ==
    ASSUME NEW recs, NEW b
    PROVE  Written(NoFile, b, 0, recs)
<1>1. NoFile.store = <<>> /\ NoFile.ilen = 0 /\ \A k \in Slots : NoFile.slots[k] = NoEntry
  BY DEF NoFile
<1>2. Len(NoFile.store) = 0 /\ DOMAIN NoFile.store = {}
  BY <1>1
<1>. QED
  BY <1>1, <1>2, SlotNumbers DEF Written

\* More records may have been acknowledged since.
LEMMA WrittenMore ==
    ASSUME NEW recs, NEW more, recs \subseteq more, NEW f, NEW b, NEW n,
           Written(f, b, n, recs)
    PROVE  Written(f, b, n, more)
BY DEF Written

\* The half-written entries are those for the offsets T.
OnlyTorn(files, T) ==
    \A b \in DOMAIN files : \A k \in Slots :
        HalfWritten(files[b].slots[k]) => b + files[b].slots[k].off \in T

\* A directory with the entries of files, and perhaps new index files.
SameSlots(files, more) ==
    \A b \in DOMAIN more : \/ b \in DOMAIN files /\ more[b].slots = files[b].slots
                           \/ more[b].slots = NoFile.slots

LEMMA SameSlotsTorn ==
    ASSUME NEW files, NEW T, OnlyTorn(files, T), NEW more, SameSlots(files, more)
    PROVE  OnlyTorn(more, T)
<1>1. \A k \in Slots : ~HalfWritten(NoFile.slots[k])
  BY DEF NoFile, NoEntry, HalfWritten
<1>. QED
  BY <1>1 DEF OnlyTorn, SameSlots

\* setup and a rollover of Append write no entries.
LEMMA NewSegmentSlots ==
    ASSUME NEW l, SoundLog(l), NEW b \in Nat, NEW m, m = NewSegment(l, b)
    PROVE  SameSlots(l.files, m.files)
<1> DEFINE f == FileOf(l.files, b)
<1>1. \A c \in DOMAIN l.files : l.files[c] \in File
  BY DEF SoundLog, Directory
<1>2. f \in File /\ f.slots = (IF b \in DOMAIN l.files THEN l.files[b].slots ELSE NoFile.slots)
  BY <1>1, GrownType DEF FileOf
<1>3. Grown(f).slots = f.slots
  BY <1>2 DEF Grown, File
<1> HIDE DEF f
<1>4. m.files = [c \in DOMAIN l.files \cup {b} |-> IF c = b THEN Grown(f) ELSE l.files[c]]
  BY DEF NewSegment, PutFile, f
<1>. QED
  BY <1>2, <1>3, <1>4 DEF SameSlots

\* An object that appends: it counts what is written, and the frames in its buffer
\* follow those in the store.
Live(s, f, n, recs) ==
    /\ Consistent(s, f, recs)
    /\ s.next = s.base + n
    /\ f.ilen = MaxIndexBytes
    /\ \A k \in Slots : k >= n => f.slots[k] = NoEntry

\* Its entries are complete: only the first has position 0.
LEMMA LiveWhole ==
    ASSUME NEW recs, NEW s \in Segment, NEW f \in File, NEW n \in Nat, Live(s, f, n, recs),
           NEW k \in Slots
    PROVE  ~HalfWritten(f.slots[k])
<1> DEFINE frames == f.store \o s.buf
<1>1. Consistent(s, f, recs) /\ n = s.next - s.base
  BY DEF Live, Segment
<1>2. /\ Len(frames) = n /\ DOMAIN frames = 1 .. n
      /\ \A j \in 1 .. n : frames[j] \in Frame
  BY <1>1, FramesOf
<1>3. k \in Nat
  BY SlotNumbers
<1> HIDE DEF frames
<1>4. CASE k >= n
  BY <1>4 DEF Live, NoEntry, HalfWritten
<1>5. CASE k < n
  <2>1. k + 1 \in 1 .. n /\ (k + 1) - 1 = k
    BY <1>3, <1>5
  <2>2. /\ frames[k + 1].pos = IF k + 1 = 1 THEN 0 ELSE FrameEnd(frames[(k + 1) - 1])
        /\ f.slots[(k + 1) - 1] = [off |-> (k + 1) - 1, pos |-> frames[k + 1].pos]
    BY <1>1, <1>2, <2>1 DEF Consistent, frames
  <2>3. f.slots[k].off = k /\ f.slots[k].pos = frames[k + 1].pos
    BY <2>1, <2>2
  <2>4. CASE k = 0
    BY <2>3, <2>4 DEF HalfWritten
  <2>5. CASE k # 0
    <3>1. k \in 1 .. n /\ frames[k + 1].pos = FrameEnd(frames[k])
      BY <1>3, <1>5, <2>1, <2>2, <2>5
    <3>2. FrameEnd(frames[k]) \in Nat \ {0}
      BY <1>2, <3>1, FrameEndType DEF lenWidth, Frame
    <3>. QED
      BY <2>3, <3>1, <3>2 DEF HalfWritten
  <2>. QED
    BY <2>4, <2>5
<1>. QED
  BY <1>3, <1>4, <1>5

\* The part of a consistent segment that is flushed has no more bytes than all of it.
LEMMA FlushedBytes ==
    ASSUME NEW recs, NEW s \in Segment, NEW f \in File, Consistent(s, f, recs)
    PROVE  /\ StoreBytes(f.store) <= s.size
           /\ \A k \in Len(f.store) + 1 .. Len(f.store \o s.buf) :
                 StoreBytes(f.store) <= (f.store \o s.buf)[k].pos
<1> DEFINE frames == f.store \o s.buf
           n == s.next - s.base
           p == Len(f.store)
<1>1. /\ n \in Nat /\ Len(frames) = n /\ DOMAIN frames = 1 .. n
      /\ s.size = IF n = 0 THEN 0 ELSE FrameEnd(frames[n])
      /\ \A k \in 1 .. n : frames[k] \in Frame
  BY FramesOf
<1>2. \A k \in 1 .. n : \A j \in 1 .. k - 1 : FrameEnd(frames[j]) <= frames[k].pos
  BY <1>1 DEF Consistent
<1>3. /\ f.store \in Seq(Frame) /\ s.buf \in Seq(Frame) /\ p \in Nat /\ Len(s.buf) \in Nat
      /\ n = p + Len(s.buf) /\ DOMAIN f.store = 1 .. p
      /\ \A k \in 1 .. p : frames[k] = f.store[k]
  BY <1>1 DEF File, Segment
<1> HIDE DEF frames, n, p
<1>4. StoreBytes(f.store) = IF p = 0 THEN 0 ELSE FrameEnd(frames[p])
  BY <1>3 DEF StoreBytes, Last, p
<1>5. \A k \in 1 .. n : /\ frames[k].pos \in Nat /\ FrameEnd(frames[k]) \in Nat
                        /\ frames[k].pos <= FrameEnd(frames[k])
  BY <1>1, FrameEndType DEF Frame, lenWidth
<1>6. \A k \in p + 1 .. n : StoreBytes(f.store) <= frames[k].pos
  <2>1. TAKE k \in p + 1 .. n
  <2>2. k \in 1 .. n
    BY <1>1, <1>3
  <2>3. CASE p = 0
    BY <1>4, <1>5, <2>2, <2>3
  <2>4. CASE p # 0
    <3>1. p \in 1 .. k - 1
      BY <1>3, <2>2, <2>4
    <3>. QED
      BY <1>2, <1>4, <2>2, <2>4, <3>1
  <2>. QED
    BY <2>3, <2>4
<1>7. StoreBytes(f.store) <= s.size
  <2>1. CASE n = p
    BY <1>1, <1>4, <1>5, <2>1
  <2>2. CASE n # p
    <3>1. n \in p + 1 .. n /\ n # 0 /\ n \in 1 .. n
      BY <1>1, <1>3, <2>2
    <3>2. StoreBytes(f.store) <= frames[n].pos
      BY <1>6, <3>1
    <3>3. StoreBytes(f.store) \in Nat
      BY <1>3, StoreBytesType
    <3>. QED
      BY <1>1, <1>5, <3>1, <3>2, <3>3
  <2>. QED
    BY <2>1, <2>2
<1>. QED
  BY <1>1, <1>6, <1>7 DEF frames, p

\* Whatever of a consistent segment has reached the kernel is written in the sense
\* above: a crash leaves it behind.
LEMMA ConsistentWritten ==
    ASSUME NEW recs, NEW s \in Segment, NEW f \in File, Consistent(s, f, recs),
           NEW n, n = s.next - s.base, f.indexed,
           f.ilen = entryWidth * n \/ f.ilen = MaxIndexBytes,
           \A k \in Slots : k >= n => f.slots[k] = NoEntry
    PROVE  Written(f, s.base, n, recs)
<1> DEFINE frames == f.store \o s.buf
           p == Len(f.store)
<1>1. /\ n \in Nat /\ Len(frames) = n /\ DOMAIN frames = 1 .. n
      /\ \A k \in 1 .. n : frames[k] \in Frame
  BY FramesOf
<1>2. /\ f.store \in Seq(Frame) /\ s.buf \in Seq(Frame) /\ p \in Nat /\ p <= n
      /\ DOMAIN f.store = 1 .. p
      /\ \A k \in 1 .. p : frames[k] = f.store[k]
  BY <1>1 DEF File, Segment
<1>3. \A k \in 1 .. n :
          /\ \A j \in 1 .. k - 1 : FrameEnd(frames[j]) <= frames[k].pos
          /\ frames[k].rec \in recs
          /\ frames[k].rec.offset = s.base + k - 1
          /\ f.slots[k - 1] = [off |-> k - 1, pos |-> frames[k].pos]
  BY <1>1 DEF Consistent
<1>4. \A k \in p + 1 .. n : StoreBytes(f.store) <= frames[k].pos
  BY <1>1, FlushedBytes
<1>5. entryWidth * n <= MaxIndexBytes
  BY DEF Consistent
<1> HIDE DEF frames, p
<1>6. ASSUME NEW k \in 1 .. p
      PROVE  /\ \A j \in 1 .. k - 1 : FrameEnd(f.store[j]) <= f.store[k].pos
             /\ f.store[k].rec \in recs
             /\ f.store[k].rec.offset = s.base + k - 1
             /\ f.slots[k - 1] = [off |-> k - 1, pos |-> f.store[k].pos]
  <2>1. k \in 1 .. n /\ \A j \in 1 .. k - 1 : j \in 1 .. p
    BY <1>1, <1>2
  <2>. QED
    BY <1>2, <1>3, <2>1
<1>7. ASSUME NEW k \in p .. n - 1
      PROVE  f.slots[k].off = k /\ StoreBytes(f.store) <= f.slots[k].pos
  <2>1. k + 1 \in 1 .. n /\ k + 1 \in p + 1 .. n /\ (k + 1) - 1 = k
    BY <1>1, <1>2
  <2>2. f.slots[(k + 1) - 1] = [off |-> (k + 1) - 1, pos |-> frames[k + 1].pos]
    BY <1>3, <2>1
  <2>. QED
    BY <1>4, <2>1, <2>2
<1>. QED
  BY <1>2, <1>5, <1>6, <1>7 DEF Written, p

-----------------------------------------------------------------------------
(* Logs that processes open one after the other.                            *)

\* No other object has the base of segment i.
Alone(l, i) ==
    \A j \in DOMAIN l.segments : j # i => l.segments[j].base # l.segments[i].base

\* N[b] entries are written for base b.  An object either was made of a file that
\* an earlier process left, and has no buffer, or appends and is the only one.
LifeLog(l, recs, N) ==
    /\ SoundLog(l) /\ N \in [Nat -> Nat]
    /\ \A b \in DOMAIN l.files : Written(l.files[b], b, N[b], recs)
    /\ \A i \in DOMAIN l.segments :
          LET s == l.segments[i]
              f == l.files[s.base]
          IN  /\ f.indexed
              /\ Again(s, N[s.base]) \/ (Live(s, f, N[s.base], recs) /\ Alone(l, i))

LEMMA LifeShape ==
    ASSUME NEW recs, NEW l, NEW N, LifeLog(l, recs, N)
    PROVE  /\ Len(l.segments) \in Nat /\ DOMAIN l.segments = 1 .. Len(l.segments)
           /\ \A b \in DOMAIN l.files : b \in Nat /\ N[b] \in Nat /\ l.files[b] \in File
           /\ \A i \in DOMAIN l.segments :
                 /\ l.segments[i] \in Segment /\ Sound(l.segments[i])
                 /\ l.segments[i].base \in DOMAIN l.files
                 /\ l.segments[i].base \in Nat
                 /\ l.files[l.segments[i].base] \in File
<1>1. /\ DOMAIN l.files \in SUBSET Nat /\ l.files \in [DOMAIN l.files -> File]
      /\ N \in [Nat -> Nat] /\ l.segments \in Seq(Segment)
      /\ \A i \in DOMAIN l.segments :
            Sound(l.segments[i]) /\ l.segments[i].base \in DOMAIN l.files
  BY DEF LifeLog, SoundLog, Directory
<1>2. Len(l.segments) \in Nat /\ DOMAIN l.segments = 1 .. Len(l.segments)
  BY <1>1, LenProperties
<1>3. \A b \in DOMAIN l.files : b \in Nat /\ N[b] \in Nat /\ l.files[b] \in File
  BY <1>1
<1>4. \A i \in DOMAIN l.segments : l.segments[i] \in Segment
  BY <1>1 DEF Sound
<1>. QED
  BY <1>1, <1>2, <1>3, <1>4

\* An operation on segment i and its file, which are replaced by t and g.
LEMMA PutParts ==
    ASSUME NEW l, SoundLog(l), NEW i \in DOMAIN l.segments,
           NEW t, t.base = l.segments[i].base, NEW g
    PROVE  LET m == PutSegment(l, i, t, g)
           IN  /\ DOMAIN m.files = DOMAIN l.files
               /\ m.files[t.base] = g
               /\ \A c \in DOMAIN l.files : c # t.base => m.files[c] = l.files[c]
               /\ DOMAIN m.segments = DOMAIN l.segments
               /\ m.segments[i] = t
               /\ \A j \in DOMAIN l.segments : j # i => m.segments[j] = l.segments[j]
<1> DEFINE m == PutSegment(l, i, t, g)
<1>1. t.base \in DOMAIN l.files
  BY DEF SoundLog
<1>2. m.files = PutFile(l.files, t.base, g) /\ m.segments = [l.segments EXCEPT ![i] = t]
  BY DEF PutSegment
<1> HIDE DEF m
<1>3. DOMAIN l.files \cup {t.base} = DOMAIN l.files
  BY <1>1
<1>4. m.files = [c \in DOMAIN l.files |-> IF c = t.base THEN g ELSE l.files[c]]
  BY <1>2, <1>3 DEF PutFile
<1>5. /\ DOMAIN m.files = DOMAIN l.files /\ m.files[t.base] = g
      /\ \A c \in DOMAIN l.files : c # t.base => m.files[c] = l.files[c]
  BY <1>1, <1>4
<1>6. /\ DOMAIN m.segments = DOMAIN l.segments /\ m.segments[i] = t
      /\ \A j \in DOMAIN l.segments : j # i => m.segments[j] = l.segments[j]
  BY <1>2
<1>. QED
  BY <1>5, <1>6 DEF m

\* N with the number n for base b.
Sets(K, N, b, n) ==
    /\ K \in [Nat -> Nat] /\ K[b] = n
    /\ \A c \in Nat : c # b => K[c] = N[c]

LEMMA SomeSets ==
    ASSUME NEW N \in [Nat -> Nat], NEW b \in Nat, NEW n \in Nat
    PROVE  \E K : Sets(K, N, b, n)
<1>1. Sets([N EXCEPT ![b] = n], N, b, n)
  BY DEF Sets
<1>. QED
  BY <1>1

\* recs and one record more.
Adds(more, recs, r) == more = recs \cup {r}

LEMMA LifeReplace ==
    ASSUME NEW recs, NEW more, recs \subseteq more, NEW l, NEW N, LifeLog(l, recs, N),
           NEW i \in DOMAIN l.segments, NEW t, t.base = l.segments[i].base,
           NEW g, g.indexed, NEW n \in Nat, Written(g, t.base, n, more),
           n = N[t.base] \/ Alone(l, i),
           Again(t, n) \/ (Live(t, g, n, more) /\ Alone(l, i)),
           NEW m, m = PutSegment(l, i, t, g), SoundLog(m),
           NEW K, Sets(K, N, t.base, n)
    PROVE  LifeLog(m, more, K)
<1> DEFINE b == t.base
<1>1. SoundLog(l) /\ N \in [Nat -> Nat] /\ b \in Nat
  BY LifeShape DEF LifeLog
<1>2. /\ DOMAIN m.files = DOMAIN l.files /\ m.files[b] = g
      /\ \A c \in DOMAIN l.files : c # b => m.files[c] = l.files[c]
      /\ DOMAIN m.segments = DOMAIN l.segments /\ m.segments[i] = t
      /\ \A j \in DOMAIN l.segments : j # i => m.segments[j] = l.segments[j]
  BY <1>1, PutParts
<1>3. K \in [Nat -> Nat] /\ K[b] = n /\ \A c \in Nat \ {b} : K[c] = N[c]
  BY <1>1 DEF Sets
<1>4. ASSUME NEW c \in DOMAIN m.files PROVE Written(m.files[c], c, K[c], more)
  <2>1. CASE c = b
    BY <1>2, <1>3, <2>1
  <2>2. CASE c # b
    <3>1. Written(l.files[c], c, N[c], recs) /\ c \in Nat
      BY <1>2, LifeShape DEF LifeLog
    <3>2. Written(l.files[c], c, N[c], more)
      BY <3>1, WrittenMore
    <3>. QED
      BY <1>2, <1>3, <2>2, <3>1, <3>2
  <2>. QED
    BY <2>1, <2>2
<1>5. \A j \in DOMAIN l.segments : m.segments[j].base = l.segments[j].base
  BY <1>2
<1>6. \A j \in DOMAIN l.segments : Alone(l, j) <=> Alone(m, j)
  BY <1>2, <1>5 DEF Alone
<1>7. ASSUME NEW j \in DOMAIN m.segments
      PROVE  LET s == m.segments[j]
                 f == m.files[s.base]
             IN  /\ f.indexed
                 /\ Again(s, K[s.base]) \/ (Live(s, f, K[s.base], more) /\ Alone(m, j))
  <2> DEFINE s == l.segments[j]
             f == l.files[s.base]
  <2>1. CASE j = i
    BY <1>2, <1>3, <1>6, <2>1
  <2>2. CASE j # i
    <3>1. /\ m.segments[j] = s /\ s.base \in DOMAIN l.files /\ s.base \in Nat
          /\ f.indexed
          /\ Again(s, N[s.base]) \/ (Live(s, f, N[s.base], recs) /\ Alone(l, j))
      BY <1>2, <2>2, LifeShape DEF LifeLog
    <3>2. CASE s.base = b
      <4>1. ~Alone(l, i) /\ ~Alone(l, j)
        BY <1>2, <2>2, <3>2 DEF Alone
      <4>. QED
        BY <1>2, <1>3, <3>1, <3>2, <4>1
    <3>3. CASE s.base # b
      <4>1. m.files[s.base] = f /\ K[s.base] = N[s.base]
        BY <1>2, <1>3, <3>1, <3>3
      <4>2. Live(s, f, N[s.base], recs) => Live(s, f, N[s.base], more)
        BY MoreRecords DEF Live
      <4>. QED
        BY <1>2, <1>6, <3>1, <4>1, <4>2
    <3>. QED
      BY <3>2, <3>3
  <2>. QED
    BY <2>1, <2>2
<1>. QED
  BY <1>3, <1>4, <1>7 DEF LifeLog

\* Without a new record.
LEMMA LifeReplaceSame ==
    ASSUME NEW recs, NEW l, NEW N, LifeLog(l, recs, N),
           NEW i \in DOMAIN l.segments, NEW t, t.base = l.segments[i].base,
           NEW g, g.indexed, Written(g, t.base, N[t.base], recs),
           Again(t, N[t.base]) \/ (Live(t, g, N[t.base], recs) /\ Alone(l, i)),
           NEW m, m = PutSegment(l, i, t, g), SoundLog(m)
    PROVE  LifeLog(m, recs, N)
<1>1. N \in [Nat -> Nat] /\ t.base \in Nat
  BY LifeShape DEF LifeLog
<1>2. Sets(N, N, t.base, N[t.base]) /\ N[t.base] \in Nat
  BY <1>1 DEF Sets
<1>. QED
  BY <1>2, LifeReplace

\* A store to which frames were added.
Longer(frames, more) ==
    \A k \in DOMAIN frames : k \in DOMAIN more /\ more[k] = frames[k]

LEMMA LongerConcat ==
    ASSUME NEW a \in Seq(Frame), NEW b \in Seq(Frame)
    PROVE  Longer(a, a \o b)
BY DEF Longer

\* A directory that has lost no file and no frame.
Grew(files, more) ==
    \A b \in DOMAIN files : b \in DOMAIN more /\ Longer(files[b].store, more[b].store)

\* A flush: there is nothing to write for an object made of an old file.
LEMMA LifeFlush ==
    ASSUME NEW recs, NEW l, NEW N, LifeLog(l, recs, N), NEW i \in DOMAIN l.segments
    PROVE  LET m == FlushSegment(l, i)
           IN  /\ LifeLog(m, recs, N)
               /\ DOMAIN m.files = DOMAIN l.files /\ DOMAIN m.segments = DOMAIN l.segments
               /\ Grew(l.files, m.files)
               /\ \A j \in DOMAIN l.segments : j # i => m.segments[j] = l.segments[j]
               /\ m.segments[i] = [l.segments[i] EXCEPT !.buf = <<>>]
               /\ l.segments[i].buf = <<>> =>
                     /\ \A b \in DOMAIN l.files : m.files[b] = l.files[b]
                     /\ m.segments[i] = l.segments[i]
               /\ l.segments[i].buf # <<>> => Alone(l, i)
               /\ \A b \in DOMAIN l.files : b # l.segments[i].base => m.files[b] = l.files[b]
<1> DEFINE s == l.segments[i]
           f == l.files[s.base]
           t == [s EXCEPT !.buf = <<>>]
           g == Flushed(f, s.buf)
           m == FlushSegment(l, i)
           n == N[s.base]
<1>1. /\ s \in Segment /\ f \in File /\ s.base \in DOMAIN l.files /\ s.base \in Nat
      /\ SoundLog(l) /\ N \in [Nat -> Nat] /\ n \in Nat /\ i \in DOMAIN l.segments
      /\ f.indexed /\ Written(f, s.base, n, recs)
      /\ Again(s, n) \/ (Live(s, f, n, recs) /\ Alone(l, i))
  BY LifeShape DEF LifeLog
<1>2. m = PutSegment(l, i, t, g) /\ SoundLog(m)
  BY <1>1, FlushSegmentSound DEF FlushSegment
<1>3. t.base = s.base /\ t.next = s.next /\ t.isize = s.isize /\ t.buf = <<>>
  BY <1>1 DEF Segment
<1>4. /\ g.indexed /\ Written(g, s.base, n, recs)
      /\ Again(t, n) \/ (Live(t, g, n, recs) /\ Alone(l, i))
      /\ Longer(f.store, g.store)
      /\ s.buf = <<>> => g = f /\ t = s
      /\ s.buf # <<>> => Alone(l, i)
  <2>1. CASE Again(s, n)
    <3>1. g = f /\ Longer(f.store, f.store)
      BY <2>1 DEF Again, Flushed, Longer
    <3>2. s.buf = <<>> /\ t = s
      BY <1>1, <2>1 DEF Again, Segment
    <3> HIDE DEF g, t, s, f, n
    <3>. QED
      BY <1>1, <2>1, <3>1, <3>2
  <2>2. CASE Live(s, f, n, recs) /\ Alone(l, i)
    <3> HIDE DEF s, f, n
    <3>1. g = [f EXCEPT !.store = f.store \o s.buf]
      BY <1>1, <2>2, FlushedFrames DEF Live
    <3>2. t \in Segment /\ g \in File /\ Consistent(t, g, recs)
      BY <1>1, <2>2, FlushConsistent DEF Live
    <3>3. /\ g.store = f.store \o s.buf /\ g.slots = f.slots
          /\ g.ilen = f.ilen /\ g.indexed = f.indexed
      BY <1>1, <3>1 DEF File
    <3>4. s.buf = <<>> => g = f /\ t = s
      BY <1>1 DEF Flushed, Segment
    <3>5. f.store \in Seq(Frame) /\ s.buf \in Seq(Frame)
      BY <1>1 DEF File, Segment
    <3> HIDE DEF t, g
    <3>6. Live(t, g, n, recs)
      BY <1>3, <2>2, <3>2, <3>3 DEF Live
    <3>7. n = t.next - t.base
      BY <1>1, <1>3, <2>2, <3>2 DEF Live, Segment
    <3>8. Written(g, t.base, n, recs)
      <4>1. g.indexed /\ (g.ilen = entryWidth * n \/ g.ilen = MaxIndexBytes)
        BY <1>1, <2>2, <3>3 DEF Live
      <4>2. \A k \in Slots : k >= n => g.slots[k] = NoEntry
        BY <2>2, <3>3 DEF Live
      <4>. QED
        BY <3>2, <3>7, <4>1, <4>2, ConsistentWritten
    <3>9. Longer(f.store, g.store)
      BY <3>3, <3>5, LongerConcat
    <3>. QED
      BY <1>1, <1>3, <2>2, <3>3, <3>4, <3>6, <3>8, <3>9
  <2>. QED
    BY <1>1, <2>1, <2>2
<1> HIDE DEF t, g, m
<1>6. /\ DOMAIN m.files = DOMAIN l.files /\ m.files[s.base] = g
      /\ \A c \in DOMAIN l.files : c # s.base => m.files[c] = l.files[c]
      /\ DOMAIN m.segments = DOMAIN l.segments /\ m.segments[i] = t
      /\ \A j \in DOMAIN l.segments : j # i => m.segments[j] = l.segments[j]
  BY <1>1, <1>2, <1>3, PutParts
<1>7. LifeLog(m, recs, N)
  <2>1. t.base = l.segments[i].base /\ n = N[t.base] /\ Written(g, t.base, n, recs)
    BY <1>3, <1>4
  <2> HIDE DEF s, f, n
  <2>. QED
    BY <1>2, <1>4, <2>1, LifeReplaceSame
<1>8. Grew(l.files, m.files)
  <2> SUFFICES \A b \in DOMAIN l.files : Longer(l.files[b].store, m.files[b].store)
    BY <1>6 DEF Grew
  <2>1. TAKE b \in DOMAIN l.files
  <2>2. CASE b = s.base
    BY <1>4, <1>6, <2>2
  <2>3. CASE b # s.base
    BY <1>6, <2>3 DEF Longer
  <2>. QED
    BY <2>2, <2>3
<1>9. m.segments[i] = [l.segments[i] EXCEPT !.buf = <<>>]
  BY <1>6 DEF t
<1>10. s.buf = <<>> => /\ \A b \in DOMAIN l.files : m.files[b] = l.files[b]
                       /\ m.segments[i] = l.segments[i]
  BY <1>4, <1>6
<1>. QED
  BY <1>4, <1>6, <1>7, <1>8, <1>9, <1>10 DEF m

\* t and g are the segment s and the file f, which have n entries, after an append of
\* record r; now they have p.
EntryAdded(t, g, r, p, s, f, n, id, len) ==
    LET fr == NewFrame(s, id, len)
    IN  t = Indexed(Buffered(s, fr)) /\ g = PutEntry(f, s) /\ r = fr.rec /\ p = n + 1

\* One more entry in the index of a segment that appends.
LEMMA AppendLive ==
    ASSUME NEW recs, NEW s \in Segment, NEW f \in File, NEW n \in Nat,
           Live(s, f, n, recs), f.indexed, ~IndexMaxed(s), NEW id \in Nat, NEW len \in Nat,
           NEW t, NEW g, NEW r, NEW p, EntryAdded(t, g, r, p, s, f, n, id, len),
           NEW more, Adds(more, recs, r)
    PROVE  /\ Live(t, g, p, more) /\ g.indexed /\ g.store = f.store
           /\ Written(g, s.base, p, more)
           /\ t.base = s.base /\ t.next = s.next + 1
           /\ r = [offset |-> s.next, id |-> id, len |-> len]
<1> DEFINE fr == NewFrame(s, id, len)
<1>0. /\ t = Indexed(Buffered(s, fr)) /\ g = PutEntry(f, s) /\ r = fr.rec /\ p = n + 1
  BY DEF EntryAdded
<1>1. Consistent(s, f, recs) /\ s.next = s.base + n /\ f.ilen = MaxIndexBytes
  BY DEF Live
<1>2. /\ t.base = s.base /\ t.next = s.next + 1
      /\ r = [offset |-> s.next, id |-> id, len |-> len]
  BY <1>0 DEF Indexed, Buffered, NewFrame, Segment
<1>3. s.isize = entryWidth * n
  BY <1>1 DEF Consistent, Segment
<1>4. s.isize \div entryWidth = n /\ n \in Slots
  <2>1. entryWidth * n + entryWidth <= MaxIndexBytes
    BY <1>3, ConfigAssumption DEF IndexMaxed, ConfigAssumption, entryWidth
  <2>. QED
    BY <1>3, <2>1, SlotOfEntry
<1>5. /\ g.store = f.store /\ g.ilen = f.ilen /\ g.indexed = f.indexed
      /\ g.slots = [f.slots EXCEPT ![n] = [off |-> s.next - s.base, pos |-> s.size]]
  BY <1>0, <1>4 DEF PutEntry, File
<1>6. t \in Segment /\ g \in File /\ Consistent(t, g, more)
  <2>1. fr = NewFrame(s, id, len)
    OBVIOUS
  <2> HIDE DEF fr
  <2>2. t \in Segment /\ g \in File /\ Consistent(t, g, recs \cup {fr.rec})
    BY <1>0, <1>1, <2>1, AppendConsistent
  <2>. QED
    BY <1>0, <2>2 DEF Adds
<1>7. \A k \in Slots : k >= p => g.slots[k] = NoEntry
  <2>1. \A k \in Slots : k >= p => k # n /\ k >= n
    BY <1>0, SlotNumbers
  <2>2. \A k \in Slots : k # n => g.slots[k] = f.slots[k]
    BY <1>5 DEF File
  <2>. QED
    BY <2>1, <2>2 DEF Live
<1>8. p \in Nat /\ t.next = t.base + p /\ p = t.next - t.base
  BY <1>0, <1>1, <1>2 DEF Segment
<1>9. Live(t, g, p, more)
  BY <1>1, <1>5, <1>6, <1>7, <1>8 DEF Live
<1>10. Written(g, t.base, p, more)
  BY <1>1, <1>5, <1>6, <1>7, <1>8, ConsistentWritten
<1>. QED
  BY <1>2, <1>5, <1>9, <1>10

\* m is l after an append of record r to its last segment s, which had n entries and
\* now has p.
LastAdded(m, l, N, z, s, n, p, r, id, len) ==
    /\ m = SegmentAppend(l, id, len)
    /\ z = Len(l.segments) /\ s = l.segments[z]
    /\ n = N[s.base] /\ p = n + 1 /\ r = NewFrame(s, id, len).rec

\* m differs from l in segment z, which was s, and in the index file of that.
LastTouched(m, l, z, s) ==
    /\ DOMAIN m.files = DOMAIN l.files /\ DOMAIN m.segments = DOMAIN l.segments
    /\ \A b \in DOMAIN l.files : m.files[b].store = l.files[b].store
    /\ \A b \in DOMAIN l.files : b # s.base => m.files[b] = l.files[b]
    /\ \A j \in DOMAIN l.segments : j # z => m.segments[j] = l.segments[j]
    /\ m.segments[z].base = s.base /\ m.segments[z].next = s.next + 1

\* segment.Append on the last segment, if that appends.
LEMMA LifeAppend ==
    ASSUME NEW recs, NEW l, NEW N, LifeLog(l, recs, N), l.segments # <<>>,
           NEW id \in Nat, NEW len \in Nat, NEW m, NEW z, NEW s, NEW n, NEW p, NEW r,
           LastAdded(m, l, N, z, s, n, p, r, id, len),
           Live(s, l.files[s.base], n, recs), Alone(l, z), ~IndexMaxed(s),
           NEW more, Adds(more, recs, r), NEW K, Sets(K, N, s.base, p)
    PROVE  /\ LifeLog(m, more, K) /\ LastTouched(m, l, z, s)
           /\ Live(m.segments[z], m.files[s.base], p, more) /\ Alone(m, z)
<1> DEFINE f == l.files[s.base]
           fr == NewFrame(s, id, len)
           t == Indexed(Buffered(s, fr))
           g == PutEntry(f, s)
<1>0. /\ m = SegmentAppend(l, id, len) /\ z = Len(l.segments) /\ s = l.segments[z]
      /\ n = N[s.base] /\ p = n + 1 /\ r = fr.rec
  BY DEF LastAdded
<1>1. /\ z \in DOMAIN l.segments /\ s \in Segment /\ f \in File /\ n \in Nat
      /\ s.base \in DOMAIN l.files /\ f.indexed /\ SoundLog(l)
  <2>1. Len(l.segments) # 0 /\ Len(l.segments) \in Nat /\ DOMAIN l.segments = 1 .. Len(l.segments)
    BY <1>0, LifeShape, EmptySeq DEF LifeLog, SoundLog
  <2>2. z \in DOMAIN l.segments
    BY <1>0, <2>1
  <2>. QED
    BY <1>0, <2>2, LifeShape DEF LifeLog
<1>2. m = PutSegment(l, z, t, g)
  BY <1>0 DEF SegmentAppend
<1>3. SoundLog(m)
  BY <1>0, <1>1, SegmentAppendSound
<1>4. /\ Live(t, g, p, more) /\ g.indexed /\ g.store = f.store
      /\ Written(g, s.base, p, more)
      /\ t.base = s.base /\ t.next = s.next + 1 
  <2>1. Live(s, f, n, recs) /\ f \in File /\ n \in Nat /\ s \in Segment /\ f.indexed
    BY <1>1
  <2>2. EntryAdded(t, g, r, p, s, f, n, id, len)
    BY <1>0 DEF EntryAdded
  <2> HIDE DEF f, fr, t, g
  <2>3. id \in Nat /\ len \in Nat /\ ~IndexMaxed(s) /\ Adds(more, recs, r)
    OBVIOUS
  <2>. QED
    BY ONLY <2>1, <2>2, <2>3, AppendLive
<1>5. f = l.files[s.base] /\ recs \subseteq more /\ p \in Nat /\ Sets(K, N, t.base, p)
  <2>1. n \in Nat /\ p = n + 1
    BY <1>0, <1>1
  <2>2. p \in Nat
    BY ONLY <2>1
  <2>3. recs \subseteq more
    BY DEF Adds
  <2> HIDE DEF t
  <2>. QED
    BY <1>4, <2>2, <2>3
<1> HIDE DEF f, fr, t, g
<1>6. /\ DOMAIN m.files = DOMAIN l.files /\ m.files[s.base] = g
      /\ \A c \in DOMAIN l.files : c # s.base => m.files[c] = l.files[c]
      /\ DOMAIN m.segments = DOMAIN l.segments /\ m.segments[z] = t
      /\ \A j \in DOMAIN l.segments : j # z => m.segments[j] = l.segments[j]
  <2>1. z \in DOMAIN l.segments /\ SoundLog(l) /\ t.base = l.segments[z].base
    BY <1>0, <1>1, <1>4
  <2>. QED
    BY <1>2, <1>4, <2>1, PutParts
<1>7. LifeLog(m, more, K)
  <2>1. t.base = l.segments[z].base /\ Written(g, t.base, p, more)
    BY <1>0, <1>4
  <2>. QED
    BY <1>1, <1>2, <1>3, <1>4, <1>5, <2>1, LifeReplace
<1>8. Alone(m, z)
  BY <1>0, <1>4, <1>6 DEF Alone
<1>9. \A b \in DOMAIN l.files : m.files[b].store = l.files[b].store
  BY <1>4, <1>5, <1>6
<1>10. LastTouched(m, l, z, s)
  BY <1>4, <1>6, <1>9 DEF LastTouched
<1>. QED
  BY <1>4, <1>6, <1>7, <1>8, <1>10

\* A file with another length of the index that is possible too.
LEMMA WrittenLength ==
    ASSUME NEW f, NEW b, NEW n, NEW recs, Written(f, b, n, recs), NEW g,
           g.store = f.store, g.slots = f.slots, g.indexed,
           g.ilen = entryWidth * n \/ g.ilen = MaxIndexBytes
    PROVE  Written(g, b, n, recs)
BY DEF Written

\* The file that Close makes of the file f of segment s.
ClosedFile(g, s, f) ==
    /\ g.store = Flushed(f, s.buf).store /\ g.slots = f.slots
    /\ g.ilen = s.isize /\ g.indexed

\* m is l with segment i closed.
OneClosed(m, l, i) ==
    LET s == l.segments[i]
    IN  /\ DOMAIN m.files = DOMAIN l.files /\ DOMAIN m.segments = DOMAIN l.segments
        /\ Grew(l.files, m.files)
        /\ ClosedFile(m.files[s.base], s, l.files[s.base])
        /\ m.segments[i].base = s.base
        /\ \A j \in DOMAIN l.segments : j # i => m.segments[j] = l.segments[j]
        /\ \A b \in DOMAIN l.files : b # s.base => m.files[b] = l.files[b]

\* Closing a segment: the cut takes nothing but zeros, and the object has become one
\* of those that have no buffer.
LEMMA LifeClose ==
    ASSUME NEW recs, NEW l, NEW N, LifeLog(l, recs, N), NEW i \in DOMAIN l.segments,
           NEW m, m = CloseSegment(l, i)
    PROVE  LifeLog(m, recs, N) /\ OneClosed(m, l, i)
<1> DEFINE s == l.segments[i]
           f == l.files[s.base]
           c == Cut(f, s)
           t == [s EXCEPT !.buf = <<>>]
           g == Flushed(c, s.buf)
           n == N[s.base]
<1>1. /\ s \in Segment /\ f \in File /\ s.base \in DOMAIN l.files /\ s.base \in Nat
      /\ SoundLog(l) /\ N \in [Nat -> Nat] /\ n \in Nat /\ i \in DOMAIN l.segments
      /\ f.indexed /\ Written(f, s.base, n, recs) /\ Sound(s)
      /\ Again(s, n) \/ (Live(s, f, n, recs) /\ Alone(l, i))
  BY LifeShape DEF LifeLog
<1>2. m = PutSegment(l, i, t, g) /\ SoundLog(m)
  BY <1>1, CloseSegmentSound DEF CloseSegment, Cut
<1>3. t.base = s.base /\ t.next = s.next /\ t.isize = s.isize /\ t.buf = <<>>
  BY <1>1 DEF Segment
<1>4. s.isize = entryWidth * n \/ s.isize = MaxIndexBytes
  <2>1. CASE Again(s, n)
    BY <2>1 DEF Again, Counts
  <2>2. CASE Live(s, f, n, recs)
    <3>1. /\ s.isize = entryWidth * (s.next - s.base) /\ s.next = s.base + n
          /\ s.base \in Nat /\ n \in Nat
      BY <1>1, <2>2 DEF Live, Consistent, Segment
    <3>2. s.next - s.base = n
      BY <3>1
    <3>. QED
      BY <3>1, <3>2
  <2>. QED
    BY <1>1, <2>1, <2>2
<1>5. /\ c \in File /\ c.store = f.store /\ c.slots = f.slots
      /\ c.ilen = s.isize /\ c.indexed = f.indexed
  <2>1. /\ c \in File /\ c.store = f.store
        /\ c.slots = [k \in Slots |-> IF k < s.isize \div entryWidth THEN f.slots[k]
                                      ELSE NoEntry]
    BY <1>1, CutType
  <2>2. c.ilen = s.isize /\ c.indexed = f.indexed
    BY <1>1 DEF Cut, File
  <2>3. \A k \in Slots : k < s.isize \div entryWidth \/ f.slots[k] = NoEntry
    <3>1. CASE s.isize = entryWidth * n
      <4>1. s.isize \div entryWidth = n
        BY <1>1, <3>1, SlotNumbers DEF Written
      <4>2. \A k \in Slots : k >= n => f.slots[k] = NoEntry
        BY <1>1 DEF Written
      <4>3. \A k \in Slots : k < n \/ k >= n
        BY <1>1, SlotNumbers
      <4>. QED
        BY <4>1, <4>2, <4>3
    <3>2. CASE s.isize = MaxIndexBytes
      BY <3>2, SlotNumbers DEF Slots
    <3>. QED
      BY <1>4, <3>1, <3>2
  <2> HIDE DEF c
  <2>4. f.slots \in [Slots -> Entry]
    BY <1>1 DEF File
  <2>5. c.slots = f.slots
    BY <2>1, <2>3, <2>4
  <2>. QED
    BY <2>1, <2>2, <2>5
<1> HIDE DEF c
<1>6. Written(c, s.base, n, recs)
  BY <1>1, <1>4, <1>5, WrittenLength
<1>7. /\ g.indexed /\ g.ilen = s.isize /\ g.slots = f.slots /\ Longer(f.store, g.store)
      /\ g.store = Flushed(f, s.buf).store
      /\ Written(g, s.base, n, recs) /\ Again(t, n)
  <2> HIDE DEF s, f, n
  <2>1. CASE Again(s, n)
    <3>1. g = c /\ Longer(f.store, f.store) /\ Flushed(f, s.buf) = f
      BY <2>1 DEF Again, Flushed, Longer
    <3>2. Again(t, n)
      BY <1>3, <2>1 DEF Again, Counts
    <3>. QED
      BY <1>1, <1>5, <1>6, <3>1, <3>2
  <2>2. CASE Live(s, f, n, recs)
    <3>1. Consistent(s, f, recs) /\ s.next = s.base + n
      BY <2>2 DEF Live
    <3>2. Consistent(s, c, recs)
      BY <1>5, <3>1 DEF Consistent
    <3>3. /\ g = [c EXCEPT !.store = c.store \o s.buf]
          /\ Flushed(f, s.buf) = [f EXCEPT !.store = f.store \o s.buf]
      <4>1. s \in Segment /\ f \in File /\ c \in File
        BY <1>1, <1>5
      <4> HIDE DEF t
      <4>2. Flushed(f, s.buf) = [f EXCEPT !.store = f.store \o s.buf]
        BY <3>1, <4>1, FlushedFrames
      <4>3. Flushed(c, s.buf) = [c EXCEPT !.store = c.store \o s.buf]
        BY <3>2, <4>1, FlushedFrames
      <4>. QED
        BY <4>2, <4>3
    <3>4. t \in Segment /\ g \in File /\ Consistent(t, g, recs)
      BY <1>1, <1>5, <3>2, FlushConsistent
    <3>5. /\ g.store = f.store \o s.buf /\ g.slots = f.slots
          /\ g.ilen = s.isize /\ g.indexed
      BY <1>1, <1>5, <3>3 DEF File
    <3>6. Flushed(f, s.buf).store = f.store \o s.buf
      BY <1>1, <3>3 DEF File
    <3> HIDE DEF t, g
    <3>7. n = t.next - t.base /\ s.isize = entryWidth * n
      BY <1>1, <1>3, <3>1 DEF Consistent, Segment
    <3>8. \A k \in Slots : k >= n => g.slots[k] = NoEntry
      BY <1>1, <3>5 DEF Written
    <3>9. Written(g, t.base, n, recs)
      BY <3>4, <3>5, <3>7, <3>8, ConsistentWritten
    <3>10. Again(t, n)
      BY <1>3, <3>1, <3>7 DEF Again, Counts
    <3>11. Longer(f.store, g.store)
      <4>1. f.store \in Seq(Frame) /\ s.buf \in Seq(Frame)
        BY <1>1 DEF File, Segment
      <4>. QED
        BY <3>5, <4>1, LongerConcat
    <3>. QED
      BY <1>3, <3>5, <3>6, <3>9, <3>10, <3>11
  <2>. QED
    BY <1>1, <2>1, <2>2
<1> HIDE DEF t, g
<1>8. /\ DOMAIN m.files = DOMAIN l.files /\ m.files[s.base] = g
      /\ \A b \in DOMAIN l.files : b # s.base => m.files[b] = l.files[b]
      /\ DOMAIN m.segments = DOMAIN l.segments /\ m.segments[i] = t
      /\ \A j \in DOMAIN l.segments : j # i => m.segments[j] = l.segments[j]
  BY <1>1, <1>2, <1>3, PutParts
<1>9. LifeLog(m, recs, N)
  <2>1. t.base = l.segments[i].base /\ n = N[t.base] /\ Written(g, t.base, n, recs)
    BY <1>3, <1>7
  <2> HIDE DEF s, f, n
  <2>. QED
    BY <1>2, <1>7, <2>1, LifeReplaceSame
<1>10. Grew(l.files, m.files)
  <2> SUFFICES \A b \in DOMAIN l.files : Longer(l.files[b].store, m.files[b].store)
    BY <1>8 DEF Grew
  <2>1. TAKE b \in DOMAIN l.files
  <2>2. CASE b = s.base
    BY <1>7, <1>8, <2>2
  <2>3. CASE b # s.base
    BY <1>8, <2>3 DEF Longer
  <2>. QED
    BY <2>2, <2>3
<1>. QED
  BY <1>3, <1>7, <1>8, <1>9, <1>10 DEF OneClosed, ClosedFile

\* Base b has an index file already.
IsOld(l, b) == b \in DOMAIN l.files /\ l.files[b].indexed

\* m is l after newSegment made s of base b, for which n entries are written: those of
\* an old index, if there is one.
Opens(m, l, N, b, z, s, n) ==
    /\ m = NewSegment(l, b) /\ z = Len(l.segments) + 1
    /\ s = OpenSegment(FileOf(l.files, b), b)
    /\ n = IF IsOld(l, b) THEN N[b] ELSE 0

\* newSegment for a base that has no object yet or only objects of an old file.
LEMMA LifeOpen ==
    ASSUME NEW recs, NEW l, NEW N, LifeLog(l, recs, N), NEW b \in Nat,
           \A i \in DOMAIN l.segments : l.segments[i].base = b => Again(l.segments[i], N[b]),
           NEW m, NEW z, NEW s, NEW n, Opens(m, l, N, b, z, s, n),
           NEW K, Sets(K, N, b, n)
    PROVE  /\ m.segments[z] = s /\ LifeLog(m, recs, K) /\ Len(m.segments) = z /\ DOMAIN m.segments = 1 .. z
           /\ \A i \in DOMAIN l.segments : m.segments[i] = l.segments[i]
           /\ DOMAIN m.files = DOMAIN l.files \cup {b} /\ Grew(l.files, m.files)
           /\ \A c \in DOMAIN l.files : m.files[c].slots = l.files[c].slots
           /\ \A c \in DOMAIN l.files : c # b => m.files[c] = l.files[c]
           /\ m.files[b].indexed /\ m.files[b].ilen = MaxIndexBytes
           /\ s.base = b /\ s.buf = <<>> /\ Again(s, K[b]) /\ s.base <= s.next
           /\ IsOld(l, b) /\ l.files[b].ilen = MaxIndexBytes => IndexMaxed(s) /\ b < s.next
           /\ IsOld(l, b) /\ l.files[b].ilen = entryWidth * N[b] =>
                 s.isize = entryWidth * N[b] /\ s.next = b + N[b]
           /\ ~IsOld(l, b) => Live(s, m.files[b], K[b], recs) /\ Alone(m, z)
<1> DEFINE old == IsOld(l, b)
           f == FileOf(l.files, b)
           g == Grown(f)
<1>0. /\ m = NewSegment(l, b) /\ z = Len(l.segments) + 1
      /\ s = OpenSegment(f, b)
      /\ n = IF old THEN N[b] ELSE 0
  BY DEF Opens
<1>1. /\ SoundLog(l) /\ N \in [Nat -> Nat] /\ l.segments \in Seq(Segment)
      /\ Len(l.segments) \in Nat /\ DOMAIN l.segments = 1 .. Len(l.segments)
  BY LifeShape DEF LifeLog, SoundLog
<1>2. K \in [Nat -> Nat] /\ (~old => K[b] = 0) /\ (old => K = N) /\ K[b] = n
      /\ \A c \in Nat : c # b => K[c] = N[c]
  <2>1. K \in [Nat -> Nat] /\ K[b] = n /\ \A c \in Nat : c # b => K[c] = N[c]
    BY <1>0 DEF Sets
  <2>2. old => K = N
    BY <1>0, <1>1, <2>1
  <2>. QED
    BY <1>0, <1>1, <2>1, <2>2
<1>3. f \in File /\ Written(f, b, K[b], recs) /\ (old => f = l.files[b]) /\ (~old => f = NoFile)
  <2>1. CASE old
    BY <1>0, <1>2, <2>1, LifeShape DEF IsOld, FileOf, LifeLog
  <2>2. CASE ~old
    <3>1. f = NoFile
      BY <1>0, <2>2 DEF IsOld, FileOf, LifeLog, Written
    <3>. QED
      BY <1>2, <2>2, <3>1, GrownType, NothingWritten
  <2>. QED
    BY <2>1, <2>2
<1>4. /\ m.files = PutFile(l.files, b, g) /\ m.segments = Append(l.segments, s)
      /\ SoundLog(m)
  BY <1>0, <1>1, NewSegmentSound DEF NewSegment
<1>5. s.base = b /\ s.buf = <<>> /\ s \in Segment /\ s.base <= s.next
  BY <1>0, <1>3, OpenedSound DEF Sound, f
<1>6. /\ Written(g, b, K[b], recs) /\ g.indexed /\ g.ilen = MaxIndexBytes
      /\ g.store = f.store /\ g.slots = f.slots
  BY <1>3, GrownWritten, GrownType
<1>7. /\ Again(s, K[b])
      /\ f.ilen = MaxIndexBytes => IndexMaxed(s) /\ b < s.next
      /\ f.ilen = entryWidth * K[b] => s.isize = f.ilen /\ s.next = b + K[b]
  <2>1. n \in Nat /\ f \in File /\ Written(f, b, n, recs)
    BY <1>2, <1>3
  <2> HIDE DEF f, g
  <2>2. /\ Again(OpenSegment(f, b), n)
        /\ f.ilen = MaxIndexBytes =>
              IndexMaxed(OpenSegment(f, b)) /\ b < OpenSegment(f, b).next
        /\ f.ilen = entryWidth * n =>
              OpenSegment(f, b).isize = f.ilen /\ OpenSegment(f, b).next = b + n
    BY <2>1, OpenedAgain
  <2>. QED
    BY <1>0, <1>2, <2>2
<1>8. ASSUME ~old PROVE Live(s, g, K[b], recs)
  <2>1. f = NoFile /\ K[b] = 0
    BY <1>2, <1>3, <1>8
  <2>2. Consistent(s, g, recs) /\ s.next = b
    BY <1>0, <2>1, FreshConsistent
  <2>3. s.next = s.base + K[b]
    BY <1>5, <2>1, <2>2
  <2>4. \A k \in Slots : g.slots[k] = NoEntry
    BY <1>6, <2>1 DEF NoFile
  <2>. QED
    BY <1>6, <2>2, <2>3, <2>4 DEF Live
<1> HIDE DEF f, g
<1>9. /\ DOMAIN m.files = DOMAIN l.files \cup {b} /\ m.files[b] = g
      /\ \A c \in DOMAIN l.files : c # b => m.files[c] = l.files[c]
  BY <1>4 DEF PutFile
<1>10. /\ Len(m.segments) = z /\ DOMAIN m.segments = 1 .. z /\ m.segments[z] = s
       /\ \A i \in DOMAIN l.segments : m.segments[i] = l.segments[i]
       /\ \A i \in 1 .. z : i = z \/ i \in DOMAIN l.segments
       /\ z \notin DOMAIN l.segments
  <2> DEFINE had == l.segments
             new == m.segments
  <2>1. had \in Seq(Segment) /\ s \in Segment /\ new = Append(had, s)
    BY <1>1, <1>4, <1>5
  <2> HIDE DEF had, new
  <2>2. /\ Len(new) = Len(had) + 1 /\ DOMAIN new = 1 .. Len(had) + 1
        /\ new[Len(had) + 1] = s
        /\ \A i \in 1 .. Len(had) : new[i] = had[i]
    BY <2>1
  <2>3. Len(had) \in Nat /\ DOMAIN had = 1 .. Len(had) /\ z = Len(had) + 1
    BY <1>0, <1>1 DEF had
  <2>4. /\ Len(new) = z /\ DOMAIN new = 1 .. z /\ new[z] = s
        /\ \A i \in DOMAIN had : new[i] = had[i]
    BY <2>2, <2>3
  <2>5. /\ \A i \in 1 .. z : i = z \/ i \in DOMAIN had
        /\ z \notin DOMAIN had
    BY <2>3
  <2>. QED
    BY <2>4, <2>5 DEF had, new
<1>11. ASSUME NEW c \in DOMAIN m.files PROVE Written(m.files[c], c, K[c], recs)
  <2>1. CASE c = b
    BY <1>6, <1>9, <2>1
  <2>2. CASE c # b
    BY <1>2, <1>9, <2>2, LifeShape DEF LifeLog
  <2>. QED
    BY <2>1, <2>2
<1>12. ASSUME NEW i \in DOMAIN m.segments
       PROVE  LET t == m.segments[i]
                  h == m.files[t.base]
              IN  /\ h.indexed
                  /\ Again(t, K[t.base]) \/ (Live(t, h, K[t.base], recs) /\ Alone(m, i))
  <2> DEFINE t == l.segments[i]
             h == l.files[t.base]
  <2>1. CASE i = z
    BY <1>5, <1>6, <1>7, <1>9, <1>10, <2>1
  <2>2. CASE i # z
    <3>1. /\ i \in DOMAIN l.segments /\ m.segments[i] = t /\ t.base \in DOMAIN l.files
          /\ t.base \in Nat /\ h.indexed
          /\ Again(t, N[t.base]) \/ (Live(t, h, N[t.base], recs) /\ Alone(l, i))
      BY <1>10, <2>2, LifeShape DEF LifeLog
    <3>2. CASE t.base = b
      <4>1. old /\ Again(t, N[b])
        BY <1>0, <3>1, <3>2 DEF IsOld
      <4>. QED
        BY <1>2, <1>6, <1>9, <3>1, <3>2, <4>1
    <3>3. CASE t.base # b
      <4>1. m.files[t.base] = h /\ K[t.base] = N[t.base]
        BY <1>2, <1>9, <3>1, <3>3
      <4>2. Alone(l, i) => Alone(m, i)
        BY <1>5, <1>10, <3>1, <3>3 DEF Alone
      <4>. QED
        BY <3>1, <4>1, <4>2
    <3>. QED
      BY <3>2, <3>3
  <2>. QED
    BY <2>1, <2>2
<1>13. LifeLog(m, recs, K)
  BY <1>2, <1>4, <1>11, <1>12 DEF LifeLog
<1>14. \A c \in DOMAIN l.files : /\ Longer(l.files[c].store, m.files[c].store)
                                 /\ m.files[c].slots = l.files[c].slots
  <2>1. TAKE c \in DOMAIN l.files
  <2>2. CASE c = b
    <3>1. f.store = l.files[b].store /\ f.slots = l.files[b].slots
      BY <2>2 DEF f, FileOf
    <3>. QED
      BY <1>6, <1>9, <2>2, <3>1 DEF Longer
  <2>3. CASE c # b
    BY <1>9, <2>3 DEF Longer
  <2>. QED
    BY <2>2, <2>3
<1>15. Grew(l.files, m.files)
  BY <1>9, <1>14 DEF Grew
<1>16. ~old => Alone(m, z)
  <2> SUFFICES ASSUME ~old, NEW j \in DOMAIN m.segments, j # z
               PROVE  m.segments[j].base # m.segments[z].base
    BY DEF Alone
  <2>1. j \in DOMAIN l.segments /\ m.segments[j] = l.segments[j]
    BY <1>10
  <2>2. l.files[l.segments[j].base].indexed /\ l.segments[j].base \in DOMAIN l.files
    BY <2>1, LifeShape DEF LifeLog
  <2>. QED
    BY <1>0, <1>5, <1>10, <2>1, <2>2 DEF IsOld
<1>17. /\ old /\ l.files[b].ilen = MaxIndexBytes => IndexMaxed(s) /\ b < s.next
       /\ old /\ l.files[b].ilen = entryWidth * N[b] =>
             s.isize = entryWidth * N[b] /\ s.next = b + N[b]
  BY <1>2, <1>3, <1>7
<1>. QED
  BY <1>5, <1>6, <1>7, <1>8, <1>9, <1>10, <1>13, <1>14, <1>15, <1>16, <1>17

-----------------------------------------------------------------------------
(* A process that is up.                                                    *)

\* The last object is one that appends, or full with nextOffset past its base; no
\* file has a greater base.
Ready(l, recs, N) ==
    /\ l.segments # <<>>
    /\ \A b \in DOMAIN l.files : b <= Last(l.segments).base
    /\ LET s == Last(l.segments)
       IN  \/ IndexMaxed(s) /\ s.base < s.next
           \/ /\ Live(s, l.files[s.base], N[s.base], recs)
              /\ Alone(l, Len(l.segments))

\* The last object appends, and has room.
Active(l, recs, N) == Ready(l, recs, N) /\ ~IndexMaxed(Last(l.segments))

\* Every object counts the entries that its file has.
Counted(l, N) ==
    \A i \in DOMAIN l.segments :
        l.segments[i].next = l.segments[i].base + N[l.segments[i].base]

LEMMA LastSegment ==
    ASSUME NEW recs, NEW l, NEW N, LifeLog(l, recs, N), l.segments # <<>>
    PROVE  /\ Len(l.segments) \in DOMAIN l.segments
           /\ Last(l.segments) = l.segments[Len(l.segments)]
           /\ Last(l.segments) \in Segment
           /\ Last(l.segments).base \in DOMAIN l.files /\ Last(l.segments).base \in Nat
           /\ Last(l.segments).next \in Nat
           /\ l.files[Last(l.segments).base] \in File
<1>1. Len(l.segments) # 0
  BY EmptySeq, LifeShape DEF LifeLog, SoundLog
<1>2. Len(l.segments) \in DOMAIN l.segments
  BY <1>1, LifeShape
<1>. QED
  BY <1>2, LifeShape DEF Last, Segment

\* What a rollover makes of l: nothing, or a log with one more segment and file.
RollsTo(m, l) ==
    /\ \A b \in DOMAIN l.files : b \in DOMAIN m.files /\ m.files[b] = l.files[b]
    /\ \A i \in DOMAIN l.segments : i \in DOMAIN m.segments /\ m.segments[i] = l.segments[i]
    /\ \/ m = l
       \/ /\ Len(m.segments) = Len(l.segments) + 1
          /\ Last(m.segments).base \notin DOMAIN l.files

\* The first half of Append: the next base is above all that have files, so that the
\* new segment gets new files.
LEMMA LifeRoll ==
    ASSUME NEW recs, NEW l, NEW N, LifeLog(l, recs, N), Ready(l, recs, N),
           NEW m, m = Rolled(l, HighestOffset(l))
    PROVE  /\ RollsTo(m, l)
           /\ \E K : LifeLog(m, recs, K) /\ Active(m, recs, K) /\ (Counted(l, N) => Counted(m, K))
<1> DEFINE s == Last(l.segments)
           z == Len(l.segments)
           b == s.next
<1>1. /\ z \in DOMAIN l.segments /\ s = l.segments[z] /\ s \in Segment
      /\ s.base \in DOMAIN l.files /\ s.base \in Nat /\ s.next \in Nat
      /\ l.files[s.base] \in File /\ b \in Nat
  BY LastSegment DEF Ready
<1>2. CASE ~IsMaxed(s)
  <2>1. m = l /\ ~IndexMaxed(s)
    BY <1>2 DEF Rolled, IsMaxed
  <2>2. Active(l, recs, N)
    BY <2>1 DEF Active
  <2>. QED
    BY <2>1, <2>2 DEF RollsTo
<1>3. CASE IsMaxed(s)
  <2>1. s.base < s.next
    BY <1>1, <1>3, MaxedHolds DEF Ready, Live
  <2>2. m = NewSegment(l, b)
    <3>1. HighestOffset(l) + 1 = b
      BY <1>1, <2>1 DEF HighestOffset
    <3>. QED
      BY <1>3, <3>1 DEF Rolled
  <2>3. b \notin DOMAIN l.files /\ \A c \in DOMAIN l.files : c <= b
    BY <1>1, <2>1, LifeShape DEF Ready
  <2> HIDE DEF b
  <2>4. PICK K : Sets(K, N, b, 0)
    BY <1>1, SomeSets DEF b, LifeLog
  <2>5. PICK w : w = Len(l.segments) + 1
    OBVIOUS
  <2>6. \A i \in DOMAIN l.segments : l.segments[i].base = b => Again(l.segments[i], N[b])
    BY <2>3, LifeShape
  <2>7. LET u == m.segments[w]
        IN  /\ LifeLog(m, recs, K) /\ Len(m.segments) = w /\ DOMAIN m.segments = 1 .. w
            /\ \A i \in DOMAIN l.segments : m.segments[i] = l.segments[i]
            /\ DOMAIN m.files = DOMAIN l.files \cup {b}
            /\ \A c \in DOMAIN l.files : c # b => m.files[c] = l.files[c]
            /\ u.base = b
            /\ Live(u, m.files[b], K[b], recs) /\ Alone(m, w)
    <3>1. PICK u : u = OpenSegment(FileOf(l.files, b), b)
      OBVIOUS
    <3>2. Opens(m, l, N, b, w, u, 0) /\ b \in Nat /\ ~IsOld(l, b)
      BY <1>1, <2>2, <2>3, <2>5, <3>1 DEF Opens, IsOld, b
    <3>. QED
      BY <2>4, <2>6, <3>2, LifeOpen
  <2>8. Len(l.segments) \in Nat /\ DOMAIN l.segments = 1 .. Len(l.segments) /\ w \in Nat \ {0}
        /\ w = Len(l.segments) + 1
    BY <2>5, LifeShape
  <2>9. m.segments # <<>> /\ Last(m.segments) = m.segments[w] /\ w \in DOMAIN m.segments
    BY <2>7, <2>8 DEF Last
  <2>10. m.segments[w] \in Segment
    BY <2>7, <2>9, LifeShape
  <2>11. ~IndexMaxed(m.segments[w]) /\ m.segments[w].next = b + K[b]
    <3> DEFINE u == m.segments[w]
    <3>1. /\ Consistent(u, m.files[b], recs) /\ u.next = u.base + K[b] /\ u.base = b
          /\ u.isize \in Nat
      BY <2>7, <2>10 DEF Live, Segment
    <3>2. K[b] = 0 /\ b \in Nat
      BY <1>1, <2>4 DEF b, Sets
    <3> HIDE DEF u
    <3>3. u.isize = entryWidth * (u.next - u.base)
      BY <3>1 DEF Consistent
    <3>4. u.isize = 0
      BY <3>1, <3>2, <3>3 DEF entryWidth
    <3>. QED
      BY <3>1, <3>4, ConfigAssumption DEF IndexMaxed, ConfigAssumption, entryWidth, u
  <2>12. Active(m, recs, K)
    <3>1. \A c \in DOMAIN m.files : c <= b
      BY <1>1, <2>3, <2>7 DEF b
    <3>2. /\ Last(m.segments).base = b /\ Len(m.segments) = w
          /\ Live(Last(m.segments), m.files[b], K[b], recs) /\ Alone(m, w)
      BY <2>7, <2>9
    <3>3. m.segments # <<>> /\ ~IndexMaxed(Last(m.segments))
      BY <2>9, <2>11
    <3>. QED
      BY <3>1, <3>2, <3>3 DEF Active, Ready
  <2>13. RollsTo(m, l)
    BY <2>3, <2>7, <2>8, <2>9 DEF RollsTo
  <2>14. ASSUME Counted(l, N) PROVE Counted(m, K)
    <3> SUFFICES ASSUME NEW i \in DOMAIN m.segments
                 PROVE  m.segments[i].next = m.segments[i].base + K[m.segments[i].base]
      BY DEF Counted
    <3>1. CASE i = w
      BY <2>7, <2>11, <3>1
    <3>2. CASE i # w
      <4>1. i \in DOMAIN l.segments /\ m.segments[i] = l.segments[i]
        BY <2>7, <2>8, <3>2
      <4>2. l.segments[i].base # b /\ l.segments[i].base \in Nat
        BY <2>3, <4>1, LifeShape
      <4>3. K[l.segments[i].base] = N[l.segments[i].base]
        BY <2>4, <4>2 DEF Sets
      <4>. QED
        BY <2>14, <4>1, <4>3 DEF Counted
    <3>. QED
      BY <3>1, <3>2
  <2>. QED
    BY <2>7, <2>12, <2>13, <2>14
<1>. QED
  BY <1>2, <1>3

\* What an append makes of l: only the last object and its file are touched, and
\* these only where no other object has that base; or there is a new one.
AppendsTo(m, l) ==
    /\ Grew(l.files, m.files)
    /\ \A b \in DOMAIN l.files :
          \/ m.files[b] = l.files[b]
          \/ b = Last(l.segments).base /\ Alone(l, Len(l.segments))
    /\ \A i \in DOMAIN l.segments :
          /\ i \in DOMAIN m.segments
          /\ i # Len(l.segments) => m.segments[i] = l.segments[i]
    /\ \/ Len(m.segments) = Len(l.segments)
       \/ /\ Len(m.segments) = Len(l.segments) + 1
          /\ Last(m.segments).base \notin DOMAIN l.files

LEMMA LifeAppendLocked ==
    ASSUME NEW recs, NEW l, NEW N, LifeLog(l, recs, N), Ready(l, recs, N),
           NEW id \in Nat, NEW len \in Nat, NEW h, h = HighestOffset(l),
           NEW m, m = AppendLocked(l, h, id, len), NEW s, s = AppendTarget(l, h),
           NEW r, r = [offset |-> s.next, id |-> id, len |-> len],
           NEW more, Adds(more, recs, r)
    PROVE  /\ ~IndexMaxed(s) /\ s.next \in Nat /\ AppendsTo(m, l)
           /\ \A T : OnlyTorn(l.files, T) => OnlyTorn(m.files, T)
           /\ \E K : LifeLog(m, more, K) /\ Ready(m, more, K) /\ (Counted(l, N) => Counted(m, K))
<1>1. PICK o : o = Rolled(l, h)
  OBVIOUS
<1>2. m = SegmentAppend(o, id, len) /\ s = Last(o.segments)
  BY <1>1 DEF AppendLocked, AppendTarget
<1>3. RollsTo(o, l)
  BY <1>1, LifeRoll
<1>4. PICK M : LifeLog(o, recs, M) /\ Active(o, recs, M) /\ (Counted(l, N) => Counted(o, M))
  BY <1>1, LifeRoll
<1>5. PICK z, n, p : z = Len(o.segments) /\ n = M[s.base] /\ p = n + 1
  OBVIOUS
<1>6. /\ o.segments # <<>> /\ ~IndexMaxed(s) /\ s = o.segments[z] /\ s \in Segment
      /\ Live(s, o.files[s.base], n, recs) /\ Alone(o, z) /\ z \in DOMAIN o.segments
      /\ s.base \in DOMAIN o.files /\ s.base \in Nat /\ s.next \in Nat
      /\ \A b \in DOMAIN o.files : b <= s.base
  BY <1>2, <1>4, <1>5, LastSegment DEF Active, Ready
<1>70. PICK K : Sets(K, M, s.base, p)
  <2>1. M \in [Nat -> Nat] /\ s.base \in Nat
    BY <1>4, <1>6 DEF LifeLog
  <2>2. n \in Nat /\ p = n + 1
    BY <1>5, <2>1
  <2>3. p \in Nat
    BY ONLY <2>2
  <2>. QED
    BY <2>1, <2>3, SomeSets
<1>7. LastAdded(m, o, M, z, s, n, p, r, id, len)
  BY <1>2, <1>5, <1>6 DEF LastAdded, NewFrame
<1>8. /\ LifeLog(m, more, K)
      /\ DOMAIN m.files = DOMAIN o.files
      /\ DOMAIN m.segments = DOMAIN o.segments
      /\ \A b \in DOMAIN o.files : m.files[b].store = o.files[b].store
      /\ \A b \in DOMAIN o.files : b # s.base => m.files[b] = o.files[b]
      /\ \A j \in DOMAIN o.segments : j # z => m.segments[j] = o.segments[j]
      /\ m.segments[z].base = s.base /\ m.segments[z].next = s.next + 1
      /\ Live(m.segments[z], m.files[s.base], p, more) /\ Alone(m, z)
  <2>1. /\ LifeLog(m, more, K) /\ LastTouched(m, o, z, s)
        /\ Live(m.segments[z], m.files[s.base], p, more) /\ Alone(m, z)
    <3>1. /\ LifeLog(o, recs, M) /\ o.segments # <<>> /\ Alone(o, z)
          /\ Live(s, o.files[s.base], n, recs) /\ ~IndexMaxed(s)
          /\ Adds(more, recs, r) /\ id \in Nat /\ len \in Nat
      BY <1>4, <1>6
    <3>. QED
      BY ONLY <1>7, <1>70, <3>1, LifeAppend
  <2>. QED
    BY <2>1 DEF LastTouched
<1>9. Len(m.segments) = z /\ m.segments # <<>> /\ Last(m.segments) = m.segments[z]
  <2>1. SoundLog(o) /\ SoundLog(m)
    BY <1>4, <1>8 DEF LifeLog
  <2>2. Len(m.segments) = z
    BY <1>2, <1>5, <1>6, <2>1, SegmentAppendSound
  <2>3. DOMAIN m.segments # {}
    BY <1>6, <1>8
  <2>. QED
    BY <2>2, <2>3 DEF Last
<1>10. M \in [Nat -> Nat] /\ K[s.base] = p
       /\ \A c \in Nat : c # s.base => K[c] = M[c]
  BY <1>4, <1>70 DEF LifeLog, Sets
<1>11. Ready(m, more, K)
  BY <1>6, <1>8, <1>9, <1>10 DEF Ready
<1>12. ASSUME Counted(l, N) PROVE Counted(m, K)
  <2> SUFFICES ASSUME NEW i \in DOMAIN m.segments
               PROVE  m.segments[i].next = m.segments[i].base + K[m.segments[i].base]
    BY DEF Counted
  <2>1. Counted(o, M)
    BY <1>4, <1>12
  <2>2. CASE i = z
    <3>1. s.next = s.base + n /\ n \in Nat
      BY <1>5, <1>6, <1>10, <2>1 DEF Counted
    <3>2. s.next + 1 = s.base + p
      <4>1. s.base \in Nat /\ p = n + 1 /\ n \in Nat /\ s.next = s.base + n
        BY <1>5, <1>6, <3>1
      <4>. QED
        BY ONLY <4>1
    <3>. QED
      BY <1>8, <1>10, <2>2, <3>2
  <2>3. CASE i # z
    <3>1. i \in DOMAIN o.segments /\ m.segments[i] = o.segments[i]
      BY <1>8, <2>3
    <3>2. o.segments[i].base # s.base /\ o.segments[i].base \in Nat
      BY <1>4, <1>6, <2>3, <3>1, LifeShape DEF Alone
    <3>. QED
      BY <1>10, <2>1, <3>1, <3>2 DEF Counted
  <2>. QED
    BY <2>2, <2>3
<1>13. AppendsTo(m, l)
  <2>1. /\ \A b \in DOMAIN l.files : b \in DOMAIN o.files /\ o.files[b] = l.files[b]
        /\ \A i \in DOMAIN l.segments : i \in DOMAIN o.segments /\ o.segments[i] = l.segments[i]
        /\ \/ o = l
           \/ /\ Len(o.segments) = Len(l.segments) + 1
              /\ Last(o.segments).base \notin DOMAIN l.files
    BY <1>3 DEF RollsTo
  <2>2. Grew(l.files, m.files)
    BY <1>8, <2>1 DEF Grew, Longer
  <2>3. CASE o = l
    BY <1>2, <1>5, <1>6, <1>8, <1>9, <2>1, <2>2, <2>3 DEF AppendsTo
  <2>4. CASE Len(o.segments) = Len(l.segments) + 1 /\ Last(o.segments).base \notin DOMAIN l.files
    <3>1. DOMAIN l.segments = 1 .. Len(l.segments) /\ Len(l.segments) \in Nat
          /\ z = Len(l.segments) + 1
      BY <1>5, <2>4, LifeShape
    <3>2. \A i \in DOMAIN l.segments : i # z
      BY <3>1
    <3>3. \A b \in DOMAIN l.files : m.files[b] = l.files[b]
      BY <1>2, <1>8, <2>1, <2>4
    <3>4. \A i \in DOMAIN l.segments : i \in DOMAIN m.segments /\ m.segments[i] = l.segments[i]
      BY <1>8, <2>1, <3>2
    <3>5. Last(m.segments).base \notin DOMAIN l.files
      BY <1>2, <1>8, <1>9, <2>4
    <3>. QED
      BY <1>9, <2>2, <3>1, <3>3, <3>4, <3>5 DEF AppendsTo
  <2>. QED
    BY <2>1, <2>3, <2>4
<1>14. ASSUME NEW T, OnlyTorn(l.files, T) PROVE OnlyTorn(m.files, T)
  <2>1. SameSlots(l.files, o.files)
    <3>1. CASE o = l
      BY <3>1 DEF SameSlots
    <3>2. CASE o # l
      <4>1. PICK c : c = h + 1 /\ o = NewSegment(l, c)
        BY <1>1, <3>2 DEF Rolled
      <4>2. Last(l.segments).next \in Nat
        BY LastSegment DEF Ready
      <4>3. c \in Nat
        BY <4>1, <4>2 DEF HighestOffset
      <4>. QED
        BY <4>1, <4>3, NewSegmentSlots DEF LifeLog
    <3>. QED
      BY <3>1, <3>2
  <2>2. OnlyTorn(o.files, T)
    BY <1>14, <2>1, SameSlotsTorn
  <2>3. \A k \in Slots : ~HalfWritten(m.files[s.base].slots[k])
    <3>1. /\ m.segments[z] \in Segment /\ m.files[s.base] \in File /\ p \in Nat
          /\ Live(m.segments[z], m.files[s.base], p, more)
      BY <1>5, <1>6, <1>8, <1>10, LifeShape
    <3>. QED
      BY <3>1, LiveWhole
  <2>. QED
    BY <1>8, <2>2, <2>3 DEF OnlyTorn
<1>. QED
  BY <1>6, <1>8, <1>11, <1>12, <1>13, <1>14

\* The search among the objects of such a log.
LEMMA LifeFound ==
    ASSUME NEW recs, NEW l, NEW N, LifeLog(l, recs, N), NEW off,
           NEW i, i = FindSegment(l, off)
    PROVE  /\ i # 0 => /\ i \in DOMAIN l.segments
                       /\ l.segments[i].base <= off /\ off <= l.segments[i].next
           /\ \A j \in DOMAIN l.segments :
                 l.segments[j].base <= off /\ off <= l.segments[j].next
                     => i # 0 /\ i <= j
<1> DEFINE hits == {j \in DOMAIN l.segments :
                       l.segments[j].base <= off /\ off <= l.segments[j].next}
<1>1. hits \in SUBSET Nat /\ 0 \notin hits
  BY LifeShape
<1>2. i = IF hits = {} THEN 0 ELSE Min(hits)
  BY DEF FindSegment
<1>3. hits # {} => i \in hits /\ \A j \in hits : i <= j
  <2> HIDE DEF hits
  <2>1. hits # {} => Min(hits) \in hits /\ \A j \in hits : Min(hits) <= j
    BY <1>1, MinIsLeast
  <2>. QED
    BY <1>2, <2>1
<1>4. hits = {} => i = 0
  BY <1>2
<1>. QED
  BY <1>1, <1>3, <1>4

\* The result res of a read at pos is the record of a frame that is there.
Decodes(res, frames, pos) ==
    \E j \in DOMAIN frames : frames[j].pos = pos /\ res.rec = frames[j].rec

\* A frame that store.Read decodes is at the position it was given.
LEMMA ReadFrame ==
    ASSUME NEW frames, NEW pos, NEW res, res = StoreRead(frames, pos), res.err = ""
    PROVE  Decodes(res, frames, pos)
<1> DEFINE at == {j \in DOMAIN frames : frames[j].pos = pos}
           j == CHOOSE j \in at : TRUE
<1>1. Failure("EOF").err # "" /\ Failure("ZeroSize").err # ""
  BY DEF Failure
<1>2. at # {}
  BY <1>1 DEF StoreRead
<1>3. j \in at
  BY <1>2
<1> HIDE DEF j
<1>4. StoreRead(frames, pos) = IF MarshalLen(frames[j].rec) = 0 THEN Failure("ZeroSize")
                               ELSE [err |-> "", rec |-> frames[j].rec]
  BY <1>2 DEF StoreRead, j
<1>5. StoreRead(frames, pos) = [err |-> "", rec |-> frames[j].rec]
  BY <1>1, <1>4
<1>6. StoreRead(frames, pos).rec = frames[j].rec
  BY <1>5, RecordOfResult
<1>. QED
  BY <1>3, <1>6 DEF Decodes

\* r is a record of recs for offset off.
OneOf(r, off, recs) == r \in recs /\ r.offset = off

\* Entry k of a file leads to frame k + 1 or to no frame, and a slot of zeros is
\* reached only where the store is empty.  A half-written entry leads to the first
\* frame.
LEMMA WrittenLeads ==
    ASSUME NEW recs, NEW f \in File, NEW b \in Nat, NEW n \in Nat, Written(f, b, n, recs),
           NEW k \in Nat, k < n \/ n = 0,
           NEW j \in DOMAIN f.store, f.store[j].pos = f.slots[k].pos, NEW off, off = b + k
    PROVE  \/ OneOf(f.store[j].rec, off, recs)
           \/ /\ OneOf(f.store[j].rec, b, recs)
              /\ HalfWritten(f.slots[k]) /\ f.slots[k].off = k /\ k \in Slots
<1> DEFINE q == Len(f.store)
<1>1. /\ f.store \in Seq(Frame) /\ q \in Nat /\ DOMAIN f.store = 1 .. q /\ q <= n
      /\ \A i \in 1 .. q : f.store[i] \in Frame
  BY DEF File, Written
<1>2. \A i \in 1 .. q : /\ f.store[i].pos \in Nat /\ FrameEnd(f.store[i]) \in Nat
                        /\ f.store[i].pos < FrameEnd(f.store[i])
  <2> SUFFICES ASSUME NEW i \in 1 .. q
               PROVE  /\ f.store[i].pos \in Nat /\ FrameEnd(f.store[i]) \in Nat
                      /\ f.store[i].pos < FrameEnd(f.store[i])
    OBVIOUS
  <2>1. f.store[i] \in Frame
    BY <1>1
  <2>. QED
    BY <2>1, FrameEndType DEF Frame, lenWidth
<1>3. \A i \in 1 .. q : \A h \in 1 .. i - 1 : FrameEnd(f.store[h]) <= f.store[i].pos
  BY <1>1 DEF Written
<1>4. j \in 1 .. q /\ n # 0 /\ k < n
  BY <1>1
<1>5. StoreBytes(f.store) = FrameEnd(f.store[q])
  BY <1>1, <1>4 DEF StoreBytes, Last
<1> HIDE DEF q
<1>6. CASE k < q
  <2>1. k + 1 \in 1 .. q /\ (k + 1) - 1 = k
    BY <1>1, <1>6
  <2>2. /\ f.slots[(k + 1) - 1] = [off |-> (k + 1) - 1, pos |-> f.store[k + 1].pos]
        /\ f.store[k + 1].rec \in recs
        /\ f.store[k + 1].rec.offset = b + (k + 1) - 1
    BY <1>1, <2>1 DEF Written
  <2>3. f.store[j].pos = f.store[k + 1].pos
    BY <2>1, <2>2
  <2>4. j = k + 1
    <3>1. CASE j < k + 1
      <4>1. j \in 1 .. (k + 1) - 1
        BY <1>4, <2>1, <3>1
      <4>. QED
        BY <1>2, <1>3, <1>4, <2>1, <2>3, <4>1
    <3>2. CASE j > k + 1
      <4>1. k + 1 \in 1 .. j - 1
        BY <1>1, <1>4, <2>1, <3>2
      <4>. QED
        BY <1>2, <1>3, <1>4, <2>1, <2>3, <4>1
    <3>. QED
      BY <1>1, <1>4, <2>1, <3>1, <3>2
  <2>5. b + (k + 1) - 1 = off
    BY <2>1
  <2>. QED
    BY <2>2, <2>4, <2>5 DEF OneOf
<1>7. CASE ~(k < q)
  <2>1. k \in q .. n - 1
    BY <1>1, <1>4, <1>7
  <2>2. f.slots[k].off = k /\ (FrameEnd(f.store[q]) <= f.slots[k].pos \/ HalfWritten(f.slots[k]))
    BY <1>5, <2>1 DEF Written, q
  <2>3. f.store[j].pos < FrameEnd(f.store[q])
    <3>1. CASE j = q
      BY <1>2, <1>4, <3>1
    <3>2. CASE j # q
      <4>1. j \in 1 .. q - 1 /\ q \in 1 .. q
        BY <1>1, <1>4, <3>2
      <4>. QED
        BY <1>2, <1>3, <1>4, <4>1
    <3>. QED
      BY <3>1, <3>2
  <2>4. f.store[j].pos \in Nat /\ q \in 1 .. q /\ FrameEnd(f.store[q]) \in Nat
    BY <1>1, <1>2, <1>4
  <2>5. HalfWritten(f.slots[k])
    BY <2>2, <2>3, <2>4
  <2>6. k \in Slots
    <3>1. entryWidth * n <= MaxIndexBytes /\ k <= n - 1 /\ n - 1 \in Nat
      BY <1>1, <1>4 DEF Written
    <3>2. n - 1 \in Slots
      BY <1>4, <3>1, SlotNumbers
    <3>3. k \in 0 .. n - 1
      BY <3>1
    <3>. QED
      BY <3>2, <3>3, SlotsBelow
  <2>7. j = 1
    <3>1. f.store[j].pos = 0
      BY <2>5 DEF HalfWritten
    <3>2. CASE j # 1
      <4>1. 1 \in 1 .. j - 1 /\ 1 \in 1 .. q
        BY <1>1, <1>4, <3>2
      <4>. QED
        BY <1>2, <1>3, <1>4, <3>1, <4>1
    <3>. QED
      BY <3>2
  <2>8. f.store[1].rec \in recs /\ f.store[1].rec.offset = b
    <3>1. 1 \in DOMAIN f.store
      BY <1>4, <2>7
    <3>2. f.store[1].rec \in recs /\ f.store[1].rec.offset = b + 1 - 1
      BY <3>1 DEF Written
    <3>. QED
      BY <3>2
  <2>. QED
    BY <2>2, <2>5, <2>6, <2>7, <2>8 DEF OneOf
<1>. QED
  BY <1>6, <1>7

\* r is a record of recs for offset off or, where the entry was written by half, the
\* first record of the segment.
TornOrOneOf(r, l, off, recs, T) ==
    \/ OneOf(r, off, recs)
    \/ off \in T /\ OneOf(r, l.segments[FindSegment(l, off)].base, recs)

\* A read that succeeds, in whatever life, returns a record of recs with its offset,
\* unless a crash kept half of the entry.
LEMMA LifeRead ==
    ASSUME NEW recs, NEW l, NEW N, LifeLog(l, recs, N), NEW T, OnlyTorn(l.files, T),
           NEW off \in Nat, Readable(l, off)
    PROVE  TornOrOneOf(ReadLog(l, off).rec, l, off, recs, T)
<1> DEFINE i == FindSegment(l, off)
           s == l.segments[i]
           f == l.files[s.base]
           n == N[s.base]
           frames == Flushed(f, s.buf).store
           pos == f.slots[off - s.base].pos
           res == StoreRead(frames, pos)
<1>1. Failure("OffsetOutOfRange").err # "" /\ Failure("EOF").err # ""
  BY DEF Failure
<1>2. i # 0 /\ ~(s.next <= off) /\ ReadLog(l, off) = SegmentRead(l, s, off)
  BY <1>1 DEF Readable, ReadLog
<1>3. SegmentRead(l, s, off) = res /\ res.err = ""
  BY <1>1, <1>2 DEF Readable, SegmentRead
<1>4. i \in DOMAIN l.segments /\ s.base <= off
  BY <1>2, LifeFound
<1>5. /\ s \in Segment /\ f \in File /\ s.base \in Nat /\ s.next \in Nat /\ n \in Nat
      /\ Written(f, s.base, n, recs)
      /\ Again(s, n) \/ Live(s, f, n, recs)
  BY <1>4, LifeShape DEF LifeLog, Segment
<1>6. ReadLog(l, off).rec = res.rec
  BY <1>2, <1>3
<1> HIDE DEF i, s, f, n
<1>7. off - s.base \in Nat /\ off < s.next /\ s.base + (off - s.base) = off
  BY <1>2, <1>4, <1>5
<1>8. CASE Again(s, n)
  <2>1. frames = f.store
    BY <1>8 DEF Again, Flushed
  <2>2. PICK j \in DOMAIN f.store : f.store[j].pos = pos /\ res.rec = f.store[j].rec
    <3>1. StoreRead(f.store, pos).err = "" /\ res = StoreRead(f.store, pos)
      BY <1>3, <2>1
    <3> DEFINE store == f.store
    <3> HIDE DEF pos, res, frames, store
    <3>2. res.err = "" /\ res = StoreRead(store, pos)
      BY <3>1 DEF store
    <3>3. Decodes(res, store, pos)
      BY <3>2, ReadFrame
    <3>. QED
      BY <3>3 DEF store, Decodes
  <2>3. off - s.base < n \/ n = 0
    BY <1>5, <1>7, <1>8 DEF Again, Counts
  <2> DEFINE k == off - s.base
  <2> HIDE DEF k
  <2>4. /\ k \in Nat /\ (k < n \/ n = 0) /\ f.store[j].pos = f.slots[k].pos
        /\ off = s.base + k /\ j \in DOMAIN f.store
    BY <1>7, <2>2, <2>3 DEF k
  <2> HIDE DEF pos, res, frames
  <2>5. \/ OneOf(f.store[j].rec, off, recs)
        \/ /\ OneOf(f.store[j].rec, s.base, recs)
           /\ HalfWritten(f.slots[k]) /\ f.slots[k].off = k /\ k \in Slots
    BY <1>5, <2>4, WrittenLeads
  <2>6. CASE OneOf(f.store[j].rec, off, recs)
    BY <1>6, <2>2, <2>6 DEF TornOrOneOf
  <2>7. CASE OneOf(f.store[j].rec, s.base, recs)
             /\ HalfWritten(f.slots[k]) /\ f.slots[k].off = k /\ k \in Slots
    <3>1. s.base \in DOMAIN l.files
      BY <1>4, LifeShape DEF s
    <3>2. s.base + f.slots[k].off \in T
      BY <2>7, <3>1 DEF OnlyTorn, f
    <3>3. off \in T
      BY <2>4, <2>7, <3>2
    <3>. QED
      BY <1>6, <2>2, <2>7, <3>3 DEF TornOrOneOf, s, i
  <2>. QED
    BY <2>5, <2>6, <2>7
<1>9. CASE Live(s, f, n, recs)
  <2>1. Consistent(s, f, recs) /\ off \in s.base .. s.next - 1
    BY <1>4, <1>5, <1>7, <1>9 DEF Live
  <2>2. ReadsOne(s, f, off, recs)
    BY <1>5, <2>1, ReadConsistent
  <2>3. PICK r \in recs : r.offset = off /\ res = ResultOf(r)
    BY <2>2 DEF ReadsOne
  <2>4. res = [err |-> "", rec |-> r]
    <3>1. Failure("ZeroSize").err # ""
      BY DEF Failure
    <3>. QED
      BY <1>3, <2>3, <3>1 DEF ResultOf
  <2>5. res.rec = r
    BY <2>4, RecordOfResult
  <2>. QED
    BY <1>6, <2>3, <2>5 DEF TornOrOneOf, OneOf
<1>. QED
  BY <1>5, <1>8, <1>9

-----------------------------------------------------------------------------
(* The end of a process.                                                    *)

LEMMA GrewOn ==
    ASSUME NEW fs, NEW gs, NEW hs, Grew(fs, gs), Grew(gs, hs)
    PROVE  Grew(fs, hs)
BY DEF Grew, Longer

\* m is l when Close came to segment k.  What becomes of a file is said where it has
\* one object only.
ClosedTo(m, l, k) ==
    /\ DOMAIN m.files = DOMAIN l.files /\ DOMAIN m.segments = DOMAIN l.segments
    /\ Grew(l.files, m.files)
    /\ \A b \in DOMAIN l.files : m.files[b].slots = l.files[b].slots
    /\ \A j \in DOMAIN l.segments :
          LET s == l.segments[j]
          IN  /\ m.segments[j].base = s.base
              /\ j > k => m.segments[j] = s
              /\ j > k /\ Alone(l, j) => m.files[s.base] = l.files[s.base]
              /\ j <= k /\ Alone(l, j) => ClosedFile(m.files[s.base], s, l.files[s.base])

LEMMA ClosedToNext ==
    ASSUME NEW l, NEW k \in Nat, NEW p, ClosedTo(p, l, k), NEW i \in DOMAIN l.segments,
           i = k + 1, NEW q, OneClosed(q, p, i), DOMAIN l.segments \subseteq Nat,
           \A j \in DOMAIN l.segments : l.segments[j].base \in DOMAIN l.files
    PROVE  ClosedTo(q, l, i)
<1> DEFINE b == l.segments[i].base
<1>1. /\ DOMAIN p.files = DOMAIN l.files /\ DOMAIN p.segments = DOMAIN l.segments
      /\ Grew(l.files, p.files) /\ p.segments[i] = l.segments[i]
      /\ Alone(l, i) => p.files[b] = l.files[b]
  BY DEF ClosedTo
<1>2. /\ DOMAIN q.files = DOMAIN p.files /\ DOMAIN q.segments = DOMAIN p.segments
      /\ Grew(p.files, q.files)
      /\ ClosedFile(q.files[b], l.segments[i], p.files[b])
      /\ q.segments[i].base = b
      /\ \A j \in DOMAIN l.segments : j # i => q.segments[j] = p.segments[j]
      /\ \A c \in DOMAIN l.files : c # b => q.files[c] = p.files[c]
  BY <1>1 DEF OneClosed
<1>3. Grew(l.files, q.files)
  BY <1>1, <1>2, GrewOn
<1>4. ASSUME NEW j \in DOMAIN l.segments
      PROVE  LET s == l.segments[j]
             IN  /\ q.segments[j].base = s.base
                 /\ j > i => q.segments[j] = s
                 /\ j > i /\ Alone(l, j) => q.files[s.base] = l.files[s.base]
                 /\ j <= i /\ Alone(l, j) => ClosedFile(q.files[s.base], s, l.files[s.base])
  <2> DEFINE s == l.segments[j]
  <2>1. CASE j = i
    BY <1>1, <1>2, <2>1
  <2>2. CASE j # i
    <3>1. /\ p.segments[j].base = s.base /\ q.segments[j] = p.segments[j]
          /\ j > k => p.segments[j] = s
          /\ j > k /\ Alone(l, j) => p.files[s.base] = l.files[s.base]
          /\ j <= k /\ Alone(l, j) => ClosedFile(p.files[s.base], s, l.files[s.base])
      BY <1>2, <2>2 DEF ClosedTo
    <3>2. Alone(l, j) => q.files[s.base] = p.files[s.base]
      BY <1>2, <2>2 DEF Alone
    <3>3. (j > i => j > k) /\ (j <= i => j <= k)
      BY <2>2
    <3>. QED
      BY <3>1, <3>2, <3>3
  <2>. QED
    BY <2>1, <2>2
<1>5. ASSUME NEW c \in DOMAIN l.files PROVE q.files[c].slots = l.files[c].slots
  <2>1. p.files[c].slots = l.files[c].slots
    BY DEF ClosedTo
  <2>2. q.files[c].slots = p.files[c].slots
    BY <1>2 DEF ClosedFile
  <2>. QED
    BY <2>1, <2>2
<1>. QED
  BY <1>1, <1>2, <1>3, <1>4, <1>5 DEF ClosedTo

\* Close takes the objects in list order.
LEMMA LifeClosed ==
    ASSUME NEW recs, NEW l, NEW N, LifeLog(l, recs, N), NEW n \in 0 .. Len(l.segments),
           NEW m, m = ClosedLog(l, n)
    PROVE  LifeLog(m, recs, N) /\ ClosedTo(m, l, n)
<1>1. /\ n \in Nat /\ SoundLog(l) /\ DOMAIN l.segments = 1 .. Len(l.segments)
      /\ DOMAIN l.segments \subseteq Nat /\ Len(l.segments) \in Nat /\ n <= Len(l.segments)
      /\ \A j \in DOMAIN l.segments : l.segments[j].base \in DOMAIN l.files
  <2>1. SoundLog(l)
    BY DEF LifeLog
  <2>2. /\ DOMAIN l.segments = 1 .. Len(l.segments) /\ Len(l.segments) \in Nat
        /\ \A j \in DOMAIN l.segments : l.segments[j].base \in DOMAIN l.files
    BY LifeShape
  <2>3. n \in Nat /\ n <= Len(l.segments)
    BY <2>2
  <2>4. DOMAIN l.segments \subseteq Nat
    BY <2>2
  <2>. QED
    BY <2>1, <2>2, <2>3, <2>4
<1>2. PICK h : ClosesUpTo(h, l, n)
  BY <1>1, ClosedStepByStep
<1> DEFINE T == {k \in Nat : k <= n => LifeLog(h[1 .. k], recs, N) /\ ClosedTo(h[1 .. k], l, k)}
<1>3. 0 \in T
  <2>1. h[1 .. 0] = l
    BY <1>2 DEF ClosesUpTo
  <2>2. ClosedTo(l, l, 0)
    BY <1>1 DEF ClosedTo, Grew, Longer
  <2>. QED
    BY <2>1, <2>2
<1>4. ASSUME NEW k \in T PROVE k + 1 \in T
  <2> SUFFICES ASSUME k + 1 <= n
               PROVE  /\ LifeLog(h[1 .. (k + 1)], recs, N)
                      /\ ClosedTo(h[1 .. (k + 1)], l, k + 1)
    BY <1>4
  <2>1. PICK p, q, i : p = h[1 .. k] /\ q = h[1 .. (k + 1)] /\ i = k + 1
    OBVIOUS
  <2>2. k \in Nat /\ k <= n /\ k \in 0 .. n - 1 /\ i \in DOMAIN l.segments
    BY <1>1, <1>4, <2>1
  <2>3. LifeLog(p, recs, N) /\ ClosedTo(p, l, k)
    BY <1>4, <2>1, <2>2
  <2>4. q = CloseSegment(p, i)
    BY <1>2, <2>1, <2>2 DEF ClosesUpTo
  <2>5. i \in DOMAIN p.segments
    BY <2>2, <2>3 DEF ClosedTo
  <2>6. LifeLog(q, recs, N) /\ OneClosed(q, p, i)
    BY <2>3, <2>4, <2>5, LifeClose
  <2>7. ClosedTo(q, l, i)
    BY <1>1, <2>1, <2>2, <2>3, <2>6, ClosedToNext
  <2>. QED
    BY <2>1, <2>6, <2>7
<1>5. T = Nat
  <2> HIDE DEF T
  <2>1. \A k \in T : k + 1 \in T
    BY <1>4
  <2>2. T \in SUBSET Nat
    BY DEF T
  <2>. QED
    BY <1>3, <2>1, <2>2, InductionOnNat
<1>6. LifeLog(h[1 .. n], recs, N) /\ ClosedTo(h[1 .. n], l, n)
  <2>1. n \in T
    BY <1>1, <1>5
  <2>. QED
    BY <1>1, <2>1
<1>. QED
  BY <1>2, <1>6 DEF ClosesUpTo

-----------------------------------------------------------------------------
(* What setup finds in the directory.                                       *)

\* Sorted leaves nothing out.
LEMMA SortedAll ==
    ASSUME NEW S \in SUBSET Nat, IsFiniteSet(S), NEW b \in S
    PROVE  \E i \in 1 .. Cardinality(S) : Sorted(S)[i] = b
<1> DEFINE n == Cardinality(S)
           seq == Sorted(S)
<1>1. /\ n \in Nat /\ seq \in [1 .. n -> S]
      /\ \A i, j \in 1 .. n : i < j => seq[i] < seq[j]
  BY SortedType, FS_CardinalityType
<1> HIDE DEF n, seq
<1>2. seq \in Injection(1 .. n, S)
  <2>1. ASSUME NEW i \in 1 .. n, NEW j \in 1 .. n, i # j PROVE seq[i] # seq[j]
    <3>1. seq[i] \in Nat /\ seq[j] \in Nat
      BY <1>1
    <3>2. i < j \/ j < i
      BY <1>1, <2>1
    <3>. QED
      BY <1>1, <3>1, <3>2
  <2>. QED
    BY <1>1, <2>1 DEF Injection, IsInjective
<1>3. Cardinality(1 .. n) = n
  BY <1>1, FS_Interval
<1>4. seq \in Surjection(1 .. n, S)
  BY <1>2, <1>3, FS_Injection DEF n
<1>. QED
  BY <1>4 DEF Surjection, n, seq

\* The names of the files of base b, in the directory.
NamesOf(files, b) == IF files[b].indexed THEN <<b, b>> ELSE <<b>>

\* Base b is in the list twice.
Twice(names, b) ==
    \E j, k \in DOMAIN names : j < k /\ names[j] = b /\ names[k] = b

\* names are those of the first p bases: the last is that of the last base, and only
\* a base without an index file is not there twice.
Lists(names, files, bases, p) ==
    /\ names \in Seq(Nat) /\ names # <<>>
    /\ names[Len(names)] = bases[p]
    /\ \A k \in DOMAIN names : \E q \in 1 .. p : names[k] = bases[q]
    /\ \A k \in DOMAIN names : ~files[names[k]].indexed =>
          \A j \in DOMAIN names : j # k => names[j] # names[k]
    /\ files[bases[p]].indexed => Len(names) > 1 /\ names[Len(names) - 1] = bases[p]
    /\ \A q \in 1 .. p : files[bases[q]].indexed => Twice(names, bases[q])

LEMMA ListsNext ==
    ASSUME NEW files, NEW n \in Nat, NEW bases \in [1 .. n -> Nat],
           \A i, j \in 1 .. n : i < j => bases[i] < bases[j],
           NEW p \in 1 .. n, NEW q \in 1 .. n, q = p + 1,
           NEW names, Lists(names, files, bases, p),
           NEW more, more = names \o NamesOf(files, bases[q])
    PROVE  Lists(more, files, bases, q)
<1> DEFINE b == bases[q]
           x == NamesOf(files, b)
           a == Len(names)
<1>1. b \in Nat /\ p \in Nat /\ 1 <= p
  OBVIOUS
<1>2. names \in Seq(Nat) /\ a \in Nat \ {0} /\ DOMAIN names = 1 .. a
  BY DEF Lists
<1>3. /\ x \in Seq(Nat) /\ \A k \in DOMAIN x : x[k] = b
      /\ Len(x) = IF files[b].indexed THEN 2 ELSE 1
      /\ DOMAIN x = 1 .. Len(x)
  <2>1. PICK y : y = IF files[b].indexed THEN <<b, b>> ELSE <<b>>
    OBVIOUS
  <2>2. CASE files[b].indexed
    <3>1. y = <<b, b>>
      BY <2>1, <2>2
    <3>2. y \in Seq(Nat) /\ Len(y) = 2 /\ DOMAIN y = 1 .. 2 /\ \A k \in DOMAIN y : y[k] = b
      BY <1>1, <3>1
    <3>. QED
      BY <2>1, <2>2, <3>2 DEF NamesOf
  <2>3. CASE ~files[b].indexed
    <3>1. y = <<b>>
      BY <2>1, <2>3
    <3>2. y \in Seq(Nat) /\ Len(y) = 1 /\ DOMAIN y = 1 .. 1 /\ \A k \in DOMAIN y : y[k] = b
      BY <1>1, <3>1
    <3>. QED
      BY <2>1, <2>3, <3>2 DEF NamesOf
  <2>. QED
    BY <2>2, <2>3
<1> HIDE DEF x
<1>4. /\ more \in Seq(Nat) /\ Len(more) = a + Len(x) /\ DOMAIN more = 1 .. a + Len(x)
      /\ \A k \in 1 .. a : more[k] = names[k]
      /\ \A k \in a + 1 .. a + Len(x) : more[k] = x[k - a]
  <2>1. names \in Seq(Nat) /\ x \in Seq(Nat) /\ more = names \o x
    BY <1>2, <1>3 DEF x
  <2>2. a = Len(names)
    OBVIOUS
  <2> HIDE DEF a
  <2>3. more \in Seq(Nat) /\ Len(more) = a + Len(x)
    BY ONLY <2>1, <2>2
  <2>4. DOMAIN more = 1 .. a + Len(x)
    BY ONLY <2>3
  <2>5. \A k \in 1 .. a : more[k] = names[k]
    BY ONLY <2>1, <2>2
  <2>6. \A k \in a + 1 .. a + Len(x) : more[k] = x[k - a]
    BY ONLY <2>1, <2>2
  <2>. QED
    BY <2>3, <2>4, <2>5, <2>6
<1> HIDE DEF a
<1>40. /\ \A k \in DOMAIN more : k \in 1 .. a \/ k \in a + 1 .. a + Len(x)
       /\ \A k \in DOMAIN names : k \in DOMAIN more
  <2>1. Len(x) \in Nat
    BY <1>3
  <2>. QED
    BY ONLY <1>2, <1>4, <2>1
<1>5. \A k \in a + 1 .. a + Len(x) : more[k] = b
  <2> SUFFICES ASSUME NEW k \in a + 1 .. a + Len(x) PROVE more[k] = b
    OBVIOUS
  <2>1. Len(x) \in Nat
    BY <1>3
  <2>2. k - a \in 1 .. Len(x)
    BY <1>2, <2>1
  <2>. QED
    BY <1>3, <1>4, <2>2
<1>6. \A k \in 1 .. a : more[k] # b
  <2> SUFFICES ASSUME NEW k \in 1 .. a PROVE names[k] # b
    BY <1>4
  <2>1. PICK i \in 1 .. p : names[k] = bases[i]
    BY <1>2 DEF Lists
  <2>2. i \in 1 .. n /\ i < q
    OBVIOUS
  <2>3. bases[i] \in Nat /\ bases[i] < b
    BY <2>2
  <2>. QED
    BY <2>1, <2>3
<1>7. more # <<>> /\ more[Len(more)] = b
  <2>1. Len(more) \in a + 1 .. a + Len(x) /\ Len(more) # 0
    BY <1>2, <1>3, <1>4
  <2>. QED
    BY <1>5, <2>1
<1>8. \A k \in DOMAIN more : \E i \in 1 .. q : more[k] = bases[i]
  <2> SUFFICES ASSUME NEW k \in DOMAIN more PROVE \E i \in 1 .. q : more[k] = bases[i]
    OBVIOUS
  <2>1. CASE k \in 1 .. a
    <3>1. PICK i \in 1 .. p : names[k] = bases[i]
      BY <1>2, <2>1 DEF Lists
    <3>2. more[k] = names[k]
      BY <1>4, <2>1
    <3>3. i \in 1 .. q
      OBVIOUS
    <3>. QED
      BY <3>1, <3>2, <3>3
  <2>2. CASE k \in a + 1 .. a + Len(x)
    <3>1. q \in 1 .. q
      OBVIOUS
    <3>. QED
      BY <1>5, <2>2, <3>1
  <2>. QED
    BY <1>40, <2>1, <2>2
<1>9. ASSUME NEW k \in DOMAIN more, ~files[more[k]].indexed, NEW j \in DOMAIN more, j # k
      PROVE  more[j] # more[k]
  <2>1. CASE k \in 1 .. a /\ j \in 1 .. a
    BY <1>2, <1>4, <1>9, <2>1 DEF Lists
  <2>2. CASE k \in a + 1 .. a + Len(x) /\ j \in a + 1 .. a + Len(x)
    <3>1. more[k] = b
      BY <1>5, <2>2
    <3>2. Len(x) = 1
      BY <1>3, <1>9, <3>1
    <3>. QED
      BY <1>2, <1>9, <2>2, <3>2
  <2>3. CASE k \in 1 .. a /\ j \in a + 1 .. a + Len(x)
    BY <1>5, <1>6, <2>3
  <2>4. CASE j \in 1 .. a /\ k \in a + 1 .. a + Len(x)
    BY <1>5, <1>6, <2>4
  <2>5. /\ k \in 1 .. a \/ k \in a + 1 .. a + Len(x)
        /\ j \in 1 .. a \/ j \in a + 1 .. a + Len(x)
    BY <1>40
  <2>. QED
    BY <2>1, <2>2, <2>3, <2>4, <2>5
<1>10. files[b].indexed => Len(more) > 1 /\ more[Len(more) - 1] = b /\ Twice(more, b)
  <2> SUFFICES ASSUME files[b].indexed
               PROVE  Len(more) > 1 /\ more[Len(more) - 1] = b /\ Twice(more, b)
    OBVIOUS
  <2>1. /\ Len(more) = a + 2 /\ a + 1 \in DOMAIN more /\ a + 2 \in DOMAIN more
        /\ a + 1 \in a + 1 .. a + Len(x) /\ a + 2 \in a + 1 .. a + Len(x) /\ a + 1 < a + 2
        /\ (a + 2) - 1 = a + 1 /\ a + 2 > 1
    BY <1>2, <1>3, <1>4
  <2>2. more[a + 1] = b /\ more[a + 2] = b
    BY <1>5, <2>1
  <2>. QED
    BY <2>1, <2>2 DEF Twice
<1>11. ASSUME NEW i \in 1 .. p, files[bases[i]].indexed PROVE Twice(more, bases[i])
  <2>1. Twice(names, bases[i])
    BY <1>11 DEF Lists
  <2>2. PICK j, k \in DOMAIN names : j < k /\ names[j] = bases[i] /\ names[k] = bases[i]
    BY <2>1 DEF Twice
  <2>3. more[j] = bases[i] /\ more[k] = bases[i] /\ j \in DOMAIN more /\ k \in DOMAIN more
    BY <1>2, <1>4, <1>40, <2>2
  <2>. QED
    BY <2>2, <2>3 DEF Twice
<1>12. \A i \in 1 .. q : files[bases[i]].indexed => Twice(more, bases[i])
  <2>1. \A i \in 1 .. q : i \in 1 .. p \/ i = q
    OBVIOUS
  <2>. QED
    BY <1>10, <1>11, <2>1
<1>. QED
  BY <1>4, <1>7, <1>8, <1>9, <1>10, <1>12 DEF Lists

LEMMA ListsOne ==
    ASSUME NEW files, NEW bases, NEW b \in Nat, b = bases[1]
    PROVE  Lists(NamesOf(files, b), files, bases, 1)
<1>1. CASE files[b].indexed
  <2>1. PICK x : x = NamesOf(files, b) /\ x = <<b, b>>
    BY <1>1 DEF NamesOf
  <2>2. x \in Seq(Nat) /\ Len(x) = 2 /\ DOMAIN x = 1 .. 2 /\ x[1] = b /\ x[2] = b
    BY <2>1
  <2>3. Twice(x, b)
    BY <2>2 DEF Twice
  <2>4. \A q \in 1 .. 1 : q = 1
    OBVIOUS
  <2>5. x # <<>> /\ x[Len(x)] = b /\ Len(x) > 1 /\ x[Len(x) - 1] = b
    <3>1. x # <<>>
      BY <2>1
    <3>. QED
      BY <2>2, <3>1
  <2>6. \A k \in DOMAIN x : x[k] = b /\ 1 \in 1 .. 1
    BY <2>2
  <2>7. Lists(x, files, bases, 1)
    BY <1>1, <2>2, <2>3, <2>4, <2>5, <2>6 DEF Lists
  <2>. QED
    BY <2>1, <2>7
<1>2. CASE ~files[b].indexed
  <2>1. PICK x : x = NamesOf(files, b) /\ x = <<b>>
    BY <1>2 DEF NamesOf
  <2>2. x \in Seq(Nat) /\ Len(x) = 1 /\ DOMAIN x = 1 .. 1 /\ x[1] = b
    BY <2>1
  <2>3. \A q \in 1 .. 1 : q = 1
    OBVIOUS
  <2>4. x # <<>> /\ x[Len(x)] = b
    <3>1. x # <<>>
      BY <2>1
    <3>. QED
      BY <2>2, <3>1
  <2>5. \A k \in DOMAIN x : x[k] = b /\ k = 1 /\ 1 \in 1 .. 1
    BY <2>2
  <2>6. Lists(x, files, bases, 1)
    BY <1>2, <2>2, <2>3, <2>4, <2>5 DEF Lists
  <2>. QED
    BY <2>1, <2>6
<1>. QED
  BY <1>1, <1>2

\* The n bases in the directory, all of them.
InOrder(files, n, bases) ==
    /\ n \in Nat \ {0} /\ bases \in [1 .. n -> Nat] /\ bases # <<>>
    /\ \A i \in 1 .. n : bases[i] \in DOMAIN files
    /\ \A i, j \in 1 .. n : i < j => bases[i] < bases[j]
    /\ \A b \in DOMAIN files : \E i \in 1 .. n : bases[i] = b

LEMMA SortedFiles ==
    ASSUME NEW files, Directory(files), DOMAIN files # {},
           NEW n, n = Cardinality(DOMAIN files), NEW bases, bases = Sorted(DOMAIN files)
    PROVE  InOrder(files, n, bases)
<1> DEFINE D == DOMAIN files
<1>1. D \in SUBSET Nat /\ IsFiniteSet(D)
  BY DEF Directory
<1> HIDE DEF D
<1>2. n = Cardinality(D) /\ bases = Sorted(D) /\ D # {}
  BY DEF D
<1>3. /\ n \in Nat /\ bases \in [1 .. n -> D]
      /\ \A i, j \in 1 .. n : i < j => bases[i] < bases[j]
  BY <1>1, <1>2, SortedType, FS_CardinalityType
<1>4. \A b \in D : \E i \in 1 .. n : bases[i] = b
  BY <1>1, <1>2, SortedAll
<1>5. n # 0
  BY <1>2, <1>3, <1>4
<1>6. bases # <<>>
  BY <1>3, <1>5
<1>. QED
  BY <1>1, <1>3, <1>4, <1>5, <1>6 DEF D, InOrder

\* setup opens them in increasing order, most of them twice.
LEMMA OpensListed ==
    ASSUME NEW files, Directory(files), DOMAIN files # {},
           NEW n, n = Cardinality(DOMAIN files), NEW bases, bases = Sorted(DOMAIN files)
    PROVE  Lists(BasesToOpen(files), files, bases, n)
<1>1. /\ n \in Nat \ {0} /\ bases \in [1 .. n -> Nat] /\ bases # <<>>
      /\ \A i, j \in 1 .. n : i < j => bases[i] < bases[j]
  BY SortedFiles DEF InOrder
<1> DEFINE ss == [i \in DOMAIN bases |-> NamesOf(files, bases[i])]
<1>2. BasesToOpen(files) = FlattenSeq(ss)
  BY <1>1 DEF BasesToOpen, NamesOf
<1>3. \A b \in Nat : NamesOf(files, b) \in Seq(Nat)
  BY DEF NamesOf
<1>4. ss \in [1 .. n -> Seq(Nat)] /\ \A i \in 1 .. n : ss[i] = NamesOf(files, bases[i])
  BY <1>1, <1>3
<1> HIDE DEF ss
<1>5. ss \in Seq(Seq(Nat)) /\ Len(ss) = n /\ ss # <<>> /\ n \in 0 .. Len(ss)
  <2>1. ss \in Seq(Seq(Nat)) /\ Len(ss) = n
    BY <1>1, <1>4
  <2>2. ss # <<>>
    BY <1>1, <2>1
  <2>. QED
    BY <1>1, <2>1, <2>2
<1>6. PICK f \in [1 .. n -> Seq(Nat)] : Flattens(f, ss, n)
  BY <1>5, FlattensExists
<1>7. \A i \in 1 .. n : f[i] = IF i = 1 THEN ss[i] ELSE f[i - 1] \o ss[i]
  BY <1>6 DEF Flattens
<1>8. FlattenSeq(ss) = f[n]
  BY <1>5, <1>7, FlattenedBy
<1> DEFINE T == {p \in Nat : p \in 1 .. n => Lists(f[p], files, bases, p)}
<1>9. 0 \in T
  OBVIOUS
<1>10. ASSUME NEW p \in T PROVE p + 1 \in T
  <2> SUFFICES ASSUME p + 1 \in 1 .. n PROVE Lists(f[p + 1], files, bases, p + 1)
    OBVIOUS
  <2>1. PICK q : q = p + 1
    OBVIOUS
  <2>2. p \in Nat /\ q \in 1 .. n
    BY <2>1
  <2>3. CASE p = 0
    <3>1. q = 1 /\ f[q] = NamesOf(files, bases[1]) /\ bases[1] \in Nat
      BY <1>1, <1>4, <1>7, <2>1, <2>2, <2>3
    <3>2. Lists(NamesOf(files, bases[1]), files, bases, 1)
      BY <3>1, ListsOne
    <3>. QED
      BY <2>1, <3>1, <3>2
  <2>4. CASE p # 0
    <3>1. p \in 1 .. n /\ q # 1 /\ q - 1 = p
      BY <1>1, <2>1, <2>2, <2>4
    <3>2. Lists(f[p], files, bases, p)
      BY <1>10, <3>1
    <3>3. f[q] = f[p] \o NamesOf(files, bases[q])
      BY <1>4, <1>7, <2>2, <3>1
    <3>4. Lists(f[q], files, bases, q)
      BY <1>1, <2>1, <2>2, <3>1, <3>2, <3>3, ListsNext
    <3>. QED
      BY <2>1, <3>4
  <2>. QED
    BY <2>3, <2>4
<1>11. T = Nat
  <2> HIDE DEF T
  <2>1. \A p \in T : p + 1 \in T
    BY <1>10
  <2>2. T \in SUBSET Nat
    BY DEF T
  <2>. QED
    BY <1>9, <2>1, <2>2, InductionOnNat
<1>12. Lists(f[n], files, bases, n)
  <2>1. n \in T /\ n \in 1 .. n
    BY <1>1, <1>11
  <2>. QED
    BY <2>1
<1>. QED
  BY <1>2, <1>8, <1>12

\* names are the bases that setup has still to open for l.  The last is the greatest
\* base of all; it is a new one, or has an index of full length, or it is there
\* twice, so that the index has full length when it is opened for the last time.
ToOpen(l, names) ==
    /\ names \in Seq(Nat) /\ names # <<>>
    /\ \A b \in DOMAIN l.files : b <= names[Len(names)]
    /\ \A k \in DOMAIN names : names[k] <= names[Len(names)]
    /\ \A k \in DOMAIN names : ~IsOld(l, names[k]) =>
          \A j \in DOMAIN names : j # k => names[j] # names[k]
    /\ \/ ~IsOld(l, names[Len(names)])
       \/ l.files[names[Len(names)]].ilen = MaxIndexBytes
       \/ Len(names) > 1 /\ names[Len(names) - 1] = names[Len(names)]

\* An empty directory.
LEMMA NothingToOpen ==
    ASSUME NEW files, DOMAIN files = {}
    PROVE  BasesToOpen(files) = <<InitialOffset>>
<1>1. Cardinality(DOMAIN files) = 0 /\ DOMAIN files \in SUBSET Nat /\ IsFiniteSet(DOMAIN files)
  BY FS_EmptySet
<1>2. Sorted(DOMAIN files) \in [1 .. 0 -> DOMAIN files]
  BY <1>1, SortedType
<1>3. Sorted(DOMAIN files) = <<>>
  BY <1>2
<1>. QED
  BY <1>3 DEF BasesToOpen

LEMMA ToOpenAtStart ==
    ASSUME NEW l, Directory(l.files)
    PROVE  ToOpen(l, BasesToOpen(l.files))
<1>1. CASE DOMAIN l.files = {}
  <2>4. BasesToOpen(l.files) = <<InitialOffset>>
    BY <1>1, NothingToOpen
  <2>5. PICK names : names = BasesToOpen(l.files) /\ names = <<InitialOffset>>
    BY <2>4
  <2>6. /\ names \in Seq(Nat) /\ Len(names) = 1 /\ DOMAIN names = 1 .. 1
        /\ names[1] = InitialOffset /\ InitialOffset \in Nat
    BY <2>5, ConfigAssumption DEF ConfigAssumption
  <2>7. names # <<>>
    BY <2>5
  <2>8. \A k \in DOMAIN names : k = 1 /\ names[k] <= names[1]
    BY <2>6
  <2>9. ~IsOld(l, names[1])
    BY <1>1 DEF IsOld
  <2>10. ToOpen(l, names)
    BY <1>1, <2>6, <2>7, <2>8, <2>9 DEF ToOpen
  <2>. QED
    BY <2>5, <2>10
<1>2. CASE DOMAIN l.files # {}
  <2>1. PICK n, bases : n = Cardinality(DOMAIN l.files) /\ bases = Sorted(DOMAIN l.files)
    OBVIOUS
  <2>2. /\ n \in Nat \ {0} /\ bases \in [1 .. n -> Nat]
        /\ \A i \in 1 .. n : bases[i] \in DOMAIN l.files
        /\ \A i, j \in 1 .. n : i < j => bases[i] < bases[j]
        /\ \A b \in DOMAIN l.files : \E i \in 1 .. n : bases[i] = b
    <3>1. InOrder(l.files, n, bases)
      BY <1>2, <2>1, SortedFiles
    <3>. QED
      BY <3>1 DEF InOrder
  <2>3. PICK names : names = BasesToOpen(l.files)
    OBVIOUS
  <2>4. Lists(names, l.files, bases, n)
    BY <1>2, <2>1, <2>3, OpensListed
  <2>5. names \in Seq(Nat) /\ names # <<>> /\ names[Len(names)] = bases[n]
    BY <2>4 DEF Lists
  <2>6. \A i \in 1 .. n : bases[i] <= bases[n]
    <3> SUFFICES ASSUME NEW i \in 1 .. n PROVE bases[i] <= bases[n]
      OBVIOUS
    <3>1. n \in 1 .. n /\ (i < n \/ i = n) /\ bases[i] \in Nat /\ bases[n] \in Nat
      BY <2>2
    <3>. QED
      BY <2>2, <3>1
  <2>7. \A k \in DOMAIN names : names[k] \in DOMAIN l.files /\ names[k] <= bases[n]
    BY <2>2, <2>4, <2>6 DEF Lists
  <2>8. \A b \in DOMAIN l.files : b <= bases[n]
    BY <2>2, <2>6
  <2>9. /\ n \in 1 .. n /\ bases[n] \in DOMAIN l.files
        /\ l.files[bases[n]].indexed => Len(names) > 1 /\ names[Len(names) - 1] = bases[n]
    BY <2>2, <2>4 DEF Lists
  <2>10. \A k \in DOMAIN names : ~l.files[names[k]].indexed =>
             \A j \in DOMAIN names : j # k => names[j] # names[k]
    BY <2>4 DEF Lists
  <2>11. ToOpen(l, names)
    BY <2>5, <2>7, <2>8, <2>9, <2>10 DEF ToOpen, IsOld
  <2>. QED
    BY <2>3, <2>11
<1>. QED
  BY <1>1, <1>2

\* The loop of setup has come to names: every object was made of a file that is there.
OpeningLog(l, recs, N, names) ==
    /\ LifeLog(l, recs, N) /\ ToOpen(l, names)
    /\ \A i \in DOMAIN l.segments : Again(l.segments[i], N[l.segments[i].base])

\* Opening with a new process.
LEMMA OpeningAtStart ==
    ASSUME NEW recs, NEW l, l.segments = <<>>, NEW N, LifeLog(l, recs, N)
    PROVE  OpeningLog(l, recs, N, BasesToOpen(l.files))
<1>1. Directory(l.files)
  BY DEF LifeLog, SoundLog
<1>2. DOMAIN l.segments = {}
  OBVIOUS
<1>. QED
  BY <1>1, <1>2, ToOpenAtStart DEF OpeningLog

\* m is l after setup opened base b, with rest still to open and K the numbers of
\* entries; they are those of l when b had its files.
TurnTaken(m, l, recs, N, K, b, rest) ==
    /\ LifeLog(m, recs, K)
    /\ IF rest = <<>> THEN Ready(m, recs, K) ELSE OpeningLog(m, recs, K, rest)
    /\ IsOld(l, b) => K = N

\* One turn of the loop; the last makes the process ready.
LEMMA OpeningNext ==
    ASSUME NEW recs, NEW l, NEW N, NEW names, OpeningLog(l, recs, N, names),
           NEW b, b = Head(names), NEW m, m = NewSegment(l, b), NEW rest, rest = Tail(names)
    PROVE  /\ Grew(l.files, m.files)
           /\ \E K : TurnTaken(m, l, recs, N, K, b, rest)
<1> DEFINE w == Len(names)
<1>1. /\ names \in Seq(Nat) /\ names # <<>> /\ w \in Nat \ {0} /\ DOMAIN names = 1 .. w
      /\ b = names[1] /\ b \in Nat
      /\ rest \in Seq(Nat) /\ Len(rest) = w - 1 /\ DOMAIN rest = 1 .. w - 1
      /\ \A k \in 1 .. w - 1 : rest[k] = names[k + 1]
  BY DEF OpeningLog, ToOpen
<1>2. /\ LifeLog(l, recs, N) /\ SoundLog(l) /\ N \in [Nat -> Nat]
      /\ \A i \in DOMAIN l.segments : Again(l.segments[i], N[l.segments[i].base])
      /\ \A i \in DOMAIN l.segments : l.segments[i].base \in Nat /\ IsOld(l, l.segments[i].base)
  <2>1. LifeLog(l, recs, N)
    BY DEF OpeningLog
  <2>. QED
    BY <2>1, LifeShape DEF OpeningLog, LifeLog, IsOld
<1>3. PICK z, s, n : Opens(m, l, N, b, z, s, n)
  BY DEF Opens
<1>4. n \in Nat
  BY <1>1, <1>2, <1>3 DEF Opens
<1>5. PICK K : Sets(K, N, b, n)
  BY <1>1, <1>2, <1>4, SomeSets
<1>6. \A i \in DOMAIN l.segments : l.segments[i].base = b => Again(l.segments[i], N[b])
  BY <1>2
<1>7. /\ m.segments[z] = s /\ LifeLog(m, recs, K) /\ Len(m.segments) = z
      /\ DOMAIN m.segments = 1 .. z
      /\ \A i \in DOMAIN l.segments : m.segments[i] = l.segments[i]
      /\ DOMAIN m.files = DOMAIN l.files \cup {b} /\ Grew(l.files, m.files)
      /\ \A c \in DOMAIN l.files : c # b => m.files[c] = l.files[c]
      /\ m.files[b].indexed /\ m.files[b].ilen = MaxIndexBytes
      /\ s.base = b /\ Again(s, K[b])
      /\ IsOld(l, b) /\ l.files[b].ilen = MaxIndexBytes => IndexMaxed(s) /\ b < s.next
      /\ ~IsOld(l, b) => Live(s, m.files[b], K[b], recs) /\ Alone(m, z)
  <2>1. LifeLog(l, recs, N) /\ b \in Nat
    BY <1>1, <1>2
  <2>. QED
    BY <2>1, <1>3, <1>5, <1>6, LifeOpen
<1>8. /\ z = Len(l.segments) + 1 /\ Len(l.segments) \in Nat
      /\ DOMAIN l.segments = 1 .. Len(l.segments)
  <2>1. z = Len(l.segments) + 1
    BY <1>3 DEF Opens
  <2>. QED
    BY <1>2, <2>1, LifeShape
<1>9. /\ \A c \in DOMAIN l.files : c <= names[w]
      /\ \A k \in DOMAIN names : names[k] <= names[w]
      /\ \A k \in DOMAIN names : ~IsOld(l, names[k]) =>
            \A j \in DOMAIN names : j # k => names[j] # names[k]
      /\ \/ ~IsOld(l, names[w])
         \/ l.files[names[w]].ilen = MaxIndexBytes
         \/ w > 1 /\ names[w - 1] = names[w]
  BY DEF OpeningLog, ToOpen
<1> HIDE DEF w
<1>10. \A c \in DOMAIN m.files : c <= names[w]
  BY <1>1, <1>7, <1>9
<1>11. \A i \in DOMAIN m.segments : Again(m.segments[i], K[m.segments[i].base])
  <2> SUFFICES ASSUME NEW i \in DOMAIN m.segments
               PROVE  Again(m.segments[i], K[m.segments[i].base])
    OBVIOUS
  <2>1. CASE i = z
    BY <1>7, <2>1
  <2>2. CASE i # z
    <3>1. i \in DOMAIN l.segments
      BY <1>7, <1>8, <2>2
    <3>2. m.segments[i] = l.segments[i] /\ l.segments[i].base \in Nat
      BY <1>2, <1>7, <3>1
    <3>3. K[l.segments[i].base] = N[l.segments[i].base]
      <4>1. CASE l.segments[i].base # b
        BY <1>5, <3>2, <4>1 DEF Sets
      <4>2. CASE l.segments[i].base = b
        <5>1. IsOld(l, b)
          BY <1>2, <3>1, <4>2
        <5>. QED
          BY <1>3, <1>5, <4>2, <5>1 DEF Sets, Opens
      <4>. QED
        BY <4>1, <4>2
    <3>. QED
      BY <1>2, <3>1, <3>2, <3>3
  <2>. QED
    BY <2>1, <2>2
<1>20. IsOld(l, b) => K = N
  <2> SUFFICES ASSUME IsOld(l, b) PROVE K = N
    OBVIOUS
  <2>1. K[b] = N[b]
    BY <1>3, <1>5 DEF Opens, Sets
  <2>2. \A c \in Nat : K[c] = N[c]
    BY <1>5, <2>1 DEF Sets
  <2>3. K \in [Nat -> Nat]
    BY <1>5 DEF Sets
  <2>. QED
    BY <1>2, <2>2, <2>3
<1>12. CASE rest = <<>>
  <2>1. w = 1 /\ names[w] = b
    <3>1. Len(rest) = 0
      BY ONLY <1>12
    <3>. QED
      BY <1>1, <3>1
  <2>2. Last(m.segments) = s /\ m.segments # <<>>
    <3>1. m.segments # <<>>
      BY <1>7, <1>8
    <3>. QED
      BY <1>7, <3>1 DEF Last
  <2>3. IsOld(l, b) => IndexMaxed(s) /\ b < s.next
    BY <1>7, <1>9, <2>1
  <2>4. Ready(m, recs, K)
    BY <1>7, <1>10, <2>1, <2>2, <2>3 DEF Ready
  <2>. QED
    BY <1>7, <1>12, <1>20, <2>4 DEF TurnTaken
<1>13. CASE rest # <<>>
  <2>1. /\ w > 1 /\ Len(rest) = w - 1 /\ rest[w - 1] = names[w]
        /\ \A k \in DOMAIN rest : k + 1 \in DOMAIN names /\ rest[k] = names[k + 1]
    <3>1. w # 1
      BY <1>1, <1>13
    <3>2. w > 1 /\ w - 1 \in 1 .. w - 1 /\ (w - 1) + 1 = w
      BY ONLY <1>1, <3>1
    <3>3. \A k \in 1 .. w - 1 : k + 1 \in 1 .. w
      BY ONLY <1>1
    <3>. QED
      BY <1>1, <3>2, <3>3
  <2>2. \A c : ~IsOld(m, c) => ~IsOld(l, c) /\ c # b
    BY <1>7 DEF IsOld
  <2>3. ASSUME NEW k \in DOMAIN rest, ~IsOld(m, rest[k]), NEW j \in DOMAIN rest, j # k
        PROVE  rest[j] # rest[k]
    <3>1. /\ k + 1 \in DOMAIN names /\ j + 1 \in DOMAIN names
          /\ rest[k] = names[k + 1] /\ rest[j] = names[j + 1]
      BY <2>1
    <3>2. k + 1 # j + 1
      BY <1>1, <2>3
    <3>3. ~IsOld(l, names[k + 1])
      BY <2>2, <2>3, <3>1
    <3>4. names[j + 1] # names[k + 1]
      BY <1>9, <3>1, <3>2, <3>3
    <3>. QED
      BY <3>1, <3>4
  <2>4. \/ ~IsOld(m, rest[w - 1])
        \/ m.files[rest[w - 1]].ilen = MaxIndexBytes
        \/ w - 1 > 1 /\ rest[(w - 1) - 1] = rest[w - 1]
    <3>1. CASE names[w] = b
      BY <1>7, <2>1, <3>1
    <3>2. CASE names[w] # b /\ ~IsOld(l, names[w])
      BY <1>7, <2>1, <3>2 DEF IsOld
    <3>3. CASE names[w] # b /\ IsOld(l, names[w]) /\ l.files[names[w]].ilen = MaxIndexBytes
      <4>1. names[w] \in DOMAIN l.files
        BY <3>3 DEF IsOld
      <4>2. m.files[names[w]] = l.files[names[w]]
        BY <1>7, <3>3, <4>1
      <4>. QED
        BY <2>1, <3>3, <4>2
    <3>4. CASE names[w] # b /\ names[w - 1] = names[w]
      <4>1. w # 2
        BY <1>1, <3>4
      <4>2. w - 1 > 1 /\ (w - 1) - 1 \in 1 .. w - 1 /\ ((w - 1) - 1) + 1 = w - 1
        BY ONLY <1>1, <2>1, <4>1
      <4>3. rest[(w - 1) - 1] = names[w - 1]
        BY <1>1, <4>2
      <4>. QED
        BY <2>1, <3>4, <4>2, <4>3
    <3>. QED
      BY <1>9, <3>1, <3>2, <3>3, <3>4
  <2>5. \A k \in DOMAIN rest : rest[k] <= rest[w - 1]
    BY <1>9, <2>1
  <2>6. \A c \in DOMAIN m.files : c <= rest[w - 1]
    BY <1>10, <2>1
  <2>7. ToOpen(m, rest)
    BY <1>1, <1>13, <2>1, <2>3, <2>4, <2>5, <2>6 DEF ToOpen
  <2>8. OpeningLog(m, recs, K, rest)
    BY <1>7, <1>11, <2>7 DEF OpeningLog
  <2>. QED
    BY <1>7, <1>13, <1>20, <2>8 DEF TurnTaken
<1>. QED
  BY <1>12, <1>13

\* The directory without the process.
LEMMA LifeOver ==
    ASSUME NEW recs, NEW l, NEW N, LifeLog(l, recs, N),
           NEW m, m.files = l.files, m.segments = <<>>
    PROVE  LifeLog(m, recs, N)
<1>1. m.segments \in Seq(Segment) /\ DOMAIN m.segments = {}
  OBVIOUS
<1>. QED
  BY <1>1 DEF LifeLog, SoundLog

\* What newSegment leaves when a crash interrupts it: some of two files without a
\* record, for a base that had none.
Stub(f) == f.store = <<>> /\ f.slots = NoFile.slots /\ (f.indexed \/ f = NoFile)
               /\ f \in File /\ (f.ilen = 0 \/ f.ilen = MaxIndexBytes)

LEMMA StubTypes ==
    /\ Stub(NoFile)
    /\ \A n \in {0, MaxIndexBytes} : Stub([NoFile EXCEPT !.indexed = TRUE, !.ilen = n])
<1>1. NoFile \in File /\ MaxIndexBytes \in Nat
  BY GrownType, ConfigAssumption DEF ConfigAssumption
<1>2. /\ NoFile = [store |-> NoFile.store, slots |-> NoFile.slots, ilen |-> 0, indexed |-> FALSE]
      /\ NoFile.store = <<>> /\ NoFile.ilen = 0
  BY DEF NoFile
<1>3. ASSUME NEW n \in {0, MaxIndexBytes}
      PROVE  Stub([NoFile EXCEPT !.indexed = TRUE, !.ilen = n])
  <2>0. PICK x \in BOOLEAN : x
    OBVIOUS
  <2>1. PICK g, f : /\ x /\ g = [NoFile EXCEPT !.indexed = x]
                    /\ f = [NoFile EXCEPT !.indexed = x, !.ilen = n]
    BY <2>0
  <2>2. g = [store |-> NoFile.store, slots |-> NoFile.slots, ilen |-> 0, indexed |-> x]
    BY <1>2, <2>1
  <2>3. f = [g EXCEPT !.ilen = n]
    BY <2>1
  <2>4. [g EXCEPT !.ilen = n]
            = [store |-> NoFile.store, slots |-> NoFile.slots, ilen |-> n, indexed |-> x]
    BY <2>2
  <2>5. f = [store |-> NoFile.store, slots |-> NoFile.slots, ilen |-> n, indexed |-> x]
    BY <2>3, <2>4
  <2>6. f.store = <<>> /\ f.slots = NoFile.slots /\ f.ilen = n /\ f.indexed
    <3>1. f.store = <<>> /\ f.slots = NoFile.slots /\ f.ilen = n /\ f.indexed = x
      BY <1>2, <2>5
    <3>. QED
      BY <2>1, <3>1
  <2>7. n \in 0 .. MaxIndexBytes
    BY <1>1
  <2>8. f \in File
    BY <1>1, <2>5, <2>7 DEF File
  <2>. QED
    BY <2>1, <2>6, <2>8 DEF Stub
<1>. QED
  BY <1>1, <1>2, <1>3 DEF Stub

LEMMA LifeStub ==
    ASSUME NEW recs, NEW l, NEW N, LifeLog(l, recs, N),
           NEW b \in Nat, b \notin DOMAIN l.files, NEW f, Stub(f),
           NEW m, m.files = PutFile(l.files, b, f), m.segments = <<>>
    PROVE  /\ \E K : LifeLog(m, recs, K)
           /\ Grew(l.files, m.files)
<1>1. Directory(l.files) /\ N \in [Nat -> Nat] /\ f \in File
  BY DEF LifeLog, SoundLog, Stub
<1>2. /\ Directory(m.files) /\ DOMAIN m.files = DOMAIN l.files \cup {b}
      /\ m.files[b] = f /\ \A c \in DOMAIN l.files : m.files[c] = l.files[c]
  <2>1. PICK fs, gs : fs = l.files /\ gs = PutFile(fs, b, f)
    OBVIOUS
  <2>2. Directory(fs)
    BY <1>1, <2>1
  <2>3. /\ Directory(PutFile(fs, b, f)) /\ DOMAIN PutFile(fs, b, f) = DOMAIN fs \cup {b}
        /\ PutFile(fs, b, f)[b] = f
        /\ \A c \in DOMAIN fs : c # b => PutFile(fs, b, f)[c] = fs[c]
    <3>1. b \in Nat /\ f \in File
      BY <1>1
    <3>. QED
      BY ONLY <2>2, <3>1, PutInDirectory
  <2>4. m.files = gs
    BY <2>1
  <2>. QED
    BY <2>1, <2>3, <2>4
<1>3. PICK K : Sets(K, N, b, 0)
  BY <1>1, SomeSets
<1>4. Written(f, b, 0, recs)
  <2>1. Written(NoFile, b, 0, recs) /\ NoFile.store = <<>>
    BY NothingWritten DEF NoFile
  <2>2. CASE f = NoFile
    BY <2>1, <2>2
  <2>3. CASE f.indexed
    <3>1. entryWidth * 0 = 0
      BY DEF entryWidth
    <3>. QED
      BY <2>1, <2>3, <3>1, WrittenLength DEF Stub
  <2>. QED
    BY <2>2, <2>3 DEF Stub
<1>5. \A c \in DOMAIN m.files : Written(m.files[c], c, K[c], recs)
  <2> SUFFICES ASSUME NEW c \in DOMAIN m.files PROVE Written(m.files[c], c, K[c], recs)
    OBVIOUS
  <2>1. CASE c = b
    BY <1>2, <1>3, <1>4, <2>1 DEF Sets
  <2>2. CASE c # b
    <3>1. c \in DOMAIN l.files /\ c \in Nat
      BY <1>1, <1>2, <2>2 DEF Directory
    <3>. QED
      BY <1>2, <1>3, <2>2, <3>1 DEF Sets, LifeLog
  <2>. QED
    BY <2>1, <2>2
<1>6. m.segments \in Seq(Segment) /\ DOMAIN m.segments = {}
  OBVIOUS
<1>7. LifeLog(m, recs, K)
  BY <1>2, <1>3, <1>5, <1>6 DEF LifeLog, SoundLog, Sets
<1>8. Grew(l.files, m.files)
  BY <1>2 DEF Grew, Longer
<1>. QED
  BY <1>7, <1>8

\* g is the file f of base b, with half an entry in slot n; then there are p entries.
TornAt(g, f, b, n, p, recs) ==
    /\ g \in File /\ g.store = f.store /\ Written(g, b, p, recs)
    /\ n \in Slots /\ g.slots[n].off = n
    /\ \A k \in Slots : k # n => g.slots[k] = f.slots[k]

\* An append with half of its index entry.
LEMMA TornWritten ==
    ASSUME NEW recs, NEW s \in Segment, NEW f \in File, NEW n \in Nat,
           Live(s, f, n, recs), f.indexed, ~IndexMaxed(s), NEW g, g = TornEntry(f, s),
           NEW p, p = n + 1, NEW b, b = s.base
    PROVE  TornAt(g, f, b, n, p, recs)
<1>1. /\ Consistent(s, f, recs) /\ s.next = s.base + n /\ f.ilen = MaxIndexBytes
      /\ n = s.next - s.base /\ s.isize = entryWidth * n
  <2>1. /\ Consistent(s, f, recs) /\ s.next = s.base + n /\ f.ilen = MaxIndexBytes
        /\ n = s.next - s.base
    BY DEF Live, Segment
  <2>2. s.isize = entryWidth * (s.next - s.base)
    BY <2>1 DEF Consistent
  <2>. QED
    BY <2>1, <2>2
<1>2. /\ s.isize \div entryWidth = n /\ n \in Slots
      /\ entryWidth * p <= MaxIndexBytes /\ p \in Nat
  <2>1. entryWidth * n + entryWidth <= MaxIndexBytes
    BY <1>1, ConfigAssumption DEF IndexMaxed, ConfigAssumption, entryWidth
  <2>. QED
    BY <1>1, <2>1, SlotOfEntry DEF entryWidth
<1>3. PICK e : e = [off |-> n, pos |-> f.slots[n].pos]
  OBVIOUS
<1>4. f.slots \in [Slots -> Entry] /\ f.slots[n] \in Entry /\ e \in Entry
  BY <1>2, <1>3 DEF File, Entry
<1>5. /\ g.store = f.store /\ g.ilen = f.ilen /\ g.indexed = f.indexed
      /\ g.slots = [f.slots EXCEPT ![n] = e]
  BY <1>1, <1>2, <1>3 DEF TornEntry, File
<1>6. g \in File
  <2>1. g = [f EXCEPT !.slots[n] = e]
    BY <1>1, <1>2, <1>3 DEF TornEntry
  <2>2. g = [f EXCEPT !.slots = [f.slots EXCEPT ![n] = e]]
    BY <2>1
  <2>3. PICK sl : sl = [f.slots EXCEPT ![n] = e]
    OBVIOUS
  <2>4. sl \in [Slots -> Entry]
    BY <1>2, <1>4, <2>3
  <2>5. g = [f EXCEPT !.slots = sl]
    BY <2>2, <2>3
  <2>. QED
    BY ONLY <2>4, <2>5, f \in File DEF File
<1>7. /\ g.slots[n] = e /\ e.off = n
      /\ \A k \in Slots : k # n => g.slots[k] = f.slots[k]
  BY <1>2, <1>3, <1>4, <1>5
<1>8. f.slots[n].pos = 0
  BY <1>2 DEF Live, NoEntry
<1>9. Written(f, s.base, n, recs)
  BY <1>1, ConsistentWritten DEF Live
<1>10. Len(f.store) \in Nat /\ DOMAIN f.store = 1 .. Len(f.store) /\ Len(f.store) <= n
  BY <1>9 DEF Written, File
<1>11. ASSUME NEW k \in DOMAIN f.store
       PROVE  /\ \A j \in 1 .. k - 1 : FrameEnd(f.store[j]) <= f.store[k].pos
              /\ f.store[k].rec \in recs
              /\ f.store[k].rec.offset = s.base + k - 1
              /\ g.slots[k - 1] = [off |-> k - 1, pos |-> f.store[k].pos]
  <2>1. k - 1 \in 0 .. n /\ k - 1 # n
    BY <1>10
  <2>2. k - 1 \in Slots
    BY <1>2, <2>1, SlotsBelow
  <2>. QED
    BY <1>7, <1>9, <2>1, <2>2 DEF Written
<1>12. ASSUME NEW k \in Len(f.store) .. p - 1
       PROVE  /\ g.slots[k].off = k
              /\ StoreBytes(f.store) <= g.slots[k].pos \/ HalfWritten(g.slots[k])
  <2>1. CASE k = n
    <3>1. g.slots[k].off = n /\ g.slots[k].pos = 0
      BY <1>3, <1>7, <1>8, <2>1
    <3>2. n = 0 => StoreBytes(f.store) = 0
      <4>1. ASSUME n = 0 PROVE f.store = <<>>
        BY <1>10, <4>1, EmptySeq DEF File
      <4>. QED
        BY <4>1 DEF StoreBytes
    <3>. QED
      BY <2>1, <3>1, <3>2 DEF HalfWritten
  <2>2. CASE k # n
    <3>1. k \in Len(f.store) .. n - 1 /\ k \in 0 .. n
      BY <1>10, <2>2
    <3>2. k \in Slots
      BY <1>2, <3>1, SlotsBelow
    <3>. QED
      BY <1>7, <1>9, <2>2, <3>1, <3>2 DEF Written
  <2>. QED
    BY <2>1, <2>2
<1>13. \A k \in Slots : k >= p => g.slots[k] = NoEntry
  <2>1. \A k \in Slots : k >= p => k # n /\ k >= n
    BY <1>2 DEF Slots
  <2>. QED
    BY <1>7, <2>1 DEF Live
<1>14. Written(g, s.base, p, recs)
  <2>1. Len(g.store) <= p
    BY <1>5, <1>10
  <2>. QED
    BY <1>1, <1>2, <1>5, <1>11, <1>12, <1>13, <2>1 DEF Written
<1>. QED
  BY <1>2, <1>5, <1>6, <1>7, <1>14 DEF TornAt

\* The directory after a crash inside index.Write.
LEMMA LifeTorn ==
    ASSUME NEW recs, NEW l, NEW N, LifeLog(l, recs, N), Ready(l, recs, N),
           NEW s, s = Last(l.segments), ~IsMaxed(s),
           NEW m, m.files = TornFiles(l), m.segments = <<>>
    PROVE  /\ \E K : LifeLog(m, recs, K)
           /\ Grew(l.files, m.files)
           /\ s.next \in Nat
           /\ \A T : OnlyTorn(l.files, T) => OnlyTorn(m.files, T \cup {s.next})
<1>1. /\ s \in Segment /\ s.base \in DOMAIN l.files /\ s.base \in Nat /\ s.next \in Nat
      /\ l.files[s.base] \in File
  BY LastSegment DEF Ready
<1>2. ~IndexMaxed(s)
  BY DEF IsMaxed
<1>3. PICK b, f : b = s.base /\ f = l.files[s.base]
  OBVIOUS
<1>4. PICK n, p : n = N[b] /\ p = n + 1
  OBVIOUS
<1>5. PICK g : g = TornEntry(f, s)
  OBVIOUS
<1>6. Directory(l.files) /\ N \in [Nat -> Nat] /\ n \in Nat
  BY <1>1, <1>3, <1>4 DEF LifeLog, SoundLog
<1>7. p \in Nat
  BY ONLY <1>4, <1>6
<1>8. Live(s, f, n, recs) /\ f \in File
  BY <1>1, <1>2, <1>3, <1>4 DEF Ready
<1>9. f.indexed
  <2>1. Len(l.segments) \in DOMAIN l.segments /\ s = l.segments[Len(l.segments)]
    BY LastSegment DEF Ready
  <2>. QED
    BY <1>3, <2>1 DEF LifeLog
<1>10. /\ g \in File /\ g.store = f.store /\ Written(g, b, p, recs)
       /\ n \in Slots /\ g.slots[n].off = n
       /\ \A k \in Slots : k # n => g.slots[k] = f.slots[k]
  <2>1. s \in Segment /\ f \in File /\ n \in Nat /\ g = TornEntry(f, s) /\ p = n + 1
        /\ b = s.base
    BY <1>1, <1>3, <1>4, <1>5, <1>6, <1>8
  <2>2. TornAt(g, f, b, n, p, recs)
    BY ONLY <1>2, <1>8, <1>9, <2>1, TornWritten
  <2>. QED
    BY <2>2 DEF TornAt
<1>11. /\ Directory(m.files) /\ DOMAIN m.files = DOMAIN l.files
       /\ m.files[b] = g /\ \A c \in DOMAIN l.files : c # b => m.files[c] = l.files[c]
  <2>1. PICK fs, gs : fs = l.files /\ gs = PutFile(fs, b, g)
    OBVIOUS
  <2>2. Directory(fs) /\ b \in Nat /\ g \in File
    BY <1>1, <1>3, <1>6, <1>10, <2>1
  <2>3. /\ Directory(PutFile(fs, b, g)) /\ DOMAIN PutFile(fs, b, g) = DOMAIN fs \cup {b}
        /\ PutFile(fs, b, g)[b] = g
        /\ \A c \in DOMAIN fs : c # b => PutFile(fs, b, g)[c] = fs[c]
    BY ONLY <2>2, PutInDirectory
  <2>4. m.files = gs
    BY <1>3, <1>5, <2>1 DEF TornFiles
  <2>. QED
    BY <1>1, <1>3, <2>1, <2>3, <2>4
<1>12. PICK K : Sets(K, N, b, p)
  BY <1>1, <1>3, <1>6, <1>7, SomeSets
<1>13. \A c \in DOMAIN m.files : Written(m.files[c], c, K[c], recs)
  <2> SUFFICES ASSUME NEW c \in DOMAIN m.files PROVE Written(m.files[c], c, K[c], recs)
    OBVIOUS
  <2>1. CASE c = b
    BY <1>10, <1>11, <1>12, <2>1 DEF Sets
  <2>2. CASE c # b
    <3>1. c \in DOMAIN l.files /\ c \in Nat
      BY <1>6, <1>11 DEF Directory
    <3>. QED
      BY <1>11, <1>12, <2>2, <3>1 DEF Sets, LifeLog
  <2>. QED
    BY <2>1, <2>2
<1>14. m.segments \in Seq(Segment) /\ DOMAIN m.segments = {}
  OBVIOUS
<1>15. LifeLog(m, recs, K)
  BY <1>11, <1>12, <1>13, <1>14 DEF LifeLog, SoundLog, Sets
<1>16. Grew(l.files, m.files)
  <2>1. \A c \in DOMAIN l.files : m.files[c].store = l.files[c].store
    BY <1>3, <1>10, <1>11
  <2>. QED
    BY <1>11, <2>1 DEF Grew, Longer
<1>17. ASSUME NEW T, OnlyTorn(l.files, T) PROVE OnlyTorn(m.files, T \cup {s.next})
  <2> SUFFICES ASSUME NEW c \in DOMAIN m.files, NEW k \in Slots,
                      HalfWritten(m.files[c].slots[k])
               PROVE  c + m.files[c].slots[k].off \in T \cup {s.next}
    BY DEF OnlyTorn
  <2>1. CASE c = b /\ k = n
    <3>1. s.next = b + n
      BY <1>3, <1>8 DEF Live
    <3>. QED
      BY <1>10, <1>11, <2>1, <3>1
  <2>2. CASE ~(c = b /\ k = n)
    <3>1. c \in DOMAIN l.files /\ m.files[c].slots[k] = l.files[c].slots[k]
      BY <1>3, <1>10, <1>11, <2>2
    <3>. QED
      BY <1>17, <3>1 DEF OnlyTorn
  <2>. QED
    BY <2>1, <2>2
<1>. QED
  BY <1>1, <1>15, <1>16, <1>17

-----------------------------------------------------------------------------
(* The records of a first process, in a second one.                         *)

\* The file of base b has record r in the place of its offset.
Yields(f, b, r) ==
    StoreRead(f.store, f.slots[r.offset - b].pos) = [err |-> "", rec |-> r]

\* A closed directory has record r in the file of base b, and no other file comes
\* near its offset.
SavedAs(files, b, r, N) ==
    /\ b \in DOMAIN files /\ files[b].ilen = entryWidth * N[b]
    /\ r.offset \in b .. b + N[b] - 1
    /\ Yields(files[b], b, r)
    /\ \A c \in DOMAIN files :
          c # b => r.offset < c \/ (N[c] >= 1 /\ c + N[c] < r.offset)

\* Close saves what Log.Read returns, in a log that only one process used.
LEMMA ClosedSaves ==
    ASSUME NEW recs, NEW l, NEW N, LifeLog(l, recs, N), GoodLog(l, recs), Counted(l, N),
           NEW r, r.offset \in Nat, ReadLog(l, r.offset) = [err |-> "", rec |-> r],
           NEW m, ClosedTo(m, l, Len(l.segments))
    PROVE  \E b : SavedAs(m.files, b, r, N)
<1> DEFINE off == r.offset
<1>1. /\ Len(l.segments) \in Nat /\ DOMAIN l.segments = 1 .. Len(l.segments)
      /\ \A i \in DOMAIN l.segments :
            /\ l.segments[i] \in Segment /\ l.segments[i].base \in Nat
            /\ l.segments[i].next \in Nat /\ l.segments[i].base \in DOMAIN l.files
            /\ Alone(l, i)
  BY GoodShape DEF Alone
<1>0. \A i \in DOMAIN l.segments : i \in Nat /\ i <= Len(l.segments)
  <2>1. PICK k : k = Len(l.segments)
    OBVIOUS
  <2>2. k \in Nat /\ DOMAIN l.segments = 1 .. k
    BY ONLY <1>1, <2>1
  <2>. QED
    BY ONLY <2>1, <2>2
<1>2. \A i \in DOMAIN l.segments :
         /\ l.segments[i].next = l.segments[i].base + N[l.segments[i].base]
         /\ N[l.segments[i].base] \in Nat
  BY <1>1 DEF Counted, LifeLog
<1>3. PICK i : i = FindSegment(l, off)
  OBVIOUS
<1>4. /\ i # 0 /\ ~(l.segments[i].next <= off)
      /\ SegmentRead(l, l.segments[i], off) = [err |-> "", rec |-> r]
  BY <1>3 DEF ReadLog, Failure
<1>5. /\ i \in DOMAIN l.segments /\ l.segments[i].base <= off
      /\ \A j \in DOMAIN l.segments :
            l.segments[j].base <= off /\ off <= l.segments[j].next => i <= j
  BY <1>3, <1>4, LifeFound
<1>6. PICK s, b, n : s = l.segments[i] /\ b = s.base /\ n = N[b]
  OBVIOUS
<1>7. /\ s \in Segment /\ b \in Nat /\ n \in Nat /\ s.next = b + n /\ b \in DOMAIN l.files
      /\ Alone(l, i) /\ b <= off /\ ~(s.next <= off)
  BY <1>1, <1>2, <1>4, <1>5, <1>6
<1>8. s.isize = entryWidth * n
  <2>1. s.isize = entryWidth * (s.next - s.base)
    BY <1>5, <1>6 DEF GoodLog, Consistent
  <2>2. s.next - s.base = n
    BY ONLY <1>6, <1>7
  <2>. QED
    BY <2>1, <2>2
<1>9. StoreRead(Flushed(l.files[b], s.buf).store, l.files[b].slots[off - b].pos)
          = [err |-> "", rec |-> r]
  <2>1. SegmentRead(l, s, off) = [err |-> "", rec |-> r]
    BY <1>4, <1>6
  <2>2. Failure("EOF") # [err |-> "", rec |-> r]
    BY DEF Failure
  <2>3. SegmentRead(l, s, off)
            = IF s.isize < (off - b + 1) * entryWidth THEN Failure("EOF")
              ELSE StoreRead(Flushed(l.files[b], s.buf).store, l.files[b].slots[off - b].pos)
    BY <1>6 DEF SegmentRead
  <2>. QED
    BY <2>1, <2>2, <2>3
<1>10. ClosedFile(m.files[b], s, l.files[b]) /\ DOMAIN m.files = DOMAIN l.files
  <2>1. i <= Len(l.segments)
    BY <1>0, <1>5
  <2>. QED
    BY <1>5, <1>6, <1>7, <2>1 DEF ClosedTo
<1>11. Yields(m.files[b], b, r) /\ m.files[b].ilen = entryWidth * N[b]
  BY <1>6, <1>8, <1>9, <1>10 DEF Yields, ClosedFile
<1>12. off \in b .. b + n - 1
  BY ONLY <1>7, r.offset \in Nat
<1>13. ASSUME NEW c \in DOMAIN m.files, c # b
       PROVE  off < c \/ (N[c] >= 1 /\ c + N[c] < off)
  <2>1. PICK j \in DOMAIN l.segments : l.segments[j].base = c
    BY <1>10 DEF GoodLog
  <2>2. PICK q : q = l.segments[j].next
    OBVIOUS
  <2>3. j # i
    BY <1>6, <1>13, <2>1
  <2>4. i \in Nat /\ j \in Nat /\ c \in Nat /\ q \in Nat /\ q = c + N[c] /\ N[c] \in Nat
    <3>1. i \in Nat /\ j \in Nat
      BY <1>0, <1>5
    <3>2. c \in Nat /\ q \in Nat
      BY <1>1, <2>1, <2>2
    <3>3. q = c + N[c] /\ N[c] \in Nat
      BY <1>2, <2>1, <2>2
    <3>. QED
      BY <3>1, <3>2, <3>3
  <2>5. CASE i < j
    <3>1. s.next <= c
      BY <1>5, <1>6, <2>1, <2>5 DEF GoodLog
    <3>2. s.next \in Nat
      BY <1>1, <1>5, <1>6
    <3>. QED
      BY ONLY <1>7, <2>4, <3>1, <3>2, r.offset \in Nat
  <2>6. CASE j < i
    <3>1. c < q
      BY <1>5, <2>1, <2>2, <2>6 DEF GoodLog
    <3>2. ~(c <= off /\ off <= q)
      <4>1. ~(i <= j)
        BY ONLY <2>4, <2>6
      <4>. QED
        BY <1>5, <2>1, <2>2, <4>1
    <3>3. q <= b
      BY <1>5, <1>6, <2>1, <2>2, <2>6 DEF GoodLog
    <3>. QED
      BY ONLY <1>7, <2>4, <3>1, <3>2, <3>3, r.offset \in Nat
  <2>7. i < j \/ j < i
    BY ONLY <2>3, <2>4
  <2>. QED
    BY <2>5, <2>6, <2>7
<1>. QED
  BY <1>6, <1>7, <1>10, <1>11, <1>12, <1>13 DEF SavedAs

LEMMA NewSegmentIndexes ==
    ASSUME NEW l, NEW b, NEW m, m = NewSegment(l, b), IsOld(l, b), NEW f \in File, f = l.files[b]
    PROVE  m.files[b].indexed
<1>1. m.files[b] = Grown(f)
  BY DEF NewSegment, PutFile, FileOf, IsOld
<1>2. Grown(f).indexed
  BY DEF Grown, File
<1>. QED
  BY <1>1, <1>2

\* A flush writes no entries.
LEMMA FlushSlots ==
    ASSUME NEW recs, NEW l, NEW N, LifeLog(l, recs, N), NEW i \in DOMAIN l.segments,
           NEW m, m = FlushSegment(l, i)
    PROVE  SameSlots(l.files, m.files)
<1> DEFINE s == l.segments[i]
           f == l.files[s.base]
<1>1. s \in Segment /\ s.base \in DOMAIN l.files /\ f \in File
  BY LifeShape
<1>2. Flushed(f, s.buf).slots = f.slots
  BY <1>1 DEF Flushed, File
<1>3. m.files = PutFile(l.files, s.base, Flushed(f, s.buf))
  BY <1>1 DEF FlushSegment, PutSegment, Segment
<1> HIDE DEF f
<1>. QED
  BY <1>1, <1>2, <1>3 DEF PutFile, SameSlots, f

\* A flush leaves a process ready.
LEMMA ReadyFlush ==
    ASSUME NEW recs, NEW l, NEW N, LifeLog(l, recs, N), Ready(l, recs, N),
           NEW k \in DOMAIN l.segments, NEW m, m = FlushSegment(l, k)
    PROVE  Ready(m, recs, N) /\ Len(m.segments) = Len(l.segments)
<1>1. /\ LifeLog(m, recs, N)
      /\ DOMAIN m.files = DOMAIN l.files /\ DOMAIN m.segments = DOMAIN l.segments
      /\ \A j \in DOMAIN l.segments : j # k => m.segments[j] = l.segments[j]
      /\ m.segments[k] = [l.segments[k] EXCEPT !.buf = <<>>]
      /\ l.segments[k].buf = <<>> =>
            /\ \A b \in DOMAIN l.files : m.files[b] = l.files[b]
            /\ m.segments[k] = l.segments[k]
      /\ l.segments[k].buf # <<>> => Alone(l, k)
      /\ \A b \in DOMAIN l.files : b # l.segments[k].base => m.files[b] = l.files[b]
  BY LifeFlush
<1>2. PICK w : w = Len(l.segments)
  OBVIOUS
<1>3. Len(m.segments) = w /\ w \in Nat /\ DOMAIN l.segments = 1 .. w
  <2>1. PICK v : v = Len(m.segments)
    OBVIOUS
  <2>2. w \in Nat /\ v \in Nat /\ DOMAIN l.segments = 1 .. w /\ DOMAIN m.segments = 1 .. v
    BY <1>1, <1>2, <2>1, LifeShape
  <2>3. 1 .. w = 1 .. v
    BY <1>1, <2>2
  <2>. QED
    BY ONLY <2>1, <2>2, <2>3
<1>4. l.segments # <<>>
  BY DEF Ready
<1>5. PICK s, t : s = l.segments[w] /\ t = m.segments[w]
  OBVIOUS
<1>6. /\ w \in DOMAIN l.segments /\ Last(l.segments) = s /\ s \in Segment
      /\ s.base \in DOMAIN l.files
  BY <1>2, <1>4, <1>5, LastSegment
<1>7. m.segments # <<>> /\ Last(m.segments) = t
  <2>1. m.segments # <<>>
    BY <1>1, <1>6
  <2>2. Last(m.segments) = m.segments[Len(m.segments)]
    BY <1>1, <2>1, LastSegment
  <2>. QED
    BY <1>3, <1>5, <2>1, <2>2
<1>8. t.base = s.base /\ t.next = s.next /\ t.isize = s.isize
  <2>1. CASE w = k
    <3>1. t = [s EXCEPT !.buf = <<>>]
      BY <1>1, <1>5, <2>1
    <3>. QED
      BY <1>6, <3>1 DEF Segment
  <2>2. CASE w # k
    BY <1>1, <1>5, <1>6, <2>2
  <2>. QED
    BY <2>1, <2>2
<1>9. \A b \in DOMAIN m.files : b <= t.base
  BY <1>1, <1>6, <1>8 DEF Ready
<1>10. CASE IndexMaxed(s) /\ s.base < s.next
  <2>1. IndexMaxed(t) /\ t.base < t.next
    BY <1>8, <1>10 DEF IndexMaxed
  <2>. QED
    BY <1>2, <1>3, <1>7, <1>9, <2>1 DEF Ready
<1>11. CASE Live(s, l.files[s.base], N[s.base], recs) /\ Alone(l, w)
  <2>1. \A j \in DOMAIN l.segments : m.segments[j].base = l.segments[j].base
    <3>1. l.segments[k] \in Segment
      BY LifeShape
    <3>2. m.segments[k].base = l.segments[k].base
      BY <1>1, <3>1 DEF Segment
    <3>. QED
      BY <1>1, <3>2
  <2>2. Alone(m, w)
    BY <1>1, <1>6, <1>11, <2>1 DEF Alone
  <2>3. Live(t, m.files[t.base], N[t.base], recs)
    <3>1. CASE w = k
      <4>1. PICK f : f = l.files[s.base]
        OBVIOUS
      <4>2. f \in File /\ Consistent(s, f, recs) /\ s.next = s.base + N[s.base]
            /\ f.ilen = MaxIndexBytes
            /\ \A j \in Slots : j >= N[s.base] => f.slots[j] = NoEntry
        BY <1>6, <1>11, <4>1, LifeShape DEF Live
      <4>3. m.files[s.base] = Flushed(f, s.buf) /\ t = [s EXCEPT !.buf = <<>>]
        BY <1>1, <1>5, <1>6, <3>1, <4>1 DEF FlushSegment, PutSegment, PutFile, Segment
      <4>4. Consistent(t, Flushed(f, s.buf), recs)
        BY <1>6, <4>2, <4>3, FlushConsistent
      <4>5. Flushed(f, s.buf) = [f EXCEPT !.store = f.store \o s.buf]
        BY <1>6, <4>2, FlushedFrames
      <4>6. Flushed(f, s.buf).ilen = f.ilen /\ Flushed(f, s.buf).slots = f.slots
        BY <4>2, <4>5 DEF File
      <4>. QED
        BY <1>8, <4>2, <4>3, <4>4, <4>6 DEF Live
    <3>2. CASE w # k
      <4>1. t = s
        BY <1>1, <1>5, <1>6, <3>2
      <4>2. s.base # l.segments[k].base
        BY <1>5, <1>11, <3>2 DEF Alone
      <4>3. m.files[s.base] = l.files[s.base]
        BY <1>1, <1>6, <4>2
      <4>. QED
        BY <1>11, <4>1, <4>3
    <3>. QED
      BY <3>1, <3>2
  <2>. QED
    BY <1>2, <1>3, <1>7, <1>9, <2>2, <2>3 DEF Ready
<1>. QED
  BY <1>2, <1>3, <1>6, <1>10, <1>11 DEF Ready

\* m has the frames and the entries that l had.
SameContents(files, more) ==
    /\ DOMAIN more = DOMAIN files
    /\ \A c \in DOMAIN files :
          more[c].store = files[c].store /\ more[c].slots = files[c].slots

\* newSegment for a base that has both files.
LEMMA OldOpened ==
    ASSUME NEW recs, NEW l, NEW N, LifeLog(l, recs, N), NEW b \in Nat, IsOld(l, b),
           \A i \in DOMAIN l.segments : Again(l.segments[i], N[l.segments[i].base]),
           NEW m, NEW z, NEW s, NEW n, Opens(m, l, N, b, z, s, n)
    PROVE  /\ n = N[b] /\ n \in Nat /\ z = Len(l.segments) + 1 /\ Len(l.segments) \in Nat
           /\ DOMAIN l.segments = 1 .. Len(l.segments)
           /\ Len(m.segments) = z /\ DOMAIN m.segments = 1 .. z /\ m.segments[z] = s
           /\ \A i \in DOMAIN l.segments : m.segments[i] = l.segments[i]
           /\ s.base = b /\ s.buf = <<>> /\ Again(s, n)
           /\ l.files[b].ilen = entryWidth * n => s.isize = entryWidth * n /\ s.next = b + n
           /\ SameContents(l.files, m.files)
           /\ \A c \in DOMAIN l.files : c # b => m.files[c] = l.files[c]
<1>1. SoundLog(l) /\ N \in [Nat -> Nat] /\ b \in DOMAIN l.files
  BY DEF LifeLog, IsOld
<1>2. n = N[b] /\ z = Len(l.segments) + 1 /\ m = NewSegment(l, b)
  BY DEF Opens
<1>3. n \in Nat
  BY <1>1, <1>2
<1>4. Sets(N, N, b, n)
  BY <1>1, <1>2 DEF Sets
<1>5. \A i \in DOMAIN l.segments : l.segments[i].base = b => Again(l.segments[i], N[b])
  OBVIOUS
<1>6. /\ m.segments[z] = s /\ Len(m.segments) = z /\ DOMAIN m.segments = 1 .. z
      /\ \A i \in DOMAIN l.segments : m.segments[i] = l.segments[i]
      /\ DOMAIN m.files = DOMAIN l.files \cup {b}
      /\ \A c \in DOMAIN l.files : m.files[c].slots = l.files[c].slots
      /\ \A c \in DOMAIN l.files : c # b => m.files[c] = l.files[c]
      /\ s.base = b /\ s.buf = <<>> /\ Again(s, N[b])
      /\ l.files[b].ilen = entryWidth * N[b] =>
                 s.isize = entryWidth * N[b] /\ s.next = b + N[b]
  BY <1>4, <1>5, LifeOpen
<1>7. m.files[b].store = l.files[b].store
  <2>1. m.files[b] = Grown(l.files[b])
    BY <1>1, <1>2 DEF NewSegment, FileOf, PutFile
  <2>2. l.files[b] \in File
    BY <1>1, LifeShape
  <2>. QED
    BY <2>1, <2>2, GrownType
<1>8. SameContents(l.files, m.files)
  BY <1>1, <1>6, <1>7 DEF SameContents
<1>9. Len(l.segments) \in Nat /\ DOMAIN l.segments = 1 .. Len(l.segments)
  BY LifeShape
<1>. QED
  BY <1>2, <1>3, <1>6, <1>8, <1>9

\* The search of Log.Read passes by segment s.
Misses(s, off) == off < s.base \/ s.next < off

\* A read of r.offset comes to object i, which has record r.  It is not the object
\* that appends, or not the one that will.
KeptAt(l, names, r, i) ==
    LET s == l.segments[i]
    IN  /\ i \in DOMAIN l.segments
        /\ s.buf = <<>> /\ s.base <= r.offset /\ r.offset < s.next
        /\ entryWidth * (r.offset - s.base + 1) <= s.isize
        /\ Yields(l.files[s.base], s.base, r)
        /\ \A j \in DOMAIN l.segments : j < i => Misses(l.segments[j], r.offset)
        /\ i < Len(l.segments) \/ \E k \in DOMAIN names : names[k] = s.base

Keeps(l, names, r) == \E i : KeptAt(l, names, r, i)

\* Record r is in the file of base b, which is still to be opened, twice; no object
\* is in its way.
WaitsIn(l, names, r, N, b) ==
    /\ SavedAs(l.files, b, r, N) /\ Twice(names, b)
    /\ \A i \in DOMAIN l.segments : Misses(l.segments[i], r.offset)

Waits(l, names, r, N) == \E b : WaitsIn(l, names, r, N, b)

\* Such a record is what a read returns.
LEMMA KeptRead ==
    ASSUME NEW recs, NEW l, NEW N, LifeLog(l, recs, N), NEW names,
           NEW r, r.offset \in Nat, NEW off, off = r.offset, Keeps(l, names, r)
    PROVE  ReadLog(l, off) = [err |-> "", rec |-> r]
<1>1. PICK i : KeptAt(l, names, r, i)
  BY DEF Keeps
<1>2. PICK s, b : s = l.segments[i] /\ b = s.base
  OBVIOUS
<1>3. /\ i \in DOMAIN l.segments
      /\ s.buf = <<>> /\ b <= off /\ off < s.next
      /\ entryWidth * (off - b + 1) <= s.isize
      /\ Yields(l.files[b], b, r)
      /\ \A j \in DOMAIN l.segments : j < i => Misses(l.segments[j], off)
  BY <1>1, <1>2 DEF KeptAt
<1>4. s \in Segment /\ b \in Nat /\ l.files[b] \in File /\ i \in Nat
      /\ \A j \in DOMAIN l.segments : j \in Nat /\ l.segments[j] \in Segment
  BY <1>2, <1>3, LifeShape
<1>5. b \in Nat /\ s.next \in Nat /\ s.isize \in Nat /\ off \in Nat
      /\ \A j \in DOMAIN l.segments : l.segments[j].base \in Nat /\ l.segments[j].next \in Nat
  BY <1>4 DEF Segment
<1>6. FindSegment(l, off) = i
  <2>1. PICK f : f = FindSegment(l, off)
    OBVIOUS
  <2>2. b <= off /\ off <= s.next
    BY <1>3, <1>5
  <2>3. /\ f # 0 /\ f <= i /\ f \in DOMAIN l.segments
        /\ l.segments[f].base <= off /\ off <= l.segments[f].next
    BY <1>2, <1>3, <2>1, <2>2, LifeFound
  <2>4. PICK c, e : c = l.segments[f].base /\ e = l.segments[f].next
    OBVIOUS
  <2>5. f \in Nat /\ c \in Nat /\ e \in Nat
    BY <1>4, <1>5, <2>3, <2>4
  <2>6. ~(off < c \/ e < off)
    BY <1>5, <2>3, <2>4, <2>5
  <2>7. ~(f < i)
    BY <1>3, <2>3, <2>4, <2>6 DEF Misses
  <2>. QED
    BY <1>4, <2>1, <2>3, <2>5, <2>7
<1>7. i # 0 /\ ~(s.next <= off)
  BY <1>3, <1>4, <1>5, LifeShape
<1>8. ReadLog(l, off) = SegmentRead(l, s, off)
  BY <1>2, <1>6, <1>7 DEF ReadLog
<1>9. SegmentRead(l, s, off) = StoreRead(l.files[b].store, l.files[b].slots[off - b].pos)
  <2>1. Flushed(l.files[b], s.buf) = l.files[b]
    BY <1>3 DEF Flushed
  <2>2. ~(s.isize < (off - b + 1) * entryWidth)
    BY <1>3, <1>5 DEF entryWidth
  <2>. QED
    BY <1>2, <2>1, <2>2 DEF SegmentRead
<1>. QED
  BY <1>3, <1>8, <1>9 DEF Yields

\* setup opens one base more: a record that was kept still is, and one that waits for
\* the base it opens is kept by the new object.
LEMMA KeptOpen ==
    ASSUME NEW recs, NEW l, NEW N, LifeLog(l, recs, N), NEW b \in Nat, IsOld(l, b),
           \A i \in DOMAIN l.segments : Again(l.segments[i], N[l.segments[i].base]),
           NEW m, NEW z, NEW s, NEW n, Opens(m, l, N, b, z, s, n),
           NEW names, NEW rest, NEW r, r.offset \in Nat, Keeps(l, names, r)
    PROVE  Keeps(m, rest, r)
<1>1. /\ z = Len(l.segments) + 1 /\ Len(l.segments) \in Nat
      /\ DOMAIN l.segments = 1 .. Len(l.segments)
      /\ Len(m.segments) = z /\ DOMAIN m.segments = 1 .. z
      /\ \A i \in DOMAIN l.segments : m.segments[i] = l.segments[i]
      /\ SameContents(l.files, m.files)
  BY OldOpened
<1>2. PICK i : KeptAt(l, names, r, i)
  BY DEF Keeps
<1>3. i \in DOMAIN l.segments /\ m.segments[i] = l.segments[i]
  BY <1>1, <1>2 DEF KeptAt
<1>4. i \in DOMAIN m.segments /\ i < Len(m.segments)
      /\ \A j \in DOMAIN m.segments : j < i => j \in DOMAIN l.segments
  <2>1. PICK w : w = Len(l.segments)
    OBVIOUS
  <2>2. /\ z = w + 1 /\ w \in Nat /\ DOMAIN l.segments = 1 .. w /\ DOMAIN m.segments = 1 .. z
        /\ Len(m.segments) = z
    BY ONLY <1>1, <2>1
  <2>3. i \in 1 .. w
    BY ONLY <1>3, <2>2
  <2>. QED
    BY ONLY <2>2, <2>3
<1>5. Yields(m.files[m.segments[i].base], m.segments[i].base, r)
  <2>1. m.segments[i].base \in DOMAIN l.files
    BY <1>3, LifeShape
  <2>. QED
    BY <1>1, <1>2, <1>3, <2>1 DEF KeptAt, Yields, SameContents
<1>6. KeptAt(m, rest, r, i)
  BY <1>1, <1>2, <1>3, <1>4, <1>5 DEF KeptAt
<1>. QED
  BY <1>6 DEF Keeps

\* The first of the two objects for a base keeps its records; no object of another
\* base gets in the way.
LEMMA WaitsOpen ==
    ASSUME NEW recs, NEW l, NEW N, LifeLog(l, recs, N), NEW b \in Nat, IsOld(l, b),
           \A i \in DOMAIN l.segments : Again(l.segments[i], N[l.segments[i].base]),
           NEW m, NEW z, NEW s, NEW n, Opens(m, l, N, b, z, s, n),
           NEW names \in Seq(Nat), names # <<>>, b = Head(names), NEW rest, rest = Tail(names),
           NEW r, r.offset \in Nat, Waits(l, names, r, N)
    PROVE  Keeps(m, rest, r) \/ Waits(m, rest, r, N)
<1>1. /\ n = N[b] /\ n \in Nat /\ z = Len(l.segments) + 1 /\ Len(l.segments) \in Nat
      /\ DOMAIN l.segments = 1 .. Len(l.segments)
      /\ Len(m.segments) = z /\ DOMAIN m.segments = 1 .. z /\ m.segments[z] = s
      /\ \A i \in DOMAIN l.segments : m.segments[i] = l.segments[i]
      /\ s.base = b /\ s.buf = <<>> /\ Again(s, n)
      /\ l.files[b].ilen = entryWidth * n => s.isize = entryWidth * n /\ s.next = b + n
      /\ SameContents(l.files, m.files)
      /\ \A c \in DOMAIN l.files : c # b => m.files[c] = l.files[c]
  BY OldOpened
<1>2. PICK a : WaitsIn(l, names, r, N, a)
  BY DEF Waits
<1>3. PICK off : off = r.offset /\ off \in Nat
  OBVIOUS
<1>4. /\ a \in DOMAIN l.files /\ l.files[a].ilen = entryWidth * N[a]
      /\ off \in a .. a + N[a] - 1 /\ Yields(l.files[a], a, r)
      /\ \A c \in DOMAIN l.files :
            c # a => off < c \/ (N[c] >= 1 /\ c + N[c] < off)
      /\ \A i \in DOMAIN l.segments : Misses(l.segments[i], off)
  BY <1>2, <1>3 DEF WaitsIn, SavedAs
<1>5. a \in Nat /\ N[a] \in Nat
  BY <1>4, LifeShape
<1>6. PICK w : /\ w = Len(names) /\ w \in Nat /\ DOMAIN names = 1 .. w /\ names[1] = b
               /\ DOMAIN rest = 1 .. w - 1 /\ \A k \in 1 .. w - 1 : rest[k] = names[k + 1]
  <2>1. PICK w : w = Len(names)
    OBVIOUS
  <2>2. /\ w \in Nat /\ DOMAIN names = 1 .. w /\ names[1] = b
        /\ rest \in Seq(Nat) /\ Len(rest) = w - 1
        /\ \A k \in 1 .. w - 1 : rest[k] = names[k + 1]
    BY <2>1
  <2>3. DOMAIN rest = 1 .. w - 1
    BY <2>2
  <2>. QED
    BY <2>1, <2>2, <2>3
<1>7. PICK j, k \in DOMAIN names : j < k /\ names[j] = a /\ names[k] = a
  BY <1>2 DEF WaitsIn, Twice
<1>8. j \in 1 .. w /\ k \in 1 .. w /\ j \in Nat /\ k \in Nat
  BY <1>6, <1>7
<1>9. k - 1 \in DOMAIN rest /\ rest[k - 1] = a
  <2>1. k - 1 \in 1 .. w - 1 /\ (k - 1) + 1 = k
    BY ONLY <1>6, <1>7, <1>8
  <2>. QED
    BY <1>6, <1>7, <2>1
<1>10. CASE a = b
  <2>1. s.next = b + n /\ s.isize = entryWidth * n
    BY <1>1, <1>4, <1>10
  <2>2. b <= off /\ off < b + n /\ off - b + 1 <= n /\ off - b + 1 \in Nat
    <3>1. off \in b .. b + n - 1 /\ n \in Nat /\ off \in Nat
      BY <1>1, <1>3, <1>4, <1>10
    <3>. QED
      BY ONLY <3>1, b \in Nat
  <2>3. entryWidth * (off - b + 1) <= entryWidth * n
    BY <1>1, <2>2 DEF entryWidth
  <2>4. Yields(m.files[b], b, r)
    BY <1>1, <1>4, <1>10 DEF Yields, SameContents
  <2>5. \A i \in DOMAIN m.segments : i < z => i \in DOMAIN l.segments
    <3>1. PICK y : y = Len(l.segments)
      OBVIOUS
    <3>2. /\ z = y + 1 /\ y \in Nat /\ DOMAIN l.segments = 1 .. y /\ DOMAIN m.segments = 1 .. z
      BY ONLY <1>1, <3>1
    <3>. QED
      BY ONLY <3>2
  <2>6. \A i \in DOMAIN m.segments : i < z => Misses(m.segments[i], off)
    BY <1>1, <1>4, <2>5
  <2>7. z \in DOMAIN m.segments
    BY <1>1
  <2>8. KeptAt(m, rest, r, z)
    BY <1>1, <1>3, <1>9, <1>10, <2>1, <2>2, <2>3, <2>4, <2>6, <2>7 DEF KeptAt
  <2>. QED
    BY <2>8 DEF Keeps
<1>11. CASE a # b
  <2>1. j # 1 /\ j - 1 \in 1 .. w - 1 /\ (j - 1) + 1 = j /\ j - 1 < k - 1
    <3>1. j # 1
      BY <1>6, <1>7, <1>11
    <3>. QED
      BY ONLY <1>6, <1>7, <1>8, <3>1
  <2>2. Twice(rest, a)
    <3>1. rest[j - 1] = a /\ j - 1 \in DOMAIN rest
      BY <1>6, <1>7, <2>1
    <3>. QED
      BY <1>9, <2>1, <3>1 DEF Twice
  <2>3. SavedAs(m.files, a, r, N)
    <3>1. m.files[a] = l.files[a] /\ DOMAIN m.files = DOMAIN l.files
      BY <1>1, <1>4, <1>11 DEF SameContents
    <3>2. SavedAs(l.files, a, r, N)
      BY <1>2 DEF WaitsIn
    <3>. QED
      BY <3>1, <3>2 DEF SavedAs
  <2>4. Misses(s, off)
    <3>1. off < b \/ (n >= 1 /\ b + n < off)
      BY <1>1, <1>4, <1>11 DEF IsOld
    <3>2. PICK e : e = s.next
      OBVIOUS
    <3>3. n >= 1 => e \in Nat /\ e <= b + n
      <4>1. SUFFICES ASSUME n >= 1 PROVE e \in Nat /\ e <= b + n
        OBVIOUS
      <4>2. s \in Segment
        <5>1. s = OpenSegment(l.files[b], b) /\ l.files[b] \in File
          BY LifeShape DEF Opens, IsOld, FileOf
        <5>. QED
          BY <5>1, OpenedSound DEF Sound
      <4>3. e = b + n \/ e <= b + n
        BY <1>1, <3>2, <4>1 DEF Again, Counts
      <4>4. e \in Nat
        BY <3>2, <4>2 DEF Segment
      <4>. QED
        BY <1>1, <4>3, <4>4
    <3>4. off < b \/ e < off
      BY ONLY <1>1, <1>3, <3>1, <3>3, b \in Nat
    <3>. QED
      BY <1>1, <3>2, <3>4 DEF Misses
  <2>5. \A i \in DOMAIN m.segments : i # z => i \in DOMAIN l.segments
    <3>1. PICK y : y = Len(l.segments)
      OBVIOUS
    <3>2. /\ z = y + 1 /\ y \in Nat /\ DOMAIN l.segments = 1 .. y /\ DOMAIN m.segments = 1 .. z
      BY ONLY <1>1, <3>1
    <3>. QED
      BY ONLY <3>2
  <2>6. \A i \in DOMAIN m.segments : Misses(m.segments[i], off)
    BY <1>1, <1>4, <2>4, <2>5
  <2>7. WaitsIn(m, rest, r, N, a)
    BY <1>3, <2>2, <2>3, <2>6 DEF WaitsIn
  <2>. QED
    BY <2>7 DEF Waits
<1>. QED
  BY <1>10, <1>11

\* An append touches the last object, and its file only where no other object has it.
LEMMA KeptAppend ==
    ASSUME NEW recs, NEW l, NEW N, LifeLog(l, recs, N),
           NEW more, NEW m, NEW K, LifeLog(m, more, K), AppendsTo(m, l),
           NEW names, names = <<>>, NEW r, Keeps(l, names, r)
    PROVE  Keeps(m, names, r)
<1>1. PICK i : KeptAt(l, names, r, i)
  BY DEF Keeps
<1>2. PICK w, v : w = Len(l.segments) /\ v = Len(m.segments)
  OBVIOUS
<1>3. w \in Nat /\ DOMAIN l.segments = 1 .. w /\ v \in Nat /\ DOMAIN m.segments = 1 .. v
  BY <1>2, LifeShape
<1>4. DOMAIN names = {}
  OBVIOUS
<1>5. i \in DOMAIN l.segments /\ i < w
  BY <1>1, <1>2, <1>4 DEF KeptAt
<1>6. v = w \/ v = w + 1
  BY <1>2 DEF AppendsTo
<1>7. /\ i \in DOMAIN m.segments /\ i < v /\ i # w
      /\ \A j \in DOMAIN m.segments : j < i => j \in DOMAIN l.segments /\ j # w
  BY ONLY <1>3, <1>5, <1>6
<1>8. \A j \in DOMAIN l.segments : j # w => m.segments[j] = l.segments[j]
  BY <1>2 DEF AppendsTo
<1>9. PICK b : b = l.segments[i].base
  OBVIOUS
<1>10. b \in DOMAIN l.files
  BY <1>5, <1>9, LifeShape
<1>11. m.files[b] = l.files[b]
  <2> SUFFICES ASSUME b = Last(l.segments).base, Alone(l, w) PROVE FALSE
    BY <1>2, <1>10 DEF AppendsTo
  <2>1. l.segments # <<>>
    BY <1>5
  <2>2. w \in DOMAIN l.segments /\ Last(l.segments) = l.segments[w]
    BY <1>2, <2>1, LastSegment
  <2>. QED
    BY <1>5, <1>7, <1>9, <2>2 DEF Alone
<1>12. m.segments[i] = l.segments[i]
  BY <1>5, <1>7, <1>8
<1>13. \A j \in DOMAIN m.segments : j < i => Misses(m.segments[j], r.offset)
  BY <1>1, <1>7, <1>8 DEF KeptAt
<1>14. KeptAt(m, names, r, i)
  BY <1>1, <1>2, <1>7, <1>9, <1>11, <1>12, <1>13 DEF KeptAt
<1>. QED
  BY <1>14 DEF Keeps

\* A flush writes something only where no other object has the file.
LEMMA KeptFlush ==
    ASSUME NEW recs, NEW l, NEW N, LifeLog(l, recs, N), NEW k \in DOMAIN l.segments,
           NEW m, m = FlushSegment(l, k), NEW names, NEW r, Keeps(l, names, r)
    PROVE  Keeps(m, names, r)
<1>1. PICK i : KeptAt(l, names, r, i)
  BY DEF Keeps
<1>2. /\ LifeLog(m, recs, N)
      /\ DOMAIN m.segments = DOMAIN l.segments
      /\ \A j \in DOMAIN l.segments : j # k => m.segments[j] = l.segments[j]
      /\ m.segments[k] = [l.segments[k] EXCEPT !.buf = <<>>]
      /\ l.segments[k].buf = <<>> =>
            /\ \A b \in DOMAIN l.files : m.files[b] = l.files[b]
            /\ m.segments[k] = l.segments[k]
      /\ l.segments[k].buf # <<>> => Alone(l, k)
      /\ \A b \in DOMAIN l.files : b # l.segments[k].base => m.files[b] = l.files[b]
  BY LifeFlush
<1>3. i \in DOMAIN l.segments /\ l.segments[i].buf = <<>>
  BY <1>1 DEF KeptAt
<1>4. PICK b : b = l.segments[i].base
  OBVIOUS
<1>5. b \in DOMAIN l.files
  BY <1>3, <1>4, LifeShape
<1>6. m.segments[i] = l.segments[i] /\ m.files[b] = l.files[b]
  <2>1. CASE l.segments[k].buf = <<>>
    BY <1>2, <1>3, <1>5, <2>1
  <2>2. CASE l.segments[k].buf # <<>>
    <3>1. i # k
      BY <1>3, <2>2
    <3>2. b # l.segments[k].base
      BY <1>2, <1>3, <1>4, <2>2, <3>1 DEF Alone
    <3>. QED
      BY <1>2, <1>3, <1>5, <3>1, <3>2
  <2>. QED
    BY <2>1, <2>2
<1>7. \A j \in DOMAIN l.segments :
         m.segments[j].base = l.segments[j].base /\ m.segments[j].next = l.segments[j].next
  <2>1. l.segments[k] \in Segment
    BY LifeShape
  <2>2. m.segments[k].base = l.segments[k].base /\ m.segments[k].next = l.segments[k].next
    BY <1>2, <2>1 DEF Segment
  <2>. QED
    BY <1>2, <2>2
<1>8. Len(m.segments) = Len(l.segments)
  <2>1. PICK w, v : w = Len(l.segments) /\ v = Len(m.segments)
    OBVIOUS
  <2>2. w \in Nat /\ v \in Nat /\ DOMAIN l.segments = 1 .. w /\ DOMAIN m.segments = 1 .. v
    BY <1>2, <2>1, LifeShape
  <2>3. 1 .. w = 1 .. v
    BY <1>2, <2>2
  <2>. QED
    BY ONLY <2>1, <2>2, <2>3
<1>9. KeptAt(m, names, r, i)
  BY <1>1, <1>2, <1>4, <1>6, <1>7, <1>8 DEF KeptAt, Misses
<1>. QED
  BY <1>9 DEF Keeps

\* The first segment of a directory counts what it holds: nothing.
LEMMA FirstCounted ==
    ASSUME NEW K, NEW recs, Ready(EmptyLog, recs, K)
    PROVE  Counted(EmptyLog, K)
<1> DEFINE t == OpenSegment(NoFile, InitialOffset)
<1>1. InitialOffset \in Nat
  BY ConfigAssumption DEF ConfigAssumption
<1>2. t.base = InitialOffset /\ t.next = InitialOffset /\ t \in Segment
  BY <1>1, FreshConsistent
<1> HIDE DEF t
<1>3. EmptyLog.segments = Append(<<>>, t)
  BY DEF EmptyLog, NewSegment, FileOf, t
<1>4. PICK x : x = EmptyLog.segments
  OBVIOUS
<1>5. Len(x) = 1 /\ DOMAIN x = 1 .. 1 /\ x[1] = t
  BY <1>3, <1>4
<1>6. Last(x) = t
  BY <1>5 DEF Last
<1>7. ~(t.base < t.next)
  BY <1>1, <1>2
<1>8. t.next = t.base + K[t.base]
  BY <1>4, <1>6, <1>7 DEF Ready, Live
<1>9. \A i \in DOMAIN x : x[i] = t
  BY <1>5
<1>. QED
  BY <1>4, <1>8, <1>9 DEF Counted

\* Every index file in the directory exists.
AllIndexed(files) == \A b \in DOMAIN files : files[b].indexed

\* After a close, setup opens every base twice, and every record saved waits for it.
LEMMA WaitsAtStart ==
    ASSUME NEW l, Directory(l.files), l.segments = <<>>, AllIndexed(l.files),
           NEW names, names = BasesToOpen(l.files), DOMAIN l.files # {}
    PROVE  /\ \A k \in DOMAIN names : IsOld(l, names[k])
           /\ \A r, N : (\E b : SavedAs(l.files, b, r, N)) => Waits(l, names, r, N)
<1>1. PICK n, bases : n = Cardinality(DOMAIN l.files) /\ bases = Sorted(DOMAIN l.files)
  OBVIOUS
<1>2. /\ n \in Nat \ {0}
      /\ \A i \in 1 .. n : bases[i] \in DOMAIN l.files
      /\ \A b \in DOMAIN l.files : \E i \in 1 .. n : bases[i] = b
  BY <1>1, SortedFiles DEF InOrder
<1>3. Lists(names, l.files, bases, n)
  BY <1>1, OpensListed
<1>4. \A k \in DOMAIN names : IsOld(l, names[k])
  BY <1>2, <1>3 DEF Lists, IsOld, AllIndexed
<1>5. \A b \in DOMAIN l.files : Twice(names, b)
  <2> SUFFICES ASSUME NEW b \in DOMAIN l.files PROVE Twice(names, b)
    OBVIOUS
  <2>1. PICK i \in 1 .. n : bases[i] = b
    BY <1>2
  <2>2. l.files[bases[i]].indexed
    BY <2>1 DEF AllIndexed
  <2>3. Twice(names, bases[i])
    BY <1>3, <2>2 DEF Lists
  <2>. QED
    BY <2>1, <2>3
<1>6. ASSUME NEW r, NEW N, NEW b, SavedAs(l.files, b, r, N) PROVE Waits(l, names, r, N)
  <2>1. b \in DOMAIN l.files
    BY <1>6 DEF SavedAs
  <2>2. DOMAIN l.segments = {}
    OBVIOUS
  <2>3. WaitsIn(l, names, r, N, b)
    BY <1>5, <1>6, <2>1, <2>2 DEF WaitsIn
  <2>. QED
    BY <2>3 DEF Waits
<1>. QED
  BY <1>4, <1>6

LEMMA ClosedIndexed ==
    ASSUME NEW recs, NEW l, GoodLog(l, recs), NEW m, ClosedTo(m, l, Len(l.segments))
    PROVE  AllIndexed(m.files)
<1> SUFFICES ASSUME NEW b \in DOMAIN m.files PROVE m.files[b].indexed
  BY DEF AllIndexed
<1>1. b \in DOMAIN l.files
  BY DEF ClosedTo
<1>2. PICK i \in DOMAIN l.segments : l.segments[i].base = b
  BY <1>1 DEF GoodLog
<1>3. Alone(l, i)
  BY GoodShape DEF Alone
<1>4. i <= Len(l.segments)
  <2>1. PICK k : k = Len(l.segments)
    OBVIOUS
  <2>2. k \in Nat /\ DOMAIN l.segments = 1 .. k
    BY <2>1, GoodShape
  <2>. QED
    BY ONLY <2>1, <2>2, i \in DOMAIN l.segments
<1>5. ClosedFile(m.files[b], l.segments[i], l.files[b])
  BY <1>2, <1>3, <1>4 DEF ClosedTo
<1>. QED
  BY <1>5 DEF ClosedFile

-----------------------------------------------------------------------------
(* The invariant.                                                           *)

\* The directory before the first process.
Nothing == [files |-> [b \in {} |-> NoFile], segments |-> <<>>]

TypeInv ==
    /\ phase \in {"down", "opening", "up"}
    /\ phase = "opening" <=> pending # <<>>
    /\ calls \in 0 .. MaxCalls /\ lives \in 0 .. MaxLives /\ crashes \in Nat
    /\ acked \subseteq Record /\ atClose \subseteq acked /\ torn \subseteq Nat

\* The first process has a good log, and Close saves every record that was readable.
First(N) ==
    lives <= 1 /\ crashes = 0 =>
        /\ lives = 0 => phase = "down"
        /\ lives = 0 \/ phase = "opening" => log = Nothing /\ acked = {}
        /\ phase = "opening" => pending = <<InitialOffset>>
        /\ phase = "up" => GoodLog(log, acked) /\ Counted(log, N)
        /\ lives = 1 /\ phase = "down" =>
              /\ AllIndexed(log.files) /\ DOMAIN log.files # {}
              /\ \A r \in atClose : \E b : SavedAs(log.files, b, r, N)

\* The second one keeps them readable, those of the bases opened so far.
Second(N) ==
    lives = 2 /\ crashes = 0 =>
        /\ phase = "opening" =>
              /\ \A k \in DOMAIN pending : IsOld(log, pending[k])
              /\ \A r \in atClose : Keeps(log, pending, r) \/ Waits(log, pending, r, N)
        /\ phase = "up" => \A r \in atClose : Keeps(log, <<>>, r)

\* N[b] index entries are written for base b.
Stands(N) ==
    /\ LifeLog(log, acked, N)
    /\ phase = "down" => log.segments = <<>>
    /\ phase = "opening" => OpeningLog(log, acked, N, pending)
    /\ phase = "up" => Ready(log, acked, N)
    /\ First(N) /\ Second(N)

IInv == TypeInv /\ OnlyTorn(log.files, torn) /\ \E N : Stands(N)

-----------------------------------------------------------------------------
(* The invariant is inductive.                                              *)

LEMMA InitIInv == Init => IInv
<1> SUFFICES ASSUME Init PROVE IInv
  OBVIOUS
<1>1. TypeInv
  BY LifeAssumption DEF Init, TypeInv, LifeAssumption
<1>2. PICK N : N = [b \in Nat |-> 0]
  OBVIOUS
<1>3. DOMAIN log.files = {} /\ log.segments = <<>> /\ DOMAIN log.segments = {} /\ log = Nothing
  BY DEF Init, Nothing
<1>4. Directory(log.files)
  BY <1>3, FS_EmptySet DEF Directory, Init
<1>5. log.segments \in Seq(Segment)
  BY <1>3
<1>6. LifeLog(log, acked, N)
  BY <1>2, <1>3, <1>4, <1>5 DEF LifeLog, SoundLog
<1>7. phase = "down" /\ lives = 0 /\ acked = {}
  BY DEF Init
<1>8. Stands(N)
  BY <1>3, <1>6, <1>7 DEF Stands, First, Second
<1>9. OnlyTorn(log.files, torn)
  BY <1>3 DEF OnlyTorn
<1>. QED
  BY <1>1, <1>8, <1>9 DEF IInv

LEMMA StartIInv == ASSUME IInv, Start PROVE IInv'
<1>1. /\ phase = "down" /\ lives < MaxLives /\ lives' = lives + 1
      /\ pending' = BasesToOpen(log.files) /\ phase' = "opening" /\ log' = log
      /\ calls' = calls /\ acked' = acked /\ atClose' = atClose /\ crashes' = crashes
      /\ torn' = torn
  BY DEF Start
<1>2. PICK N : Stands(N)
  BY DEF IInv
<1>3. LifeLog(log, acked, N) /\ log.segments = <<>> /\ First(N) /\ TypeInv
  BY <1>1, <1>2 DEF Stands, IInv
<1>4. OpeningLog(log, acked, N, BasesToOpen(log.files))
  BY <1>3, OpeningAtStart
<1>5. Directory(log.files)
  BY <1>3 DEF LifeLog, SoundLog
<1>6. BasesToOpen(log.files) # <<>>
  BY <1>5, BasesToOpenType
<1>7. lives' \in 0 .. MaxLives /\ lives \in Nat
  BY <1>1, <1>3, LifeAssumption DEF TypeInv, LifeAssumption
<1>8. TypeInv'
  BY <1>1, <1>3, <1>6, <1>7 DEF TypeInv
<1>9. First(N)'
  <2> SUFFICES ASSUME lives' <= 1, crashes' = 0
               PROVE  log' = Nothing /\ acked' = {} /\ pending' = <<InitialOffset>> /\ lives' # 0
    BY <1>1 DEF First
  <2>1. lives = 0 /\ lives' # 0
    BY <1>1, <1>7
  <2>2. log = Nothing /\ acked = {}
    BY <1>1, <1>3, <2>1 DEF First
  <2>3. DOMAIN log.files = {}
    BY <2>2 DEF Nothing
  <2>. QED
    BY <1>1, <2>1, <2>2, <2>3, NothingToOpen
<1>10. Second(N)'
  <2> SUFFICES ASSUME lives' = 2, crashes' = 0
               PROVE  /\ \A k \in DOMAIN pending' : IsOld(log', pending'[k])
                      /\ \A r \in atClose' :
                            Keeps(log', pending', r) \/ Waits(log', pending', r, N)
    BY <1>1 DEF Second
  <2>1. lives = 1
    BY <1>1, <1>7
  <2>2. /\ AllIndexed(log.files) /\ DOMAIN log.files # {}
        /\ \A r \in atClose : \E b : SavedAs(log.files, b, r, N)
    BY <1>1, <1>3, <2>1 DEF First
  <2>3. PICK names : names = BasesToOpen(log.files)
    OBVIOUS
  <2>4. /\ \A k \in DOMAIN names : IsOld(log, names[k])
        /\ \A r, K : (\E b : SavedAs(log.files, b, r, K)) => Waits(log, names, r, K)
    BY <1>3, <1>5, <2>2, <2>3, WaitsAtStart
  <2>. QED
    BY <1>1, <2>2, <2>3, <2>4
<1>11. Stands(N)'
  BY <1>1, <1>3, <1>4, <1>9, <1>10 DEF Stands
<1>12. OnlyTorn(log.files, torn)'
  BY <1>1 DEF IInv
<1>. QED
  BY <1>8, <1>11, <1>12 DEF IInv

LEMMA OpenNextIInv ==
    ASSUME IInv, OpenNext PROVE IInv' /\ Grew(log.files, log'.files)
<1>1. /\ phase = "opening" /\ log' = NewSegment(log, Head(pending)) /\ pending' = Tail(pending)
      /\ phase' = IF Tail(pending) = <<>> THEN "up" ELSE "opening"
      /\ lives' = lives /\ calls' = calls /\ acked' = acked /\ atClose' = atClose
      /\ crashes' = crashes /\ torn' = torn
  BY DEF OpenNext
<1>2. PICK N : Stands(N)
  BY DEF IInv
<1>3. LifeLog(log, acked, N) /\ OpeningLog(log, acked, N, pending) /\ First(N) /\ Second(N)
      /\ TypeInv
  BY <1>1, <1>2 DEF Stands, IInv
<1>4. PICK names, rest, b, m : /\ names = pending /\ rest = Tail(names) /\ b = Head(names)
                               /\ m = NewSegment(log, b)
  OBVIOUS
<1>5. log' = m /\ pending' = rest /\ phase' = IF rest = <<>> THEN "up" ELSE "opening"
  BY <1>1, <1>4
<1>6. OpeningLog(log, acked, N, names)
  BY <1>3, <1>4
<1>7. Grew(log.files, m.files) /\ \E K : TurnTaken(m, log, acked, N, K, b, rest)
  BY <1>4, <1>6, OpeningNext
<1>8. PICK K : TurnTaken(m, log, acked, N, K, b, rest)
  BY <1>7
<1>80. /\ LifeLog(m, acked, K)
       /\ rest = <<>> => Ready(m, acked, K)
       /\ rest # <<>> => OpeningLog(m, acked, K, rest)
       /\ IsOld(log, b) => K = N
  BY <1>8 DEF TurnTaken
<1>9. TypeInv'
  BY <1>1, <1>3, <1>5 DEF TypeInv
<1>10. names \in Seq(Nat) /\ names # <<>> /\ b \in Nat
  <2>1. names \in Seq(Nat) /\ names # <<>>
    BY <1>6 DEF OpeningLog, ToOpen
  <2>. QED
    BY <1>4, <2>1
<1>11. First(K)'
  <2> SUFFICES ASSUME lives' <= 1, crashes' = 0
               PROVE  /\ lives' # 0 /\ phase' = "up"
                      /\ GoodLog(log', acked') /\ Counted(log', K)
    BY DEF First
  <2>1. log = Nothing /\ acked = {} /\ pending = <<InitialOffset>> /\ lives # 0
    BY <1>1, <1>3 DEF First
  <2>2. rest = <<>> /\ b = InitialOffset
    BY <1>4, <2>1
  <2>3. m = EmptyLog
    BY <1>4, <2>1, <2>2 DEF EmptyLog, Nothing
  <2>4. GoodLog(m, acked) /\ Counted(m, K)
    BY <1>80, <2>1, <2>2, <2>3, GoodEmpty, FirstCounted
  <2>. QED
    BY <1>1, <1>5, <2>1, <2>2, <2>4
<1>12. Second(K)'
  <2> SUFFICES ASSUME lives' = 2, crashes' = 0
               PROVE  /\ phase' = "opening" =>
                            /\ \A k \in DOMAIN pending' : IsOld(log', pending'[k])
                            /\ \A r \in atClose' :
                                  Keeps(log', pending', r) \/ Waits(log', pending', r, K)
                      /\ phase' = "up" => \A r \in atClose' : Keeps(log', <<>>, r)
    BY DEF Second
  <2>1. /\ \A k \in DOMAIN names : IsOld(log, names[k])
        /\ \A r \in atClose : Keeps(log, names, r) \/ Waits(log, names, r, N)
    BY <1>1, <1>3, <1>4 DEF Second
  <2>2. /\ 1 \in DOMAIN names /\ b = names[1]
        /\ \A k \in DOMAIN rest : k + 1 \in DOMAIN names /\ rest[k] = names[k + 1]
    BY <1>4, <1>10
  <2>3. IsOld(log, b)
    BY <2>1, <2>2
  <2>4. K = N
    BY <1>80, <2>3
  <2>5. /\ LifeLog(log, acked, N)
        /\ \A i \in DOMAIN log.segments :
              Again(log.segments[i], N[log.segments[i].base])
    BY <1>3 DEF OpeningLog
  <2>6. PICK z, s, n : Opens(m, log, N, b, z, s, n)
    BY <1>4 DEF Opens
  <2>7. ASSUME NEW r \in atClose PROVE Keeps(m, rest, r) \/ Waits(m, rest, r, N)
    <3>1. r.offset \in Nat
      BY <1>3 DEF TypeInv, Record
    <3>2. CASE Keeps(log, names, r)
      BY <1>10, <2>3, <2>5, <2>6, <3>1, <3>2, KeptOpen
    <3>3. CASE Waits(log, names, r, N)
      BY <1>4, <1>10, <2>3, <2>5, <2>6, <3>1, <3>3, WaitsOpen
    <3>. QED
      BY <2>1, <3>2, <3>3
  <2>8. \A k \in DOMAIN rest : IsOld(m, rest[k])
    <3>1. SameContents(log.files, m.files)
      BY <1>10, <2>3, <2>5, <2>6, OldOpened
    <3> SUFFICES ASSUME NEW k \in DOMAIN rest PROVE IsOld(m, rest[k])
      OBVIOUS
    <3>2. IsOld(log, rest[k])
      BY <2>1, <2>2
    <3>3. rest[k] \in DOMAIN m.files
      BY <3>1, <3>2 DEF IsOld, SameContents
    <3>4. m.files[rest[k]].indexed
      <4>1. CASE rest[k] = b
        <5>1. log.files[b] \in File
          BY <2>3, <2>5, LifeShape DEF IsOld
        <5>2. PICK f \in File : f = log.files[b]
          BY <5>1
        <5>. QED
          BY <1>4, <2>3, <4>1, <5>2, NewSegmentIndexes
      <4>2. CASE rest[k] # b
        BY <1>10, <2>3, <2>5, <2>6, <3>2, <4>2, OldOpened DEF IsOld
      <4>. QED
        BY <4>1, <4>2
    <3>. QED
      BY <3>3, <3>4 DEF IsOld
  <2>9. rest = <<>> => \A r, J : ~Waits(m, rest, r, J)
    <3>1. rest = <<>> => DOMAIN rest = {}
      OBVIOUS
    <3>. QED
      BY <3>1 DEF Waits, WaitsIn, Twice
  <2>10. CASE rest = <<>>
    BY <1>1, <1>5, <2>7, <2>9, <2>10
  <2>11. CASE rest # <<>>
    BY <1>1, <1>5, <2>4, <2>7, <2>8, <2>11
  <2>. QED
    BY <2>10, <2>11
<1>13. Stands(K)'
  <2>1. LifeLog(log', acked', K)
    BY <1>1, <1>5, <1>80
  <2>2. phase' # "down"
    BY <1>5
  <2>3. phase' = "opening" => OpeningLog(log', acked', K, pending')
    BY <1>1, <1>5, <1>80
  <2>4. phase' = "up" => Ready(log', acked', K)
    BY <1>1, <1>5, <1>80
  <2>. QED
    BY <1>11, <1>12, <2>1, <2>2, <2>3, <2>4 DEF Stands
<1>14. OnlyTorn(log.files, torn)'
  <2>1. SameSlots(log.files, m.files)
    BY <1>3, <1>4, <1>10, NewSegmentSlots DEF LifeLog
  <2>2. OnlyTorn(log.files, torn)
    BY DEF IInv
  <2>. QED
    BY <1>1, <1>5, <2>1, <2>2, SameSlotsTorn
<1>15. IInv'
  BY <1>9, <1>13, <1>14 DEF IInv
<1>. QED
  BY <1>5, <1>7, <1>15

LEMMA AppendIInv ==
    ASSUME IInv, NEW len \in PayloadLens, AppendRecord(len)
    PROVE  IInv' /\ Grew(log.files, log'.files) /\ AppendsTo(log', log)
<1>1. PICK h, s, r, id :
         /\ h = HighestOffset(log) /\ s = AppendTarget(log, h) /\ id = calls + 1
         /\ r = [offset |-> s.next, id |-> id, len |-> len]
  OBVIOUS
<1>2. /\ phase = "up" /\ calls < MaxCalls /\ calls' = calls + 1
      /\ log' = AppendLocked(log, h, id, len)
      /\ acked' = IF IndexMaxed(s) THEN acked ELSE acked \cup {r}
      /\ phase' = phase /\ pending' = pending /\ atClose' = atClose /\ lives' = lives
      /\ crashes' = crashes /\ torn' = torn
  BY <1>1 DEF AppendRecord
<1>3. PICK N : Stands(N)
  BY DEF IInv
<1>4. LifeLog(log, acked, N) /\ Ready(log, acked, N) /\ First(N) /\ Second(N) /\ TypeInv
  BY <1>2, <1>3 DEF Stands, IInv
<1>5. id \in Nat /\ len \in Nat /\ calls' \in 0 .. MaxCalls
  <2>1. calls \in Nat /\ MaxCalls \in Nat
    BY <1>4, LifeAssumption DEF TypeInv, LifeAssumption
  <2>. QED
    BY <1>1, <1>2, <2>1, LifeAssumption DEF LifeAssumption
<1>6. PICK more, m : Adds(more, acked, r) /\ m = AppendLocked(log, h, id, len)
  BY DEF Adds
<1>7. /\ ~IndexMaxed(s) /\ s.next \in Nat /\ AppendsTo(m, log)
      /\ \A T : OnlyTorn(log.files, T) => OnlyTorn(m.files, T)
      /\ \E K : LifeLog(m, more, K) /\ Ready(m, more, K) /\ (Counted(log, N) => Counted(m, K))
  BY <1>1, <1>4, <1>5, <1>6, LifeAppendLocked
<1>8. PICK K : LifeLog(m, more, K) /\ Ready(m, more, K) /\ (Counted(log, N) => Counted(m, K))
  BY <1>7
<1>9. log' = m /\ acked' = more /\ more = acked \cup {r}
  BY <1>2, <1>6, <1>7 DEF Adds
<1>10. r \in Record
  BY <1>1, <1>5, <1>7 DEF Record
<1>11. TypeInv'
  BY <1>2, <1>4, <1>5, <1>9, <1>10 DEF TypeInv
<1>12. First(K)'
  <2> SUFFICES ASSUME lives' <= 1, crashes' = 0
               PROVE  lives' # 0 /\ GoodLog(log', acked') /\ Counted(log', K)
    BY <1>2 DEF First
  <2>1. lives # 0 /\ GoodLog(log, acked) /\ Counted(log, N)
    BY <1>2, <1>4 DEF First
  <2>2. log.segments # <<>>
    BY <1>4 DEF Ready
  <2>3. PICK end : end = Last(log.segments).next
    OBVIOUS
  <2>4. s.next = end /\ GoodLog(m, acked \cup {[offset |-> end, id |-> id, len |-> len]})
    BY <1>1, <1>5, <1>6, <2>1, <2>2, <2>3, GoodAppendLocked
  <2>. QED
    BY <1>1, <1>2, <1>8, <1>9, <2>1, <2>4
<1>13. Second(K)'
  <2> SUFFICES ASSUME lives' = 2, crashes' = 0, NEW r0 \in atClose'
               PROVE  Keeps(log', <<>>, r0)
    BY <1>2 DEF Second
  <2>1. Keeps(log, <<>>, r0)
    BY <1>2, <1>4 DEF Second
  <2>. QED
    BY <1>4, <1>7, <1>8, <1>9, <2>1, KeptAppend
<1>14. Stands(K)'
  <2>1. LifeLog(log', acked', K) /\ Ready(log', acked', K)
    BY <1>8, <1>9
  <2>. QED
    BY <1>2, <1>12, <1>13, <2>1 DEF Stands
<1>15. OnlyTorn(log.files, torn)'
  <2>1. OnlyTorn(log.files, torn)
    BY DEF IInv
  <2>. QED
    BY <1>2, <1>7, <1>9, <2>1
<1>16. IInv'
  BY <1>11, <1>14, <1>15 DEF IInv
<1>. QED
  BY <1>7, <1>9, <1>16 DEF AppendsTo

LEMMA ReadIInv ==
    ASSUME IInv, NEW off \in Offsets, Read(off)
    PROVE  IInv' /\ Grew(log.files, log'.files) /\ Len(log'.segments) = Len(log.segments)
<1>1. PICK i : i = FindSegment(log, off)
  OBVIOUS
<1>2. /\ phase = "up" /\ i # 0 /\ log' = FlushSegment(log, i)
      /\ calls' = calls /\ acked' = acked
      /\ phase' = phase /\ pending' = pending /\ atClose' = atClose /\ lives' = lives
      /\ crashes' = crashes /\ torn' = torn
  BY <1>1 DEF Read
<1>3. PICK N : Stands(N)
  BY DEF IInv
<1>4. LifeLog(log, acked, N) /\ Ready(log, acked, N) /\ First(N) /\ Second(N) /\ TypeInv
  BY <1>2, <1>3 DEF Stands, IInv
<1>5. i \in DOMAIN log.segments
  BY <1>1, <1>2, <1>4, LifeFound
<1>6. PICK m : m = FlushSegment(log, i)
  OBVIOUS
<1>7. LifeLog(m, acked, N) /\ Grew(log.files, m.files)
  <2>1. /\ LifeLog(FlushSegment(log, i), acked, N)
        /\ Grew(log.files, FlushSegment(log, i).files)
    BY <1>4, <1>5, LifeFlush
  <2>. QED
    BY <1>6, <2>1
<1>8. TypeInv'
  BY <1>2, <1>4 DEF TypeInv
<1>9. Ready(m, acked, N) /\ Len(m.segments) = Len(log.segments)
  BY <1>4, <1>5, <1>6, ReadyFlush
<1>10. First(N)'
  <2> SUFFICES ASSUME lives' <= 1, crashes' = 0
               PROVE  lives' # 0 /\ GoodLog(log', acked') /\ Counted(log', N)
    BY <1>2 DEF First
  <2>1. lives # 0 /\ GoodLog(log, acked) /\ Counted(log, N)
    BY <1>2, <1>4 DEF First
  <2>2. /\ GoodLog(m, acked) /\ DOMAIN m.segments = DOMAIN log.segments
        /\ \A j \in DOMAIN log.segments :
              /\ m.segments[j].base = log.segments[j].base
              /\ m.segments[j].next = log.segments[j].next
    BY <1>5, <1>6, <2>1, GoodFlush
  <2>3. Counted(m, N)
    BY <2>1, <2>2 DEF Counted
  <2>. QED
    BY <1>2, <1>6, <2>1, <2>2, <2>3
<1>11. Second(N)'
  <2> SUFFICES ASSUME lives' = 2, crashes' = 0, NEW r \in atClose'
               PROVE  Keeps(log', <<>>, r)
    BY <1>2 DEF Second
  <2>1. Keeps(log, <<>>, r)
    BY <1>2, <1>4 DEF Second
  <2>2. Keeps(m, <<>>, r)
    BY <1>4, <1>5, <1>6, <2>1, KeptFlush
  <2>. QED
    BY <1>2, <1>6, <2>2
<1>12. Stands(N)'
  <2>1. LifeLog(log', acked', N) /\ Ready(log', acked', N)
    BY <1>2, <1>6, <1>7, <1>9
  <2>. QED
    BY <1>2, <1>10, <1>11, <2>1 DEF Stands
<1>13. OnlyTorn(log.files, torn)'
  <2>1. SameSlots(log.files, m.files)
    BY <1>4, <1>5, <1>6, FlushSlots
  <2>2. OnlyTorn(log.files, torn)
    BY DEF IInv
  <2>. QED
    BY <1>2, <1>6, <2>1, <2>2, SameSlotsTorn
<1>. QED
  BY <1>2, <1>6, <1>7, <1>8, <1>9, <1>12, <1>13 DEF IInv

LEMMA CloseIInv ==
    ASSUME IInv, Close PROVE IInv' /\ Grew(log.files, log'.files) /\ log'.segments = <<>>
<1>1. /\ phase = "up" /\ log' = [files |-> ClosedFiles(log), segments |-> <<>>]
      /\ phase' = "down" /\ calls' = calls /\ acked' = acked /\ pending' = pending
      /\ atClose' = {r \in acked : ReadLog(log, r.offset) = [err |-> "", rec |-> r]}
      /\ lives' = lives /\ crashes' = crashes /\ torn' = torn
  BY DEF Close
<1>2. PICK N : Stands(N)
  BY DEF IInv
<1>3. LifeLog(log, acked, N) /\ Ready(log, acked, N) /\ First(N) /\ TypeInv
  BY <1>1, <1>2 DEF Stands, IInv
<1>4. PICK m, w : w = Len(log.segments) /\ m = ClosedLog(log, w)
  OBVIOUS
<1>5. w \in Nat /\ w \in 0 .. Len(log.segments)
  BY <1>3, <1>4, LifeShape
<1>6. LifeLog(m, acked, N) /\ ClosedTo(m, log, w)
  BY <1>3, <1>4, <1>5, LifeClosed
<1>7. PICK q : q = [files |-> m.files, segments |-> <<>>]
  OBVIOUS
<1>8. log' = q /\ q.files = m.files /\ q.segments = <<>>
  BY <1>1, <1>4, <1>7 DEF ClosedFiles
<1>9. LifeLog(q, acked, N)
  BY <1>6, <1>8, LifeOver
<1>10. TypeInv'
  BY <1>1, <1>3 DEF TypeInv
<1>11. First(N)'
  <2> SUFFICES ASSUME lives' <= 1, crashes' = 0
               PROVE  /\ lives' # 0
                      /\ AllIndexed(log'.files) /\ DOMAIN log'.files # {}
                      /\ \A r \in atClose' : \E b : SavedAs(log'.files, b, r, N)
    BY <1>1 DEF First
  <2>1. lives # 0 /\ GoodLog(log, acked) /\ Counted(log, N)
    BY <1>1, <1>3 DEF First
  <2>2. AllIndexed(m.files)
    BY <1>4, <1>6, <2>1, ClosedIndexed
  <2>3. DOMAIN m.files # {}
    <3>1. log.segments # <<>>
      BY <1>3 DEF Ready
    <3>2. Last(log.segments).base \in DOMAIN log.files
      BY <1>3, <3>1, LastSegment
    <3>. QED
      BY <1>6, <3>2 DEF ClosedTo
  <2>4. ASSUME NEW r \in atClose' PROVE \E b : SavedAs(m.files, b, r, N)
    <3>1. r \in acked /\ ReadLog(log, r.offset) = [err |-> "", rec |-> r]
      BY <1>1
    <3>2. r.offset \in Nat
      BY <1>3, <3>1 DEF TypeInv, Record
    <3>. QED
      BY <1>3, <1>4, <1>6, <2>1, <3>1, <3>2, ClosedSaves
  <2>. QED
    BY <1>1, <1>8, <2>1, <2>2, <2>3, <2>4
<1>12. Second(N)'
  BY <1>1 DEF Second
<1>13. Stands(N)'
  <2>1. LifeLog(log', acked', N) /\ log'.segments = <<>>
    BY <1>1, <1>8, <1>9
  <2>. QED
    BY <1>1, <1>11, <1>12, <2>1 DEF Stands
<1>14. OnlyTorn(log.files, torn)'
  <2>1. SameSlots(log.files, m.files)
    BY <1>6 DEF ClosedTo, SameSlots
  <2>2. OnlyTorn(log.files, torn)
    BY DEF IInv
  <2>. QED
    BY <1>1, <1>8, <2>1, <2>2, SameSlotsTorn
<1>. QED
  BY <1>6, <1>8, <1>10, <1>13, <1>14 DEF IInv, ClosedTo

LEMMA CrashIInv ==
    ASSUME IInv, Crash PROVE IInv' /\ Grew(log.files, log'.files) /\ log'.segments = <<>>
<1>1. /\ phase # "down" /\ crashes' = crashes + 1 /\ phase' = "down" /\ pending' = <<>>
      /\ calls' = calls /\ acked' = acked /\ atClose' = atClose /\ lives' = lives
      /\ torn' = torn
  BY DEF Crash
<1>2. PICK N : Stands(N)
  BY DEF IInv
<1>3. LifeLog(log, acked, N) /\ TypeInv
  BY <1>2 DEF Stands, IInv
<1>4. PICK files : /\ files \in {log.files} \cup
                                  UNION {Interrupted(log.files, b) : b \in Creating}
                   /\ log' = [files |-> files, segments |-> <<>>]
  BY DEF Crash
<1>5. PICK q : q = [files |-> files, segments |-> <<>>]
  OBVIOUS
<1>6. q.files = files /\ q.segments = <<>> /\ log' = q
  BY <1>4, <1>5
<1>7. (\E K : LifeLog(q, acked, K)) /\ Grew(log.files, q.files)
  <2>1. CASE files = log.files
    <3>1. LifeLog(q, acked, N)
      BY <1>3, <1>6, <2>1, LifeOver
    <3>. QED
      BY <1>6, <2>1, <3>1 DEF Grew, Longer
  <2>2. CASE files # log.files
    <3>1. PICK b \in Creating : files \in Interrupted(log.files, b)
      BY <1>4, <2>2
    <3>2. PICK f \in Stubs : files = PutFile(log.files, b, f)
      BY <3>1 DEF Interrupted
    <3>3. Stub(f)
      BY StubTypes DEF Stubs
    <3>4. b \notin DOMAIN log.files
      BY DEF Creating
    <3>5. b \in Nat
      <4>1. CASE phase = "opening"
        <5>1. b = Head(pending)
          BY <4>1 DEF Creating
        <5>2. pending \in Seq(Nat) /\ pending # <<>>
          BY <1>2, <4>1 DEF Stands, OpeningLog, ToOpen
        <5>. QED
          BY <5>1, <5>2
      <4>2. CASE phase = "up"
        <5>1. b = HighestOffset(log) + 1
          BY <4>2 DEF Creating
        <5>2. log.segments # <<>>
          BY <1>2, <4>2 DEF Stands, Ready
        <5>3. Last(log.segments).next \in Nat
          BY <1>3, <5>2, LastSegment
        <5>. QED
          BY <5>1, <5>3 DEF HighestOffset
      <4>. QED
        BY <1>1, <1>3, <4>1, <4>2 DEF TypeInv
    <3>. QED
      BY <1>3, <1>6, <3>2, <3>3, <3>4, <3>5, LifeStub
  <2>. QED
    BY <2>1, <2>2
<1>8. PICK K : LifeLog(q, acked, K)
  BY <1>7
<1>9. crashes' \in Nat /\ crashes' # 0
  BY <1>1, <1>3 DEF TypeInv
<1>10. TypeInv'
  BY <1>1, <1>3, <1>9 DEF TypeInv
<1>11. First(K)' /\ Second(K)'
  BY <1>9 DEF First, Second
<1>12. Stands(K)'
  BY <1>1, <1>6, <1>8, <1>11 DEF Stands
<1>13. OnlyTorn(log.files, torn)'
  <2>1. SameSlots(log.files, files)
    <3>1. CASE files = log.files
      BY <3>1 DEF SameSlots
    <3>2. CASE files # log.files
      <4>1. PICK b \in Creating : files \in Interrupted(log.files, b)
        BY <1>4, <3>2
      <4>2. PICK f \in Stubs : files = PutFile(log.files, b, f)
        BY <4>1 DEF Interrupted
      <4>3. f.slots = NoFile.slots
        BY StubTypes DEF Stubs, Stub
      <4>. QED
        BY <4>2, <4>3 DEF PutFile, SameSlots
    <3>. QED
      BY <3>1, <3>2
  <2>2. OnlyTorn(log.files, torn)
    BY DEF IInv
  <2>. QED
    BY <1>1, <1>6, <2>1, <2>2, SameSlotsTorn
<1>. QED
  BY <1>6, <1>7, <1>10, <1>12, <1>13 DEF IInv

LEMMA CrashInWriteIInv ==
    ASSUME IInv, CrashInWrite
    PROVE  IInv' /\ Grew(log.files, log'.files) /\ log'.segments = <<>>
<1>1. PICK s : s = Last(log.segments)
  OBVIOUS
<1>2. /\ phase = "up" /\ calls < MaxCalls /\ ~IsMaxed(s)
      /\ calls' = calls + 1 /\ crashes' = crashes + 1 /\ phase' = "down"
      /\ torn' = torn \cup {s.next}
      /\ pending' = pending /\ acked' = acked /\ atClose' = atClose /\ lives' = lives
  BY <1>1 DEF CrashInWrite
<1>3. PICK q : q = [files |-> TornFiles(log), segments |-> <<>>]
  OBVIOUS
<1>4. log' = q /\ q.files = TornFiles(log) /\ q.segments = <<>>
  BY <1>3 DEF CrashInWrite
<1>5. PICK N : Stands(N)
  BY DEF IInv
<1>6. LifeLog(log, acked, N) /\ Ready(log, acked, N) /\ TypeInv /\ OnlyTorn(log.files, torn)
  BY <1>2, <1>5 DEF Stands, IInv
<1>7. /\ \E K : LifeLog(q, acked, K)
      /\ Grew(log.files, q.files) /\ s.next \in Nat
      /\ \A T : OnlyTorn(log.files, T) => OnlyTorn(q.files, T \cup {s.next})
  BY <1>1, <1>2, <1>4, <1>6, LifeTorn
<1>8. PICK K : LifeLog(q, acked, K)
  BY <1>7
<1>9. crashes' \in Nat /\ crashes' # 0 /\ calls' \in 0 .. MaxCalls
  BY <1>2, <1>6, LifeAssumption DEF TypeInv, LifeAssumption
<1>10. TypeInv'
  BY <1>2, <1>6, <1>7, <1>9 DEF TypeInv
<1>11. First(K)' /\ Second(K)'
  BY <1>9 DEF First, Second
<1>12. Stands(K)'
  BY <1>2, <1>4, <1>8, <1>11 DEF Stands
<1>13. OnlyTorn(log.files, torn)'
  BY <1>2, <1>4, <1>6, <1>7
<1>. QED
  BY <1>4, <1>7, <1>10, <1>12, <1>13 DEF IInv

LEMMA NextIInv ==
    ASSUME IInv, Next PROVE IInv' /\ Grew(log.files, log'.files)
<1>1. CASE Start
  <2>1. log' = log
    BY <1>1 DEF Start
  <2>2. Grew(log.files, log'.files)
    BY <2>1 DEF Grew, Longer
  <2>. QED
    BY <1>1, <2>2, StartIInv
<1>2. CASE OpenNext
  BY <1>2, OpenNextIInv
<1>3. ASSUME NEW len \in PayloadLens, AppendRecord(len)
      PROVE  IInv' /\ Grew(log.files, log'.files)
  BY <1>3, AppendIInv
<1>4. ASSUME NEW off \in Offsets, Read(off)
      PROVE  IInv' /\ Grew(log.files, log'.files)
  BY <1>4, ReadIInv
<1>5. CASE Close
  BY <1>5, CloseIInv
<1>6. CASE Crash
  BY <1>6, CrashIInv
<1>7. CASE CrashInWrite
  BY <1>7, CrashInWriteIInv
<1>. QED
  BY <1>1, <1>2, <1>3, <1>4, <1>5, <1>6, <1>7 DEF Next

LEMMA StepIInv == IInv /\ [Next]_vars => IInv'
<1> SUFFICES ASSUME IInv, [Next]_vars PROVE IInv'
  OBVIOUS
<1>1. CASE Next
  BY <1>1, NextIInv
<1>2. CASE UNCHANGED vars
  BY <1>2 DEF vars, IInv, TypeInv, Stands, First, Second
<1>. QED
  BY <1>1, <1>2

LEMMA Invariance == Spec => []IInv
<1>. QED
  BY InitIInv, StepIInv, PTL DEF Spec

-----------------------------------------------------------------------------
(* The theorems.                                                            *)

\* Whatever the processes and crashes leave in the directory, setup, Append, Read and
\* Close find only what they can handle (log.go, segment.go).
THEOREM TypeCorrect == Spec => []TypeOK
<1>1. IInv => TypeOK
  <2> SUFFICES ASSUME IInv PROVE TypeOK
    OBVIOUS
  <2>1. PICK N : Stands(N)
    BY DEF IInv
  <2>2. SoundLog(log) /\ (phase = "down" => log.segments = <<>>) /\ TypeInv
    BY <2>1 DEF Stands, LifeLog, IInv
  <2>3. log.files \in [DOMAIN log.files -> File] /\ DOMAIN log.files \subseteq Nat
    BY <2>2 DEF SoundLog, Directory
  <2>4. log.segments \in Seq(Segment)
    BY <2>2 DEF SoundLog
  <2>5. \A s \in Range(log.segments) : s.base \in DOMAIN log.files
    BY <2>2 DEF SoundLog, Range
  <2>. QED
    BY <2>2, <2>3, <2>4, <2>5 DEF TypeOK, TypeInv
<1>. QED
  BY <1>1, Invariance, PTL

\* No read, in any life, returns a record that was not acknowledged, nor one of another
\* offset, unless a crash between the two stores of index.Write kept half an entry: then
\* it may be the first of the segment.
THEOREM ReadsYieldAcked == Spec => []ReadYieldsAcked
<1>1. IInv => ReadYieldsAcked
  <2> SUFFICES ASSUME IInv, NEW off \in Offsets, Readable(log, off)
               PROVE  TornOrOneOf(ReadLog(log, off).rec, log, off, acked, torn)
    BY DEF ReadYieldsAcked, TornOrOneOf, OneOf
  <2>1. PICK N : Stands(N)
    BY DEF IInv
  <2>2. LifeLog(log, acked, N) /\ OnlyTorn(log.files, torn)
    BY <2>1 DEF Stands, IInv
  <2>3. off \in Nat
    BY ConfigAssumption, LifeAssumption DEF Offsets, ConfigAssumption, LifeAssumption
  <2>. QED
    BY <2>2, <2>3, LifeRead
<1>. QED
  BY <1>1, Invariance, PTL

\* What one process could read when it closed the log, the next can, although setup
\* makes two objects for every base.
THEOREM FirstReopenKeeps == Spec => []FirstReopenKeepsReadable
<1>1. IInv => FirstReopenKeepsReadable
  <2> SUFFICES ASSUME IInv, phase = "up", lives = 2, crashes = 0, NEW r \in atClose
               PROVE  ReadLog(log, r.offset) = [err |-> "", rec |-> r]
    BY DEF FirstReopenKeepsReadable
  <2>1. PICK N : Stands(N)
    BY DEF IInv
  <2>2. LifeLog(log, acked, N) /\ Keeps(log, <<>>, r)
    BY <2>1 DEF Stands, Second
  <2>3. r.offset \in Nat
    BY DEF IInv, TypeInv, Record
  <2>. QED
    BY <2>2, <2>3, KeptRead
<1>. QED
  BY <1>1, Invariance, PTL

\* No step takes a frame out of a store file.
THEOREM FramesStay == Spec => FlushedForEver
<1>1. IInv /\ [Next]_vars => [OnDisk(log.files) \subseteq OnDisk(log'.files)]_vars
  <2> SUFFICES ASSUME IInv, Next PROVE OnDisk(log.files) \subseteq OnDisk(log'.files)
    OBVIOUS
  <2>1. PICK gs : gs = log'.files
    OBVIOUS
  <2>2. Grew(log.files, gs)
    BY <2>1, NextIInv
  <2>3. ASSUME NEW e \in OnDisk(log.files) PROVE e \in OnDisk(gs)
    <3>1. PICK b \in DOMAIN log.files : e \in {<<b, fr.rec>> : fr \in Range(log.files[b].store)}
      BY DEF OnDisk
    <3>2. PICK fr \in Range(log.files[b].store) : e = <<b, fr.rec>>
      BY <3>1
    <3>3. PICK k \in DOMAIN log.files[b].store : log.files[b].store[k] = fr
      BY <3>2 DEF Range
    <3>4. b \in DOMAIN gs /\ k \in DOMAIN gs[b].store /\ gs[b].store[k] = fr
      BY <2>2, <3>3 DEF Grew, Longer
    <3>5. fr \in Range(gs[b].store)
      BY <3>4 DEF Range
    <3>. QED
      BY <3>2, <3>4, <3>5 DEF OnDisk
  <2>. QED
    BY <2>1, <2>3
<1>. QED
  BY <1>1, Invariance, PTL DEF FlushedForEver, Spec

\* An append that rolls over makes new files.
THEOREM RolloversCreate == Spec => RolloverCreates
<1>1. IInv /\ [Next]_vars =>
          [phase = "up" /\ Len(log'.segments) > Len(log.segments) =>
               Last(log'.segments).base \notin DOMAIN log.files]_vars
  <2> SUFFICES ASSUME IInv, Next, phase = "up", Len(log'.segments) > Len(log.segments)
               PROVE  Last(log'.segments).base \notin DOMAIN log.files
    OBVIOUS
  <2>0. Len(log.segments) \in Nat
    <3>1. PICK N : Stands(N)
      BY DEF IInv
    <3>. QED
      BY <3>1, LifeShape DEF Stands
  <2>1. ~Start /\ ~OpenNext
    BY DEF Start, OpenNext
  <2>2. ASSUME NEW len \in PayloadLens, AppendRecord(len)
        PROVE  Last(log'.segments).base \notin DOMAIN log.files
    <3>1. AppendsTo(log', log)
      BY <2>2, AppendIInv
    <3>2. Len(log'.segments) # Len(log.segments)
      BY <2>0
    <3>. QED
      BY <3>1, <3>2 DEF AppendsTo
  <2>3. ASSUME NEW off \in Offsets, Read(off) PROVE FALSE
    <3>1. Len(log'.segments) = Len(log.segments)
      BY <2>3, ReadIInv
    <3>. QED
      BY <2>0, <3>1
  <2>4. ASSUME Close \/ Crash \/ CrashInWrite PROVE FALSE
    <3>1. log'.segments = <<>>
      BY <2>4, CloseIInv, CrashIInv, CrashInWriteIInv
    <3>2. Len(log'.segments) = 0
      BY <3>1
    <3>. QED
      BY <2>0, <3>2
  <2>. QED
    BY <2>1, <2>2, <2>3, <2>4 DEF Next
<1>. QED
  BY <1>1, Invariance, PTL DEF RolloverCreates, Spec
=============================================================================
