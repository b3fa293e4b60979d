---------------------------- MODULE SegmentedLog ----------------------------
(***************************************************************************)
(* The commit log of internal/log as a data structure: the store file and  *)
(* the index file of a segment, the segment that pairs them, and the list  *)
(* of segments that makes a Log.  Everything here is a constant operator   *)
(* on a log value                                                          *)
(*                                                                         *)
(*     l = [files |-> ..., segments |-> ...]                               *)
(*                                                                         *)
(* files is the directory: a function from the base offsets that have      *)
(* files to what those files hold.  segments is Log.segments, the segment  *)
(* objects in list order; l.activeSegment is always the last of them.  The *)
(* modules that extend this one add the goroutines, the process lifetime   *)
(* and the callers.                                                        *)
(***************************************************************************)
EXTENDS Integers, Sequences, FiniteSets, SequencesExt

CONSTANTS MaxStoreBytes,   \* Config.Segment.MaxStoreBytes
          MaxIndexBytes,   \* Config.Segment.MaxIndexBytes
          InitialOffset    \* Config.Segment.InitialOffset

lenWidth == 8              \* length prefix of a frame in the store file

entryWidth == 12           \* offsetWidth (4) + positionWidth (8)

\* An index too small for one entry makes every segment maxed at birth.
ASSUME ConfigAssumption ==
    /\ MaxStoreBytes \in Nat \ {0}
    /\ MaxIndexBytes \in Nat /\ MaxIndexBytes >= entryWidth
    /\ InitialOffset \in Nat

-----------------------------------------------------------------------------
(* Records and frames.  A record carries the payload of one Append call:    *)
(* id names the call, len is the length of the payload.                     *)

Record == [offset : Nat, id : Nat, len : Nat]

\* Length of the protobuf encoding: a field that has its zero value is not
\* encoded, any other costs a tag byte, and a payload its length byte too.
MarshalLen(r) == (IF r.len = 0 THEN 0 ELSE 2 + r.len)
                     + (IF r.offset = 0 THEN 0 ELSE 2)

\* What store.Append writes for one record: where, and which record.
Frame == [pos : Nat, rec : Record]

FrameEnd(fr) == fr.pos + lenWidth + MarshalLen(fr.rec)

\* Number of bytes in a store file.
StoreBytes(frames) == IF frames = <<>> THEN 0 ELSE FrameEnd(Last(frames))

-----------------------------------------------------------------------------
(* The files of a segment.  store is the frames that reached the file;      *)
(* slots is what the mapped index holds, ilen the length of the index file  *)
(* (0 also stands for a file that does not exist yet: see NewSegment), and  *)
(* indexed says that the index file exists.                                 *)

Slots == 0 .. (MaxIndexBytes \div entryWidth) - 1

Entry == [off : Nat, pos : Nat]

NoEntry == [off |-> 0, pos |-> 0]    \* a slot never written reads as zeros

File == [store : Seq(Frame), slots : [Slots -> Entry],
         ilen : 0 .. MaxIndexBytes, indexed : BOOLEAN]

NoFile == [store |-> <<>>, slots |-> [k \in Slots |-> NoEntry],
           ilen |-> 0, indexed |-> FALSE]

PutFile(files, b, f) ==
    [c \in DOMAIN files \cup {b} |-> IF c = b THEN f ELSE files[c]]

FileOf(files, b) == IF b \in DOMAIN files THEN files[b] ELSE NoFile

-----------------------------------------------------------------------------
(* A segment object: size is store.size, isize is index.size, buf the       *)
(* frames still in the store's bufio.Writer.                                *)

Segment == [base : Nat, next : Nat, size : Nat, isize : Nat, buf : Seq(Frame)]

\* index.IsMaxed: no room in the mapping for one more entry.
IndexMaxed(s) == MaxIndexBytes < s.isize + entryWidth

IsMaxed(s) ==
    \/ s.size >= MaxStoreBytes
    \/ s.isize >= MaxIndexBytes
    \/ IndexMaxed(s)

\* index.Read(-1) on a file of n bytes: the relative offset in the last
\* whole entry, or -1 where the code returns io.EOF.
LastRelative(f, n) ==
    IF n < entryWidth THEN -1 ELSE f.slots[(n \div entryWidth) - 1].off

\* Mutant: nextOffset is the offset of the last entry.
OpenSegmentAtLast(f, b) ==
    [base |-> b, next |-> b + LastRelative(f, f.ilen),
     size |-> StoreBytes(f.store), isize |-> f.ilen, buf |-> <<>>]

\* newSegment of segment.go: open or create both files, grow the index file
\* to MaxIndexBytes, and take nextOffset from the last index entry.
OpenSegment(f, b) ==
    [base |-> b, next |-> b + LastRelative(f, f.ilen) + 1,
     size |-> StoreBytes(f.store), isize |-> f.ilen, buf |-> <<>>]

\* newIndex, once the size is read: the index file is extended with zeros.
Grown(f) == [f EXCEPT !.ilen = MaxIndexBytes, !.indexed = TRUE]

\* Mutant: the store file is opened with O_TRUNC.
NewSegmentTruncating(l, b) ==
    LET f == [FileOf(l.files, b) EXCEPT !.store = <<>>]
    IN  [files    |-> PutFile(l.files, b, Grown(f)),
         segments |-> Append(l.segments, OpenSegment(f, b))]

\* Log.newSegment: the new segment object becomes the last and active one.
NewSegment(l, b) ==
    LET f == FileOf(l.files, b)
    IN  [files    |-> PutFile(l.files, b, Grown(f)),
         segments |-> Append(l.segments, OpenSegment(f, b))]

\* Segment i and its file after an operation on the segment.
PutSegment(l, i, t, g) ==
    [files    |-> PutFile(l.files, t.base, g),
     segments |-> [l.segments EXCEPT ![i] = t]]

\* bufio.Writer.Flush.  The store file is opened with O_APPEND, so the
\* frames land at the end of the file, wherever store.size says they are.
Flushed(f, buf) ==
    IF buf = <<>> THEN f
    ELSE LET shift == StoreBytes(f.store) - buf[1].pos
         IN  [f EXCEPT !.store = @ \o
                 [i \in DOMAIN buf |-> [buf[i] EXCEPT !.pos = @ + shift]]]

\* Mutant: the buffer is written but not emptied.
FlushSegmentKeeping(l, i) ==
    LET s == l.segments[i]
    IN  PutSegment(l, i, s, Flushed(l.files[s.base], s.buf))

FlushSegment(l, i) ==
    LET s == l.segments[i]
    IN  PutSegment(l, i, [s EXCEPT !.buf = <<>>],
                   Flushed(l.files[s.base], s.buf))

\* store.Append: the frame goes to the buffer, at the size counted so far.
NewFrame(s, id, len) ==
    [pos |-> s.size, rec |-> [offset |-> s.next, id |-> id, len |-> len]]

Buffered(s, fr) == [s EXCEPT !.buf = Append(@, fr), !.size = FrameEnd(fr)]

\* Mutant: the position is the size of the file, without the buffered bytes.
PutEntryAtFileSize(f, s) ==
    [f EXCEPT !.slots[s.isize \div entryWidth] =
                  [off |-> s.next - s.base, pos |-> StoreBytes(f.store)]]

\* index.Write in the mapped file: two stores, of the offset and of the position,
\* between which the lock keeps everybody from reading.  TornEntry is what a
\* crash between them leaves.
PutEntry(f, s) ==
    [f EXCEPT !.slots[s.isize \div entryWidth] =
                  [off |-> s.next - s.base, pos |-> s.size]]

\* Only the offset is in the mapping; the position is still the zeros of before.
TornEntry(f, s) ==
    [f EXCEPT !.slots[s.isize \div entryWidth] =
                  [off |-> s.next - s.base, pos |-> @.pos]]

\* The offset and the position count from here on.
Indexed(s) == [s EXCEPT !.isize = @ + entryWidth, !.next = @ + 1]

\* segment.Append on the active segment.  When the index is full the frame
\* stays in the buffer but gets no entry, and the caller an error.
SegmentAppend(l, id, len) ==
    LET n == Len(l.segments)
        s == l.segments[n]
        f == l.files[s.base]
        t == Buffered(s, NewFrame(s, id, len))
    IN  IF IndexMaxed(s) THEN PutSegment(l, n, t, f)
                         ELSE PutSegment(l, n, Indexed(t), PutEntry(f, s))

-----------------------------------------------------------------------------
(* Reading.  A result is [err, rec]; err is "" on success.                  *)

NoRecord == [offset |-> 0, id |-> 0, len |-> 0]

Failure(e) == [err |-> e, rec |-> NoRecord]

\* store.Read at a byte position of the flushed file.  A frame of length
\* zero is refused; past the end of the file ReadAt reports EOF.
StoreRead(frames, pos) ==
    LET at == {j \in DOMAIN frames : frames[j].pos = pos}
    IN  IF at = {} THEN Failure("EOF")
        ELSE LET r == frames[CHOOSE j \in at : TRUE].rec
             IN  IF MarshalLen(r) = 0 THEN Failure("ZeroSize")
                 ELSE [err |-> "", rec |-> r]

\* segment.Read: the index entry, then the store after a flush.
SegmentRead(l, s, off) ==
    LET k == off - s.base
        f == l.files[s.base]
    IN  IF s.isize < (k + 1) * entryWidth THEN Failure("EOF")
        ELSE StoreRead(Flushed(f, s.buf).store, f.slots[k].pos)

\* Mutant: the last such segment.
FindSegmentLast(l, off) ==
    LET hits == {i \in DOMAIN l.segments :
                    l.segments[i].base <= off /\ off <= l.segments[i].next}
    IN  IF hits = {} THEN 0 ELSE Max(hits)

\* The loop of Log.Read: the first segment with base <= off <= nextOffset,
\* or 0.  The upper bound is inclusive in the code.
FindSegment(l, off) ==
    LET hits == {i \in DOMAIN l.segments :
                    l.segments[i].base <= off /\ off <= l.segments[i].next}
    IN  IF hits = {} THEN 0 ELSE Min(hits)

ReadLog(l, off) ==
    LET i == FindSegment(l, off)
    IN  IF i = 0 \/ l.segments[i].next <= off THEN Failure("OffsetOutOfRange")
        ELSE SegmentRead(l, l.segments[i], off)

Readable(l, off) == ReadLog(l, off).err = ""

-----------------------------------------------------------------------------
(* The other methods of Log.                                                *)

LowestOffset(l) == l.segments[1].base

\* Mutant: the offset after the highest one.
NextOffset(l) == Last(l.segments).next

HighestOffset(l) ==
    LET n == Last(l.segments).next IN IF n = 0 THEN 0 ELSE n - 1

\* Mutant: the new segment starts at the highest offset itself.
RolledAtHigh(l, high) ==
    IF IsMaxed(Last(l.segments)) THEN NewSegment(l, high) ELSE l

\* Log.Append under l.mu.Lock, first half: a new segment when the active one is
\* full; high is the HighestOffset that the caller read under its own, earlier,
\* l.mu.RLock.
Rolled(l, high) ==
    IF IsMaxed(Last(l.segments)) THEN NewSegment(l, high + 1) ELSE l

\* Second half: the append to the segment that is now active.
AppendLocked(l, high, id, len) == SegmentAppend(Rolled(l, high), id, len)

\* The segment that gets the record: its nextOffset is the offset that Append
\* returns, a full index makes Append fail with io.EOF.
AppendTarget(l, high) == Last(Rolled(l, high).segments)

\* Mutant: every segment that starts at or below lowest goes.
TruncateLogAtBase(l, lowest) ==
    LET kept == {i \in DOMAIN l.segments : l.segments[i].base > lowest}
        gone == {l.segments[i].base : i \in DOMAIN l.segments \ kept}
    IN  [files    |-> [b \in DOMAIN l.files \ gone |-> l.files[b]],
         segments |-> IF kept = {} THEN <<>>
                      ELSE SubSeq(l.segments, Min(kept), Len(l.segments))]

\* Truncate: every segment that ends at or below lowest + 1 goes, files too.
\* Where a base is open only once, segments end at increasing offsets, so that
\* the ones to keep are a suffix of the list.
TruncateLog(l, lowest) ==
    LET Gone(s) == s.next <= lowest + 1
        kept    == {i \in DOMAIN l.segments : ~Gone(l.segments[i])}
        gone    == {l.segments[i].base : i \in DOMAIN l.segments \ kept}
    IN  [files    |-> [b \in DOMAIN l.files \ gone |-> l.files[b]],
         segments |-> IF kept = {} THEN <<>>
                      ELSE SubSeq(l.segments, Min(kept), Len(l.segments))]

\* Mutant: the index file keeps the length of the mapping.
CloseSegmentUncut(l, i) == FlushSegment(l, i)

\* Closing a segment cuts the index file at index.size, which zeroes what is
\* beyond it, and flushes the store.
CloseSegment(l, i) ==
    LET s   == l.segments[i]
        f   == l.files[s.base]
        cut == [f EXCEPT !.slots = [k \in Slots |->
                                       IF k < s.isize \div entryWidth
                                       THEN f.slots[k] ELSE NoEntry],
                         !.ilen  = s.isize]
    IN  PutSegment(l, i, [s EXCEPT !.buf = <<>>], Flushed(cut, s.buf))

\* Close closes the segments in list order; here it has come to segment n.
ClosedLog(l, n) == FoldLeft(CloseSegment, l, [i \in 1 .. n |-> i])

ClosedFiles(l) == ClosedLog(l, Len(l.segments)).files

\* A finite set of offsets in increasing order.
Sorted(S) ==
    CHOOSE seq \in [1 .. Cardinality(S) -> S] :
        \A i, j \in 1 .. Cardinality(S) : i < j => seq[i] < seq[j]

\* ReadDir lists a name per file, a .store and an .index for each base, and
\* setup opens the base offset of every name, sorted; with no name at all it
\* opens InitialOffset.
BasesToOpen(files) ==
    LET bases    == Sorted(DOMAIN files)
        Names(b) == IF files[b].indexed THEN <<b, b>> ELSE <<b>>
    IN  IF bases = <<>> THEN <<InitialOffset>>
        ELSE FlattenSeq([i \in DOMAIN bases |-> Names(bases[i])])

\* setup on a directory that holds files.
Reopened(files) ==
    FoldLeft(NewSegment, [files |-> files, segments |-> <<>>], BasesToOpen(files))

\* NewLog on an empty directory.
EmptyLog == NewSegment([files |-> [b \in {} |-> NoFile], segments |-> <<>>],
                       InitialOffset)

-----------------------------------------------------------------------------
(* What a crash leaves of the directory.  The kernel keeps files and        *)
(* mappings; the buffers are gone.                                          *)

\* A crash inside newSegment leaves a new base with a store file only, with an
\* index file not yet grown, or with both and no record.
Stubs ==
    {NoFile} \cup
        {[NoFile EXCEPT !.indexed = TRUE, !.ilen = n] : n \in {0, MaxIndexBytes}}

Interrupted(files, b) == {PutFile(files, b, f) : f \in Stubs}

\* A crash inside index.Write, on the active segment.
TornFiles(l) ==
    LET s == Last(l.segments)
    IN  PutFile(l.files, s.base, TornEntry(l.files[s.base], s))

\* The directories that a crash inside Append may leave, besides those that a
\* crash before or after it does.
CutAppends(l) ==
    LET b == HighestOffset(l) + 1
    IN  IF ~IsMaxed(Last(l.segments)) THEN {TornFiles(l)}
        ELSE IF b \in DOMAIN l.files THEN {}
        ELSE Interrupted(l.files, b)

-----------------------------------------------------------------------------
(* What the segments hold, for the properties.                              *)

Held(s) == s.base .. s.next - 1

Stored(l) == UNION {Held(s) : s \in Range(l.segments)}

\* The record written for offset off in segment object i, found without the
\* segment search of Log.Read.
RecordIn(l, i, off) ==
    LET s == l.segments[i]
        f == l.files[s.base]
        frames == Flushed(f, s.buf).store
    IN  frames[CHOOSE j \in DOMAIN frames :
                   frames[j].pos = f.slots[off - s.base].pos].rec

\* Index and store agree: as many entries as frames, written or buffered; the
\* frames follow each other without a gap; entry k - 1 points at frame k, which
\* holds one of the records recs under the offset of its place.
Consistent(s, f, recs) ==
    LET frames == f.store \o s.buf
    IN  /\ s.base <= s.next
        /\ s.isize = entryWidth * (s.next - s.base)
        /\ s.isize <= MaxIndexBytes
        /\ Len(frames) = s.next - s.base
        /\ s.size = StoreBytes(frames)
        /\ \A k \in DOMAIN frames :
              /\ frames[k].pos = IF k = 1 THEN 0 ELSE FrameEnd(frames[k - 1])
              /\ \A j \in 1 .. k - 1 : FrameEnd(frames[j]) <= frames[k].pos
              /\ frames[k].rec \in recs
              /\ frames[k].rec.offset = s.base + k - 1
              /\ f.slots[k - 1] = [off |-> k - 1, pos |-> frames[k].pos]
=============================================================================
