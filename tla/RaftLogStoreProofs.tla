------------------------- MODULE RaftLogStoreProofs -------------------------
(***************************************************************************)
(* Theorems about RaftLogStore, for all sizes, batches, terms and numbers  *)
(* of trailing entries: what a compaction leaves, in every life of the     *)
(* server, and what the log holds until it restarts for the first time or  *)
(* a call of StoreLogs fails.                                              *)
(***************************************************************************)
EXTENDS RaftLogStore, SegmentedLogProofs

-----------------------------------------------------------------------------
(* The inductive invariant.  In every life the log is one that appends,     *)
(* flushes, truncations and reopenings can make.  In the first, the offset  *)
(* Append gives next is Raft's index because the end of the log follows     *)
(* either Raft's last index or, while a batch is in progress, the entry     *)
(* that comes next in it.                                                   *)

\* The records of the entries Raft stored last at each index.
Current ==
    {[offset |-> i, id |-> latest[i], len |-> EntryLen] :
        i \in {j \in Indices : latest[j] > 0}}

BatchFits ==
    \/ batch = NoBatch
    \/ /\ batch \in [index : Indices, term : 1 .. MaxTerm, left : 1 .. MaxBatch]
       /\ batch.index + batch.left - 1 <= MaxIndex

Typed ==
    /\ SoundLog(log)
    /\ phase \in {"up", "stuck", "dead"}
    /\ lastIndex \in 0 .. MaxIndex /\ lastTerm \in Nat
    /\ BatchFits
    /\ snapIndex \in 0 .. MaxIndex
    /\ latest \in [Indices -> 0 .. MaxTerm]
    /\ stored \subseteq [index : Indices, term : 1 .. MaxTerm]
    /\ cut \in BOOLEAN /\ restarts \in Nat

RaftKnows ==
    /\ lastIndex \in 0 .. MaxIndex
    /\ snapIndex \in 0 .. lastIndex
    /\ BatchFits
    /\ latest \in [Indices -> 0 .. MaxTerm]
    /\ stored \subseteq [index : Indices, term : 1 .. MaxTerm]
    /\ \A i \in Indices :
          latest[i] > 0 => [index |-> i, term |-> latest[i]] \in stored

\* What Raft or a slow follower may still ask for.
Needed(i) == i > snapIndex \/ i > lastIndex - TrailingLogs

EndAgrees ==
    log.segments # <<>> =>
        LET end == Last(log.segments).next
        IN  /\ lastIndex < end
            /\ end = IF batch = NoBatch THEN lastIndex + 1 ELSE batch.index
            /\ \A i \in Indices : i >= end => latest[i] = 0
            /\ \A i \in Indices : i < end /\ Needed(i) => i \in Stored(log)

FirstLife ==
    /\ RaftKnows
    /\ GoodLog(log, Current)
    /\ EndAgrees

Undisturbed == restarts = 0 /\ ~cut

IInv == Typed /\ (Undisturbed => FirstLife)

\* What StoreAssumption says of the bounds.
LEMMA Bounds ==
    /\ MaxIndex \in Nat /\ MaxTerm \in Nat /\ MaxBatch \in Nat
    /\ EntryLen \in Nat /\ TrailingLogs \in Nat /\ InitialOffset = 1
BY StoreAssumption DEF StoreAssumption

-----------------------------------------------------------------------------
(* Logs.                                                                    *)

\* A log good with some records is good with more.
LEMMA GoodMore ==
    ASSUME NEW recs, NEW more, recs \subseteq more, NEW l, GoodLog(l, recs)
    PROVE  GoodLog(l, more)
<1>1. \A i \in DOMAIN l.segments :
          Consistent(l.segments[i], l.files[l.segments[i].base], more)
  BY MoreRecords DEF GoodLog
<1>. QED
  BY <1>1 DEF GoodLog

\* Where every base is open once, no Truncate is spoilt.
LEMMA NeverSpoilt ==
    ASSUME NEW recs, NEW l, GoodLog(l, recs), NEW lowest \in Nat
    PROVE  ~Spoils(l, lowest)
<1> SUFFICES ASSUME NEW i \in DOMAIN l.segments, NEW j \in DOMAIN l.segments, j < i,
                    l.segments[i].next <= lowest + 1, ~(l.segments[j].next <= lowest + 1)
             PROVE  FALSE
  BY GoodShape DEF Spoils
<1>1. l.segments[j].next <= l.segments[i].base /\ l.segments[i].base <= l.segments[i].next
  BY GoodShape DEF GoodLog
<1>2. /\ l.segments[j].next \in Nat /\ l.segments[i].base \in Nat
      /\ l.segments[i].next \in Nat
  BY GoodShape
<1>. QED
  BY <1>1, <1>2

\* Truncate keeps what lies above lowest, and no segment if the log ends there.
LEMMA TruncateKeeps ==
    ASSUME NEW recs, NEW l, GoodLog(l, recs), NEW lowest \in Nat,
           NEW m, m = TruncateLog(l, lowest)
    PROVE  /\ \A q \in Stored(l) : q > lowest => q \in Stored(m)
           /\ m.segments # <<>> =>
                 /\ l.segments # <<>>
                 /\ Last(m.segments) = Last(l.segments)
                 /\ lowest + 1 < Last(l.segments).next
<1> DEFINE n == Len(l.segments)
<1>1. /\ n \in Nat /\ DOMAIN l.segments = 1 .. n
      /\ \A i \in 1 .. n : /\ l.segments[i].base \in Nat
                           /\ l.segments[i].next \in Nat
      /\ l.segments # <<>> => n \in 1 .. n /\ Last(l.segments) = l.segments[n]
  BY GoodShape DEF Last
<1>2. PICK d \in 0 .. n : Drops(m, l, lowest, d)
  BY TruncateDrops
<1>3. /\ m.segments \in Seq(Segment)
      /\ Len(m.segments) = n - d /\ DOMAIN m.segments = 1 .. n - d
      /\ \A i \in 1 .. n - d : m.segments[i] = l.segments[d + i]
      /\ \A i \in 1 .. n : i <= d <=> l.segments[i].next <= lowest + 1
  BY <1>2 DEF Drops
<1> HIDE DEF n
<1>4. ASSUME NEW q \in Stored(l), q > lowest PROVE q \in Stored(m)
  <2>1. PICK i \in 1 .. n : q \in Held(l.segments[i])
    BY <1>1, InStored
  <2>2. ~(l.segments[i].next <= lowest + 1)
    BY <1>1, <1>4, <2>1 DEF Held
  <2>3. i > d
    BY <1>2, <1>3, <2>1, <2>2
  <2>4. i - d \in 1 .. n - d /\ d + (i - d) = i
    BY <1>1, <1>2, <2>1, <2>3
  <2>5. m.segments[i - d] = l.segments[i]
    BY <1>3, <2>4
  <2>. QED
    BY <1>3, <2>1, <2>4, <2>5, InStored
<1>5. ASSUME m.segments # <<>>
      PROVE  /\ l.segments # <<>>
             /\ Last(m.segments) = Last(l.segments)
             /\ lowest + 1 < Last(l.segments).next
  <2>1. n - d # 0
    BY <1>3, <1>5, EmptySeq
  <2>2. n - d \in 1 .. n - d /\ d + (n - d) = n /\ n \in 1 .. n /\ n > d
    BY <1>1, <1>2, <2>1
  <2>3. l.segments # <<>>
    BY <1>1, <2>2 DEF n
  <2>4. m.segments[n - d] = l.segments[n]
    BY <1>3, <2>2
  <2>5. Last(m.segments) = Last(l.segments)
    BY <1>1, <1>3, <2>3, <2>4 DEF Last
  <2>6. ~(l.segments[n].next <= lowest + 1)
    BY <1>2, <1>3, <2>2
  <2>. QED
    BY <1>1, <2>2, <2>3, <2>5, <2>6
<1>. QED
  BY <1>4, <1>5

-----------------------------------------------------------------------------
(* The invariant holds initially, and every step of the first life keeps it. *)

\* Raft starts on an empty log.
LEMMA InitInv == Init => IInv
<1> SUFFICES ASSUME Init PROVE Typed /\ FirstLife
  BY DEF IInv
<1> USE Bounds
<1>1. RaftKnows
  <2>1. \A i \in Indices : latest[i] = 0
    BY DEF Init, Indices
  <2>2. latest \in [Indices -> 0 .. MaxTerm]
    BY <2>1 DEF Init, Indices
  <2>. QED
    BY <2>1, <2>2 DEF Init, RaftKnows, BatchFits
<1>2. GoodLog(log, Current)
  <2>1. GoodLog(EmptyLog, {})
    BY GoodEmpty
  <2>. QED
    BY <2>1, GoodMore DEF Init
<1>3. EndAgrees
  <2>1. Last(log.segments).next = 1
    BY GoodEmpty DEF Init
  <2>2. \A i \in Indices : ~(i < 1) /\ latest[i] = 0
    BY DEF Init, Indices
  <2>. QED
    BY <2>1, <2>2 DEF Init, EndAgrees
<1>4. Typed
  BY <1>1, EmptyIsSound DEF Init, RaftKnows, Typed
<1>. QED
  BY <1>1, <1>2, <1>3, <1>4 DEF FirstLife

\* Raft hands a batch to StoreLogs.
LEMMA StoreInv ==
    ASSUME FirstLife, NEW n \in 1 .. MaxBatch, NEW term \in 1 .. MaxTerm,
           Store(n, term)
    PROVE  FirstLife'
<1> USE Bounds
<1>1. /\ batch = NoBatch /\ lastIndex + n <= MaxIndex
      /\ batch' = [index |-> lastIndex + 1, term |-> term, left |-> n]
      /\ UNCHANGED <<log, phase, lastIndex, snapIndex, latest, stored>>
  BY DEF Store
<1>2. lastIndex \in Nat
  BY DEF FirstLife, RaftKnows
<1>3. batch'.index = lastIndex + 1 /\ batch'.left = n /\ batch' # NoBatch
  BY <1>1, <1>2 DEF NoBatch
<1>4. lastIndex + 1 \in Indices
  BY <1>1, <1>2 DEF Indices
<1>5. BatchFits'
  BY <1>1, <1>2, <1>3, <1>4 DEF BatchFits, Indices
<1>6. RaftKnows'
  BY <1>1, <1>5 DEF FirstLife, RaftKnows
<1>7. GoodLog(log, Current)' /\ EndAgrees'
  BY <1>1, <1>3 DEF FirstLife, Current, EndAgrees, Needed
<1>. QED
  BY <1>6, <1>7 DEF FirstLife

\* The entry goes to the end of the log, which is its index.
LEMMA StoreNextEffect ==
    ASSUME FirstLife, StoreNext, log.segments # <<>>
    PROVE  LET end == Last(log.segments).next
           IN  /\ end = batch.index /\ batch # NoBatch
               /\ GoodLog(log', Current \cup {[offset |-> end, id |-> batch.term,
                                              len |-> EntryLen]})
               /\ Last(log'.segments).next = end + 1
               /\ Stored(log') = Stored(log) \cup {end}
               /\ batch' = IF batch.left = 1 THEN NoBatch
                           ELSE [batch EXCEPT !.index = @ + 1, !.left = @ - 1]
               /\ lastIndex' = IF batch.left = 1 THEN batch.index ELSE lastIndex
               /\ latest' = [latest EXCEPT ![batch.index] = batch.term]
               /\ stored' = stored \cup {[index |-> batch.index, term |-> batch.term]}
               /\ UNCHANGED <<phase, snapIndex, cut, restarts>>
<1> DEFINE h == HighestOffset(log)
           end == Last(log.segments).next
<1> USE Bounds
<1>1. /\ batch # NoBatch
      /\ log' = AppendLocked(log, h, batch.term, EntryLen)
      /\ UNCHANGED <<phase, snapIndex, restarts>>
  BY DEF StoreNext
<1>2. batch.term \in Nat
  BY <1>1 DEF FirstLife, RaftKnows, BatchFits
<1>3. GoodLog(log, Current)
  BY DEF FirstLife
<1>4. LET m == AppendLocked(log, h, batch.term, EntryLen)
          t == AppendTarget(log, h)
          next == Last(log.segments).next
      IN  /\ next \in Nat
          /\ t.next = next /\ ~IndexMaxed(t)
          /\ GoodLog(m, Current \cup {[offset |-> next, id |-> batch.term,
                                       len |-> EntryLen]})
          /\ m.segments # <<>>
          /\ Last(m.segments).next = next + 1
          /\ Stored(m) = Stored(log) \cup {next}
          /\ Ends(m) \subseteq Ends(log) \cup {next + 1}
  BY <1>2, <1>3, GoodAppendLocked
<1>5. end = batch.index
  BY <1>1 DEF FirstLife, EndAgrees
<1>6. ~IndexMaxed(AppendTarget(log, h))
  BY <1>4
<1>7. /\ batch' = IF batch.left = 1 THEN NoBatch
                  ELSE [batch EXCEPT !.index = @ + 1, !.left = @ - 1]
      /\ lastIndex' = IF batch.left = 1 THEN batch.index ELSE lastIndex
      /\ latest' = [latest EXCEPT ![batch.index] = batch.term]
      /\ stored' = stored \cup {[index |-> batch.index, term |-> batch.term]}
      /\ cut' = cut
  BY <1>6 DEF StoreNext
<1>. QED
  BY <1>1, <1>4, <1>5, <1>7

\* One turn of the loop in StoreLogs stores one entry.
LEMMA StoreNextInv ==
    ASSUME FirstLife, StoreNext
    PROVE  FirstLife'
<1> USE Bounds
<1>1. CASE log.segments = <<>>
  <2>1. phase' = "dead"
        /\ UNCHANGED <<log, lastIndex, batch, snapIndex, latest, stored>>
    BY <1>1 DEF StoreNext
  <2>. QED
    BY <2>1
       DEF FirstLife, RaftKnows, BatchFits, Current, EndAgrees, Needed
<1>2. CASE log.segments # <<>>
  <2> DEFINE end == batch.index
             r   == [offset |-> end, id |-> batch.term, len |-> EntryLen]
  <2>1. /\ Last(log.segments).next = end /\ batch # NoBatch
        /\ GoodLog(log', Current \cup {r})
        /\ Last(log'.segments).next = end + 1
        /\ Stored(log') = Stored(log) \cup {end}
        /\ batch' = IF batch.left = 1 THEN NoBatch
                    ELSE [batch EXCEPT !.index = @ + 1, !.left = @ - 1]
        /\ lastIndex' = IF batch.left = 1 THEN end ELSE lastIndex
        /\ latest' = [latest EXCEPT ![end] = batch.term]
        /\ stored' = stored \cup {[index |-> end, term |-> batch.term]}
        /\ UNCHANGED <<phase, snapIndex>>
    BY <1>2, StoreNextEffect
  <2>2. /\ batch \in [index : Indices, term : 1 .. MaxTerm, left : 1 .. MaxBatch]
        /\ end \in Indices /\ batch.term \in 1 .. MaxTerm
        /\ batch.left \in 1 .. MaxBatch
        /\ end + batch.left - 1 <= MaxIndex
    BY <2>1 DEF FirstLife, RaftKnows, BatchFits
  <2>3. /\ end \in Nat /\ end <= MaxIndex /\ lastIndex \in Nat /\ lastIndex < end
        /\ \A i \in Indices : i >= end => latest[i] = 0
        /\ \A i \in Indices : i < end /\ Needed(i) => i \in Stored(log)
    BY <1>2, <2>1, <2>2 DEF FirstLife, RaftKnows, EndAgrees, Indices
  <2>4. latest'[end] = batch.term /\ \A i \in Indices : i # end => latest'[i] = latest[i]
    BY <2>1, <2>2 DEF FirstLife, RaftKnows
  <2>5. BatchFits'
    <3>1. CASE batch.left = 1
      BY <2>1, <3>1 DEF BatchFits
    <3>2. CASE batch.left # 1
      <4>1. batch' = [batch EXCEPT !.index = @ + 1, !.left = @ - 1]
        BY <2>1, <3>2
      <4>2. end + 1 \in Indices /\ batch.left - 1 \in 1 .. MaxBatch
        BY <2>2, <2>3, <3>2 DEF Indices
      <4>3. batch'.index = end + 1 /\ batch'.left = batch.left - 1
        BY <2>2, <4>1
      <4>4. batch' \in [index : Indices, term : 1 .. MaxTerm, left : 1 .. MaxBatch]
        BY <2>2, <4>1, <4>2
      <4>5. batch'.index + batch'.left - 1 <= MaxIndex
        BY <2>2, <2>3, <4>3
      <4>. QED
        BY <4>4, <4>5 DEF BatchFits
    <3>. QED
      BY <3>1, <3>2
  <2>6. RaftKnows'
    <3>1. lastIndex' \in 0 .. MaxIndex /\ lastIndex' >= lastIndex
      BY <2>1, <2>2, <2>3 DEF FirstLife, RaftKnows
    <3>3. snapIndex' \in 0 .. lastIndex'
      BY <2>1, <2>3, <3>1 DEF FirstLife, RaftKnows
    <3>4. latest' \in [Indices -> 0 .. MaxTerm]
      BY <2>1, <2>2 DEF FirstLife, RaftKnows
    <3>5. stored' \subseteq [index : Indices, term : 1 .. MaxTerm]
      BY <2>1, <2>2 DEF FirstLife, RaftKnows
    <3>6. \A i \in Indices :
              latest'[i] > 0 => [index |-> i, term |-> latest'[i]] \in stored'
      BY <2>1, <2>4 DEF FirstLife, RaftKnows
    <3>. QED
      BY <2>1, <2>5, <3>1, <3>3, <3>4, <3>5, <3>6 DEF FirstLife, RaftKnows
  <2>7. GoodLog(log', Current')
    <3>1. \A i \in Indices : latest[i] > 0 => latest'[i] = latest[i]
      <4>1. latest[end] = 0
        BY <2>2, <2>3
      <4>. QED
        BY <2>4, <4>1
    <3>2. ASSUME NEW i \in Indices, latest[i] > 0
          PROVE  [offset |-> i, id |-> latest[i], len |-> EntryLen] \in Current'
      BY <3>1, <3>2 DEF Current
    <3>3. r \in Current'
      BY <2>2, <2>4 DEF Current
    <3>4. Current \cup {r} \subseteq Current'
      BY <3>2, <3>3 DEF Current
    <3> HIDE DEF r
    <3>. QED
      BY <2>1, <3>4, GoodMore
  <2>8. EndAgrees'
    <3>1. lastIndex' < end + 1
      BY <2>1, <2>3
    <3>2. end + 1 = IF batch' = NoBatch THEN lastIndex' + 1 ELSE batch'.index
      <4>1. CASE batch.left = 1
        BY <2>1, <4>1
      <4>2. CASE batch.left # 1
        <5>1. batch' = [batch EXCEPT !.index = @ + 1, !.left = @ - 1]
          BY <2>1, <4>2
        <5>2. batch'.index = end + 1
          BY <2>2, <5>1
        <5>3. batch' # NoBatch
          BY <2>3, <5>2 DEF NoBatch
        <5>. QED
          BY <5>2, <5>3
      <4>. QED
        BY <4>1, <4>2
    <3>3. \A i \in Indices : i >= end + 1 => latest'[i] = 0
      BY <2>3, <2>4 DEF Indices
    <3>4. ASSUME NEW i \in Indices, i < end + 1, Needed(i)' PROVE i \in Stored(log')
      <4>1. CASE i = end
        BY <2>1, <4>1
      <4>2. CASE i # end
        <5>1. i < end
          BY <2>3, <3>4, <4>2 DEF Indices
        <5>2. lastIndex' >= lastIndex
          BY <2>1, <2>3
        <5>3. lastIndex' \in Nat
          BY <2>1, <2>3
        <5>4. Needed(i)
          BY <2>1, <2>3, <3>4, <5>2, <5>3 DEF Needed, Indices
        <5>. QED
          BY <2>1, <2>3, <5>1, <5>4
      <4>. QED
        BY <4>1, <4>2
    <3>. QED
      BY <2>1, <3>1, <3>2, <3>3, <3>4 DEF EndAgrees
  <2>. QED
    BY <2>6, <2>7, <2>8 DEF FirstLife
<1>. QED
  BY <1>1, <1>2

\* The whole log goes, so that the next entry Raft stores kills the server.
LEMMA ReplaceSuffixInv ==
    ASSUME FirstLife, NEW i \in Indices, NEW term \in 1 .. MaxTerm,
           NEW n \in 1 .. MaxBatch, ReplaceSuffix(i, term, n)
    PROVE  FirstLife'
<1> USE Bounds
<1>1. /\ batch = NoBatch /\ i + n - 1 <= MaxIndex
      /\ DeleteRange(i, lastIndex)
      /\ UNCHANGED <<lastIndex, snapIndex, latest, stored>>
  BY DEF ReplaceSuffix
<1>2. lastIndex \in Nat /\ GoodLog(log, Current)
  BY DEF FirstLife, RaftKnows
<1>3. ~Spoils(log, lastIndex)
  BY <1>2, NeverSpoilt
<1>4. log' = TruncateLog(log, lastIndex) /\ phase' = "up"
  BY <1>1, <1>3 DEF DeleteRange
<1>5. batch' = [index |-> i, term |-> term, left |-> n]
  BY <1>4 DEF ReplaceSuffix
<1>6. GoodLog(log', Current')
  <2>1. GoodLog(TruncateLog(log, lastIndex), Current)
    BY <1>2, GoodTruncate
  <2>. QED
    BY <1>1, <1>4, <2>1 DEF Current
<1>7. log'.segments = <<>>
  <2> SUFFICES ASSUME log'.segments # <<>> PROVE FALSE
    OBVIOUS
  <2>1. log.segments # <<>> /\ lastIndex + 1 < Last(log.segments).next
    BY <1>2, <1>4, TruncateKeeps
  <2>2. Last(log.segments).next = lastIndex + 1
    BY <1>1, <2>1 DEF FirstLife, EndAgrees
  <2>. QED
    BY <1>2, <2>1, <2>2
<1>8. RaftKnows'
  <2>1. BatchFits'
    BY <1>1, <1>5 DEF BatchFits
  <2>. QED
    BY <1>1, <1>4, <2>1 DEF FirstLife, RaftKnows
<1>. QED
  BY <1>6, <1>7, <1>8 DEF FirstLife, EndAgrees

\* GetLog flushes a store and changes no entry.
LEMMA GetLogInv ==
    ASSUME FirstLife, NEW i \in Indices, GetLog(i)
    PROVE  FirstLife'
<1> DEFINE k == FindSegment(log, i)
<1>1. /\ k # 0 /\ log' = FlushSegment(log, k)
      /\ UNCHANGED <<phase, lastIndex, batch, snapIndex, latest, stored>>
  BY DEF GetLog
<1>2. GoodLog(log, Current)
  BY DEF FirstLife
<1>3. k \in DOMAIN log.segments
  BY <1>1, <1>2, FoundFirst
<1> HIDE DEF k
<1>4. LET m == FlushSegment(log, k)
      IN  /\ GoodLog(m, Current)
          /\ Len(m.segments) = Len(log.segments)
          /\ DOMAIN m.segments = DOMAIN log.segments
          /\ \A j \in DOMAIN log.segments :
                /\ m.segments[j].base = log.segments[j].base
                /\ m.segments[j].next = log.segments[j].next
          /\ Stored(m) = Stored(log) /\ Ends(m) = Ends(log)
  BY <1>2, <1>3, GoodFlush
<1>5. /\ GoodLog(log', Current)
      /\ Len(log'.segments) = Len(log.segments)
      /\ \A j \in DOMAIN log.segments : log'.segments[j].next = log.segments[j].next
      /\ Stored(log') = Stored(log)
  BY <1>1, <1>4
<1>6. log.segments # <<>> /\ Last(log'.segments).next = Last(log.segments).next
  BY <1>2, <1>3, <1>5, GoodShape DEF Last
<1>7. RaftKnows'
  BY <1>1 DEF FirstLife, RaftKnows, BatchFits
<1>8. GoodLog(log', Current')
  BY <1>1, <1>5 DEF Current
<1>9. EndAgrees'
  BY <1>1, <1>5, <1>6 DEF FirstLife, EndAgrees, Needed
<1>. QED
  BY <1>7, <1>8, <1>9 DEF FirstLife

\* The smaller of two numbers.
LEMMA MinOfTwo ==
    ASSUME NEW a \in Int, NEW b \in Int
    PROVE  Min({a, b}) \in {a, b} /\ Min({a, b}) <= a /\ Min({a, b}) <= b
BY DEF Min

\* Compaction drops only what nobody needs any more, and nothing at the end that
\* Append will go on from.
LEMMA CompactInv ==
    ASSUME FirstLife, NEW i \in Indices, Compact(i)
    PROVE  FirstLife'
<1> DEFINE max == Min({i, lastIndex - TrailingLogs})
<1> USE Bounds
<1>1. /\ snapIndex < i /\ i <= lastIndex /\ snapIndex' = i
      /\ UNCHANGED <<lastIndex, batch, latest, stored>>
  BY DEF Compact
<1>2. /\ lastIndex \in Nat /\ snapIndex \in Nat /\ i \in Nat
      /\ GoodLog(log, Current)
  BY DEF FirstLife, RaftKnows, Indices
<1>3. CASE UNCHANGED log
  <2>1. RaftKnows'
    BY <1>1, <1>2, <1>3 DEF FirstLife, RaftKnows, BatchFits
  <2>2. EndAgrees'
    <3>1. \A j \in Indices : Needed(j)' => Needed(j)
      BY <1>1, <1>2 DEF Needed, Indices
    <3>. QED
      BY <1>1, <1>3, <3>1 DEF FirstLife, EndAgrees
  <2>. QED
    BY <1>1, <1>3, <2>1, <2>2 DEF FirstLife, Current
<1>4. CASE /\ log.segments # <<>>
           /\ LowestOffset(log) <= max
           /\ DeleteRange(LowestOffset(log), max)
  <2>1. max \in {i, lastIndex - TrailingLogs} /\ max <= i /\ max <= lastIndex - TrailingLogs
    <3>1. lastIndex - TrailingLogs \in Int
      BY <1>2
    <3> HIDE DEF max
    <3>2. ASSUME NEW a \in Int, NEW b \in Int, max = Min({a, b})
          PROVE  max \in {a, b} /\ max <= a /\ max <= b
      BY <3>2, MinOfTwo
    <3>. QED
      BY <1>2, <3>1, <3>2 DEF max
  <2> HIDE DEF max
  <2>2. LowestOffset(log) \in Nat
    BY <1>2, <1>4, GoodShape DEF LowestOffset
  <2>3. max \in Nat
    BY <1>2, <1>4, <2>1, <2>2
  <2>4. log' = TruncateLog(log, max) /\ phase' = "up"
    BY <1>2, <1>4, <2>3, NeverSpoilt DEF DeleteRange
  <2>5. GoodLog(log', Current')
    <3>1. GoodLog(TruncateLog(log, max), Current)
      BY <1>2, <2>3, GoodTruncate
    <3>. QED
      BY <1>1, <2>4, <3>1 DEF Current
  <2>6. RaftKnows'
    BY <1>1, <1>2, <2>4 DEF FirstLife, RaftKnows, BatchFits
  <2>7. EndAgrees'
    <3> SUFFICES ASSUME log'.segments # <<>>
                 PROVE  /\ log.segments # <<>>
                        /\ Last(log'.segments) = Last(log.segments)
                        /\ \A j \in Indices :
                              j < Last(log.segments).next /\ Needed(j)'
                                  => j \in Stored(log')
      BY <1>1 DEF FirstLife, EndAgrees
    <3>1. Last(log'.segments) = Last(log.segments)
      BY <1>2, <2>3, <2>4, TruncateKeeps
    <3>2. ASSUME NEW j \in Indices, j < Last(log.segments).next, Needed(j)'
          PROVE  j \in Stored(log')
      <4>1. Needed(j) /\ j > max
        BY <1>1, <1>2, <2>1, <2>3, <3>2 DEF Needed, Indices
      <4>2. j \in Stored(log)
        BY <1>4, <3>2, <4>1 DEF FirstLife, EndAgrees
      <4>. QED
        BY <1>2, <2>3, <2>4, <4>1, <4>2, TruncateKeeps
    <3>. QED
      BY <1>4, <3>1, <3>2
  <2>. QED
    BY <2>5, <2>6, <2>7 DEF FirstLife
<1>. QED
  BY <1>3, <1>4 DEF Compact

-----------------------------------------------------------------------------
(* Logs in any life.                                                        *)

\* What a read returns is a record.
LEMMA ReadsRecords ==
    ASSUME NEW l, SoundLog(l), NEW off \in Nat
    PROVE  ReadLog(l, off).rec \in Record
<1> DEFINE i == FindSegment(l, off)
           s == l.segments[i]
<1>1. NoRecord \in Record /\ \A e : Failure(e).rec = NoRecord
  BY DEF NoRecord, Record, Failure
<1>2. CASE i = 0 \/ l.segments[i].next <= off
  BY <1>1, <1>2 DEF ReadLog
<1>3. CASE ~(i = 0 \/ l.segments[i].next <= off)
  <2>1. i \in DOMAIN l.segments
    BY <1>3, FoundIn DEF SoundLog
  <2>2. Sound(s) /\ l.files[s.base] \in File
    BY <2>1 DEF SoundLog, Directory
  <2>3. ReadLog(l, off) = SegmentRead(l, s, off)
    BY <1>3 DEF ReadLog
  <2> HIDE DEF i, s
  <2>4. PICK frames : frames = Flushed(l.files[s.base], s.buf).store
    OBVIOUS
  <2>5. frames \in Seq(Frame)
    BY <2>2, <2>4, FlushedType DEF File
  <2>6. ASSUME NEW pos PROVE StoreRead(frames, pos).rec \in Record
    <3> DEFINE at == {j \in DOMAIN frames : frames[j].pos = pos}
    <3>1. CASE at = {}
      BY <1>1, <3>1 DEF StoreRead
    <3>2. CASE at # {}
      <4>1. PICK j : j = CHOOSE k \in at : TRUE
        OBVIOUS
      <4>2. j \in DOMAIN frames
        BY <3>2, <4>1
      <4>3. frames[j].rec \in Record
        <5>1. frames[j] \in Frame
          BY <2>5, <4>2
        <5>. QED
          BY <5>1 DEF Frame
      <4>4. StoreRead(frames, pos).rec
                = IF MarshalLen(frames[j].rec) = 0 THEN NoRecord ELSE frames[j].rec
        BY <1>1, <3>2, <4>1 DEF StoreRead
      <4>. QED
        BY <1>1, <4>3, <4>4
    <3>. QED
      BY <3>1, <3>2
  <2>7. SegmentRead(l, s, off).rec \in Record
    BY <1>1, <2>4, <2>6 DEF SegmentRead
  <2>. QED
    BY <2>3, <2>7
<1>. QED
  BY <1>2, <1>3

\* Truncate has dropped the first d segments of l, which end at or below lowest + 1,
\* and leaves m with the others, which do not, and with their files.
Leaves(m, l, lowest, d) ==
    /\ m.segments \in Seq(Segment)
    /\ DOMAIN m.segments = 1 .. Len(l.segments) - d
    /\ \A k \in 1 .. Len(l.segments) - d : m.segments[k] = l.segments[d + k]
    /\ \A k \in 1 .. Len(l.segments) : k <= d <=> l.segments[k].next <= lowest + 1
    /\ Directory(m.files)
    /\ \A k \in 1 .. Len(l.segments) - d :
          LET b == l.segments[d + k].base
          IN  b \in DOMAIN m.files /\ m.files[b] = l.files[b]

\* Where it is not spoilt, Truncate does that in any life.
LEMMA TruncateLeaves ==
    ASSUME NEW l, SoundLog(l), NEW lowest \in Nat, ~Spoils(l, lowest)
    PROVE  \E d \in 0 .. Len(l.segments) : Leaves(TruncateLog(l, lowest), l, lowest, d)
<1> DEFINE n == Len(l.segments)
           kept == {i \in DOMAIN l.segments : ~(l.segments[i].next <= lowest + 1)}
           gone == {l.segments[i].base : i \in DOMAIN l.segments \ kept}
           m == TruncateLog(l, lowest)
<1>1. /\ n \in Nat /\ DOMAIN l.segments = 1 .. n
      /\ l.segments \in Seq(Segment)
      /\ \A i \in 1 .. n : /\ l.segments[i] \in Segment
                           /\ l.segments[i].next \in Nat
                           /\ l.segments[i].base \in DOMAIN l.files
  <2>1. /\ n \in Nat /\ DOMAIN l.segments = 1 .. n /\ l.segments \in Seq(Segment)
    BY DEF SoundLog
  <2>2. \A i \in 1 .. n : l.segments[i] \in Segment /\ l.segments[i].base \in DOMAIN l.files
    BY <2>1 DEF SoundLog
  <2> HIDE DEF n, kept, gone, m
  <2>3. \A i \in 1 .. n : l.segments[i].next \in Nat
    BY <2>2 DEF Segment
  <2>. QED
    BY <2>1, <2>2, <2>3
<1>2. /\ m.segments = (IF kept = {} THEN <<>> ELSE SubSeq(l.segments, Min(kept), n))
      /\ m.files = [b \in DOMAIN l.files \ gone |-> l.files[b]]
  BY DEF TruncateLog
<1>3. \A i, j \in 1 .. n : i # j /\ i \notin kept =>
          /\ l.segments[i].base # l.segments[j].base
          /\ j < i => j \notin kept
  BY <1>1 DEF Spoils
<1>4. Directory(m.files)
  <2>1. Directory(l.files)
    BY DEF SoundLog
  <2>2. PICK g, D : g = m.files /\ D = DOMAIN l.files \ gone
    OBVIOUS
  <2>3. g = [b \in D |-> l.files[b]] /\ D \subseteq DOMAIN l.files
    BY <1>2, <2>2
  <2>4. IsFiniteSet(D) /\ D \in SUBSET Nat
    BY <2>1, <2>3, FS_Subset DEF Directory
  <2>5. DOMAIN g = D /\ g \in [D -> File]
    BY <2>1, <2>3 DEF Directory
  <2>. QED
    BY <2>2, <2>4, <2>5 DEF Directory
<1>5. \A k \in kept : LET b == l.segments[k].base
                      IN  b \in DOMAIN m.files /\ m.files[b] = l.files[b]
  <2> SUFFICES ASSUME NEW k \in kept
               PROVE  l.segments[k].base \in DOMAIN l.files \ gone
    BY <1>2
  <2>1. \A i \in DOMAIN l.segments \ kept : i # k /\ l.segments[i].base # l.segments[k].base
    BY <1>1, <1>3
  <2>. QED
    BY <1>1, <2>1
<1> HIDE DEF m, gone
<1>6. CASE kept = {}
  <2>1. m.segments = <<>>
    BY <1>2, <1>6
  <2>2. n - n = 0 /\ 1 .. n - n = {} /\ n \in 0 .. n /\ DOMAIN m.segments = {}
    BY <1>1, <2>1
  <2>3. \A i \in 1 .. n : l.segments[i].next <= lowest + 1 /\ i <= n
    BY <1>1, <1>6
  <2> HIDE DEF n, kept
  <2>4. Leaves(m, l, lowest, n)
    BY <1>4, <2>1, <2>2, <2>3, EmptySeq DEF Leaves, n
  <2>. QED
    BY <2>2, <2>4 DEF m, n
<1>7. CASE kept # {}
  <2>1. Min(kept) \in kept /\ \A i \in kept : Min(kept) <= i
    <3>1. kept \in SUBSET Nat
      BY <1>1
    <3> HIDE DEF kept
    <3>. QED
      BY <1>7, <3>1, MinIsLeast
  <2>2. PICK a : a = Min(kept)
    OBVIOUS
  <2>3. PICK d : d = a - 1
    OBVIOUS
  <2>4. a \in 1 .. n /\ a = d + 1 /\ d \in 0 .. n /\ d \in Nat
    BY <1>1, <2>1, <2>2, <2>3
  <2>5. \A i \in 1 .. n : i <= d <=> l.segments[i].next <= lowest + 1
    <3>1. \A i \in 1 .. n : i \in kept <=> ~(l.segments[i].next <= lowest + 1)
      BY <1>1
    <3> HIDE DEF kept
    <3>2. \A i \in 1 .. n : i \in kept => a <= i
      BY <2>1, <2>2
    <3>3. ASSUME NEW i \in 1 .. n, i \notin kept PROVE i < a
      BY <1>3, <2>1, <2>2, <2>4, <3>3
    <3>. QED
      BY <2>4, <3>1, <3>2, <3>3
  <2>6. \A k \in 1 .. n - d : d + k \in kept
    BY <1>1, <2>4, <2>5
  <2> HIDE DEF kept, n
  <2>7. /\ m.segments \in Seq(Segment) /\ DOMAIN m.segments = 1 .. n - d
        /\ \A i \in 1 .. n - d : m.segments[i] = l.segments[d + i]
    <3>1. m.segments = SubSeq(l.segments, d + 1, n)
      BY <1>2, <1>7, <2>2, <2>4
    <3>2. \A i \in d + 1 .. n : l.segments[i] \in Segment
      BY <1>1, <2>4
    <3>3. /\ m.segments \in Seq(Segment)
          /\ Len(m.segments) = n - (d + 1) + 1
          /\ \A i \in 1 .. n - (d + 1) + 1 : m.segments[i] = l.segments[d + 1 + i - 1]
      BY <1>1, <2>4, <3>1, <3>2, SubSeqProperties
    <3>4. n - (d + 1) + 1 = n - d /\ \A i \in 1 .. n - d : d + 1 + i - 1 = d + i
      BY <1>1, <2>4
    <3>. QED
      BY <3>3, <3>4
  <2>8. Leaves(m, l, lowest, d)
    BY <1>4, <1>5, <2>5, <2>6, <2>7 DEF Leaves, n
  <2>. QED
    BY <2>4, <2>8 DEF m, n
<1>. QED
  BY <1>6, <1>7

\* So the log is sound again, and an entry above lowest is where it was.
LEMMA TruncateSound ==
    ASSUME NEW l, SoundLog(l), NEW lowest \in Nat, ~Spoils(l, lowest),
           NEW m, m = TruncateLog(l, lowest)
    PROVE  /\ SoundLog(m)
           /\ \A off \in Nat : off > lowest =>
                 /\ off \in Stored(l) => off \in Stored(m)
                 /\ Readable(l, off) => ReadLog(m, off) = ReadLog(l, off)
<1> DEFINE n == Len(l.segments)
<1>1. PICK d \in 0 .. n : Leaves(m, l, lowest, d)
  BY TruncateLeaves
<1>2. /\ n \in Nat /\ d \in Nat /\ d <= n /\ DOMAIN l.segments = 1 .. n
      /\ l.segments \in Seq(Segment) /\ m.segments \in Seq(Segment)
      /\ DOMAIN m.segments = 1 .. n - d
      /\ \A k \in 1 .. n - d : m.segments[k] = l.segments[d + k] /\ d + k \in 1 .. n
  <2>1. n \in Nat /\ DOMAIN l.segments = 1 .. n /\ l.segments \in Seq(Segment)
    BY DEF SoundLog
  <2> HIDE DEF n
  <2>2. d \in Nat /\ d <= n /\ \A k \in 1 .. n - d : d + k \in 1 .. n
    BY <2>1
  <2>. QED
    BY <1>1, <2>1, <2>2 DEF Leaves, n
<1>3. \A k \in 1 .. n : /\ l.segments[k].base \in Nat /\ l.segments[k].next \in Nat
                        /\ Sound(l.segments[k])
  <2>1. \A k \in 1 .. n : Sound(l.segments[k])
    BY <1>2 DEF SoundLog
  <2> HIDE DEF n
  <2>. QED
    BY <2>1 DEF Sound, Segment
<1>4. SoundLog(m)
  <2>1. \A k \in 1 .. n - d : Sound(m.segments[k]) /\ m.segments[k].base \in DOMAIN m.files
    BY <1>1, <1>2, <1>3 DEF Leaves
  <2>. QED
    BY <1>1, <1>2, <2>1 DEF Leaves, SoundLog
<1> HIDE DEF n
<1>5. ASSUME NEW k \in 1 .. n, NEW off \in Nat, off > lowest, off < l.segments[k].next
      PROVE  k - d \in 1 .. n - d /\ d + (k - d) = k
  <2>1. ~(l.segments[k].next <= lowest + 1)
    BY <1>3, <1>5
  <2>2. ~(k <= d)
    BY <1>1, <2>1 DEF Leaves, n
  <2>. QED
    BY <1>2, <2>2
<1>6. ASSUME NEW off \in Nat, off > lowest, off \in Stored(l) PROVE off \in Stored(m)
  <2>1. PICK k \in 1 .. n : off \in Held(l.segments[k])
    BY <1>2, <1>6, InStored
  <2>2. off < l.segments[k].next
    BY <1>3, <2>1 DEF Held
  <2>3. k - d \in 1 .. n - d /\ d + (k - d) = k
    BY <1>5, <1>6, <2>2
  <2>4. m.segments[k - d] = l.segments[k]
    BY <1>2, <2>3
  <2>. QED
    BY <1>2, <2>1, <2>3, <2>4, InStored
<1>7. ASSUME NEW off \in Nat, off > lowest, Readable(l, off)
      PROVE  ReadLog(m, off) = ReadLog(l, off)
  <2>1. PICK k : k = FindSegment(l, off)
    OBVIOUS
  <2>2. PICK j : j = FindSegment(m, off)
    OBVIOUS
  <2>3. k # 0 /\ ~(l.segments[k].next <= off)
    BY <1>7, <2>1 DEF Readable, ReadLog, Failure
  <2>4. /\ k \in 1 .. n /\ l.segments[k].base <= off /\ off <= l.segments[k].next
        /\ \A i \in 1 .. n : l.segments[i].base <= off /\ off <= l.segments[i].next => k <= i
    BY <1>2, <2>1, <2>3, FoundIn
  <2>5. off < l.segments[k].next
    BY <1>3, <2>3, <2>4
  <2>6. k - d \in 1 .. n - d /\ d + (k - d) = k
    BY <1>5, <1>7, <2>4, <2>5
  <2>7. m.segments[k - d] = l.segments[k]
    BY <1>2, <2>6
  <2>8. /\ j # 0 /\ j <= k - d /\ j \in 1 .. n - d
        /\ m.segments[j].base <= off /\ off <= m.segments[j].next
    BY <1>2, <2>2, <2>4, <2>6, <2>7, FoundIn
  <2>9. k <= d + j
    BY <1>2, <2>4, <2>8
  <2>10. j = k - d
    BY <1>2, <2>4, <2>8, <2>9
  <2>11. PICK s : s = l.segments[k]
    OBVIOUS
  <2>12. m.segments[j] = s /\ m.files[s.base] = l.files[s.base]
    BY <1>1, <2>6, <2>7, <2>10, <2>11 DEF Leaves, n
  <2>13. ReadLog(l, off) = SegmentRead(l, s, off) /\ ReadLog(m, off) = SegmentRead(m, s, off)
    BY <2>1, <2>2, <2>3, <2>8, <2>11, <2>12 DEF ReadLog
  <2>14. SegmentRead(m, s, off) = SegmentRead(l, s, off)
    BY <2>12 DEF SegmentRead
  <2>. QED
    BY <2>13, <2>14
<1>. QED
  BY <1>4, <1>6, <1>7

-----------------------------------------------------------------------------
(* The steps of every life.                                                 *)

\* What Raft knows of a batch that it begins.
LEMMA NewBatchFits ==
    ASSUME NEW i \in Indices, NEW term \in 1 .. MaxTerm, NEW n \in 1 .. MaxBatch,
           i + n - 1 <= MaxIndex, NEW b, b = [index |-> i, term |-> term, left |-> n]
    PROVE  /\ b \in [index : Indices, term : 1 .. MaxTerm, left : 1 .. MaxBatch]
           /\ b.index + b.left - 1 <= MaxIndex
OBVIOUS

\* Raft hands a batch to StoreLogs.
LEMMA StoreTyped ==
    ASSUME Typed, NEW n \in 1 .. MaxBatch, NEW term \in 1 .. MaxTerm, Store(n, term)
    PROVE  Typed'
<1> USE Bounds
<1>1. /\ lastIndex + n <= MaxIndex
      /\ batch' = [index |-> lastIndex + 1, term |-> term, left |-> n]
      /\ UNCHANGED <<log, phase, lastIndex, lastTerm, snapIndex, latest, stored, cut,
                     restarts>>
  BY DEF Store
<1>2. lastIndex + 1 \in Indices /\ lastIndex + 1 + n - 1 <= MaxIndex
  BY <1>1 DEF Typed, Indices
<1>3. BatchFits'
  BY <1>1, <1>2, NewBatchFits DEF BatchFits, Indices
<1>. QED
  BY <1>1, <1>3 DEF Typed, SoundLog

\* What is left of a batch after one turn of the loop in StoreLogs.
LEMMA NextBatchFits ==
    ASSUME BatchFits, batch # NoBatch,
           \/ batch' = NoBatch
           \/ batch.left # 1 /\ batch' = [batch EXCEPT !.index = @ + 1, !.left = @ - 1]
    PROVE  BatchFits'
<1> USE Bounds
<1>1. /\ batch \in [index : Indices, term : 1 .. MaxTerm, left : 1 .. MaxBatch]
      /\ batch.index + batch.left - 1 <= MaxIndex
  BY DEF BatchFits
<1>2. CASE batch' = NoBatch
  BY <1>2 DEF BatchFits
<1>3. CASE batch.left # 1 /\ batch' = [batch EXCEPT !.index = @ + 1, !.left = @ - 1]
  <2>1. batch.index + 1 \in Indices /\ batch.left - 1 \in 1 .. MaxBatch
    BY <1>1, <1>3 DEF Indices
  <2>2. /\ batch' \in [index : Indices, term : 1 .. MaxTerm, left : 1 .. MaxBatch]
        /\ batch'.index = batch.index + 1 /\ batch'.left = batch.left - 1
    BY <1>1, <1>3, <2>1
  <2>3. batch'.index + batch'.left - 1 <= MaxIndex
    BY <1>1, <2>1, <2>2 DEF Indices
  <2>. QED
    BY <2>2, <2>3 DEF BatchFits, Indices
<1>. QED
  BY <1>2, <1>3

\* One turn of the loop in StoreLogs.
LEMMA StoreNextTyped ==
    ASSUME Typed, StoreNext
    PROVE  Typed'
<1> USE Bounds
<1>1. /\ batch # NoBatch /\ phase = "up" /\ UNCHANGED <<snapIndex, restarts>>
  BY DEF StoreNext
<1>2. /\ batch \in [index : Indices, term : 1 .. MaxTerm, left : 1 .. MaxBatch]
      /\ batch.index \in Indices /\ batch.term \in 1 .. MaxTerm
  BY <1>1 DEF Typed, BatchFits
<1>3. CASE log.segments = <<>>
  <2>1. phase' = "dead" /\ UNCHANGED <<log, lastIndex, lastTerm, batch, latest, stored, cut>>
    BY <1>3 DEF StoreNext
  <2>. QED
    BY <1>1, <2>1 DEF Typed, SoundLog, BatchFits
<1>4. CASE log.segments # <<>>
  <2>1. /\ phase' = phase
        /\ log' = AppendLocked(log, HighestOffset(log), batch.term, EntryLen)
    BY <1>4 DEF StoreNext
  <2>2. SoundLog(log')
    <3>1. SoundLog(AppendLocked(log, HighestOffset(log), batch.term, EntryLen))
      BY <1>2, <1>4, AppendLockedSound DEF Typed
    <3>. QED
      BY <2>1, <3>1
  <2>3. CASE IndexMaxed(AppendTarget(log, HighestOffset(log)))
    <3>1. batch' = NoBatch /\ cut' = TRUE /\ UNCHANGED <<lastIndex, lastTerm, latest, stored>>
      BY <1>4, <2>3 DEF StoreNext
    <3>2. BatchFits'
      BY <3>1 DEF BatchFits
    <3>. QED
      BY <1>1, <2>1, <2>2, <3>1, <3>2 DEF Typed, SoundLog
  <2>4. CASE ~IndexMaxed(AppendTarget(log, HighestOffset(log)))
    <3>1. /\ batch' = IF batch.left = 1 THEN NoBatch
                      ELSE [batch EXCEPT !.index = @ + 1, !.left = @ - 1]
          /\ lastIndex' = IF batch.left = 1 THEN batch.index ELSE lastIndex
          /\ lastTerm' = IF batch.left = 1 THEN batch.term ELSE lastTerm
          /\ latest' = [latest EXCEPT ![batch.index] = batch.term]
          /\ stored' = stored \cup {[index |-> batch.index, term |-> batch.term]}
          /\ cut' = cut
      BY <1>4, <2>4 DEF StoreNext
    <3>2. BatchFits'
      <4>1. \/ batch' = NoBatch
            \/ batch.left # 1 /\ batch' = [batch EXCEPT !.index = @ + 1, !.left = @ - 1]
        BY <3>1
      <4>. QED
        BY <1>1, <4>1, NextBatchFits DEF Typed
    <3>3. lastIndex' \in 0 .. MaxIndex /\ lastTerm' \in Nat
      BY <1>2, <3>1 DEF Typed, Indices
    <3>4. /\ latest' \in [Indices -> 0 .. MaxTerm]
          /\ stored' \subseteq [index : Indices, term : 1 .. MaxTerm]
      BY <1>2, <3>1 DEF Typed
    <3>. QED
      BY <1>1, <2>1, <2>2, <3>1, <3>2, <3>3, <3>4 DEF Typed, SoundLog
  <2>. QED
    BY <2>3, <2>4
<1>. QED
  BY <1>3, <1>4

\* The disk fails inside an append, which may leave new files.
LEMMA StoreFailsTyped ==
    ASSUME Typed, StoreFails
    PROVE  Typed'
<1>1. /\ log.segments # <<>> /\ batch' = NoBatch /\ cut' = TRUE
      /\ UNCHANGED <<phase, lastIndex, lastTerm, snapIndex, latest, stored, restarts>>
  BY DEF StoreFails
<1>2. PICK files \in {log.files} \cup CutAppends(log) :
         log' = [files |-> files, segments |-> log.segments]
  BY DEF StoreFails
<1>3. SoundLog(log)
  BY DEF Typed
<1>4. Directory(files) /\ DOMAIN log.files \subseteq DOMAIN files
  BY <1>1, <1>2, <1>3, CutDirectory DEF SoundLog
<1>5. SoundLog(log')
  <2>1. log'.files = files /\ log'.segments = log.segments
    BY <1>2
  <2>. QED
    BY <1>3, <1>4, <2>1 DEF SoundLog
<1>6. BatchFits'
  BY <1>1 DEF BatchFits
<1>. QED
  BY <1>1, <1>5, <1>6 DEF Typed

\* What DeleteRange leaves.
LEMMA DeleteRangeSound ==
    ASSUME SoundLog(log), NEW min, NEW max \in Nat, DeleteRange(min, max)
    PROVE  /\ SoundLog(log')
           /\ phase' \in {"up", "stuck"}
           /\ \A off \in Nat : off > max =>
                 /\ off \in Stored(log) => off \in Stored(log')
                 /\ Readable(log, off) => ReadLog(log', off) = ReadLog(log, off)
<1>1. CASE Spoils(log, max)
  <2>1. log' = log /\ phase' = "stuck"
    BY <1>1 DEF DeleteRange
  <2>. QED
    BY <2>1 DEF SoundLog
<1>2. CASE ~Spoils(log, max)
  <2>1. log' = TruncateLog(log, max) /\ phase' = "up"
    BY <1>2 DEF DeleteRange
  <2>. QED
    BY <1>2, <2>1, TruncateSound
<1>. QED
  BY <1>1, <1>2

\* A follower replaces a suffix.
LEMMA ReplaceSuffixTyped ==
    ASSUME Typed, NEW i \in Indices, NEW term \in 1 .. MaxTerm,
           NEW n \in 1 .. MaxBatch, ReplaceSuffix(i, term, n)
    PROVE  Typed'
<1> USE Bounds
<1>1. /\ i + n - 1 <= MaxIndex /\ DeleteRange(i, lastIndex)
      /\ batch' = IF phase' = "stuck" THEN NoBatch
                  ELSE [index |-> i, term |-> term, left |-> n]
      /\ UNCHANGED <<lastIndex, lastTerm, snapIndex, latest, stored, cut, restarts>>
  BY DEF ReplaceSuffix
<1>2. lastIndex \in Nat /\ SoundLog(log)
  BY DEF Typed
<1>3. SoundLog(log') /\ phase' \in {"up", "stuck"}
  BY <1>1, <1>2, DeleteRangeSound
<1>4. BatchFits'
  <2>1. \/ batch' = NoBatch
        \/ batch' = [index |-> i, term |-> term, left |-> n]
    BY <1>1
  <2>. QED
    BY <1>1, <2>1, NewBatchFits DEF BatchFits, Indices
<1>. QED
  BY <1>1, <1>3, <1>4 DEF Typed

\* GetLog flushes a store.
LEMMA GetLogTyped ==
    ASSUME Typed, NEW i \in Indices, GetLog(i)
    PROVE  Typed'
<1>1. PICK k : k = FindSegment(log, i)
  OBVIOUS
<1>2. /\ k # 0 /\ log' = FlushSegment(log, k)
      /\ UNCHANGED <<phase, lastIndex, lastTerm, batch, snapIndex, latest, stored, cut,
                     restarts>>
  BY <1>1 DEF GetLog
<1>3. SoundLog(log)
  BY DEF Typed
<1>4. k \in DOMAIN log.segments
  <2>1. log.segments \in Seq(Segment)
    BY <1>3 DEF SoundLog
  <2>. QED
    BY <1>1, <1>2, <2>1, FoundIn
<1>5. SoundLog(log')
  BY <1>2, <1>3, <1>4, FlushSegmentSound
<1>. QED
  BY <1>2, <1>5 DEF Typed, BatchFits

\* What a compaction up to index i leaves.
LEMMA CompactEffect ==
    ASSUME Typed, NEW i \in Indices, Compact(i)
    PROVE  /\ SoundLog(log')
           /\ phase' \in {"up", "stuck", "dead"}
           /\ snapIndex' = i
           /\ UNCHANGED <<lastIndex, lastTerm, batch, latest, stored, cut, restarts>>
           /\ \A j \in Indices :
                 j > i \/ j > lastIndex - TrailingLogs =>
                     /\ j \in Stored(log) => j \in Stored(log')
                     /\ Readable(log, j) => ReadLog(log', j) = ReadLog(log, j)
<1> USE Bounds
<1>1. PICK max : max = Min({i, lastIndex - TrailingLogs})
  OBVIOUS
<1>2. /\ phase = "up" /\ snapIndex' = i
      /\ UNCHANGED <<lastIndex, lastTerm, batch, latest, stored, cut, restarts>>
      /\ \/ UNCHANGED log /\ phase' \in {"dead", "up"}
         \/ /\ log.segments # <<>> /\ LowestOffset(log) <= max
            /\ DeleteRange(LowestOffset(log), max)
  BY <1>1 DEF Compact
<1>3. SoundLog(log) /\ lastIndex \in Nat /\ i \in Nat
  BY DEF Typed, Indices
<1>4. CASE UNCHANGED log /\ phase' \in {"dead", "up"}
  BY <1>2, <1>3, <1>4 DEF SoundLog
<1>5. CASE /\ log.segments # <<>> /\ LowestOffset(log) <= max
           /\ DeleteRange(LowestOffset(log), max)
  <2>1. max \in {i, lastIndex - TrailingLogs} /\ max <= i /\ max <= lastIndex - TrailingLogs
    <3>1. lastIndex - TrailingLogs \in Int /\ i \in Int
      BY <1>3
    <3>2. ASSUME NEW a \in Int, NEW b \in Int, max = Min({a, b})
          PROVE  max \in {a, b} /\ max <= a /\ max <= b
      BY <3>2, MinOfTwo
    <3>. QED
      BY <1>1, <3>1, <3>2
  <2>2. LowestOffset(log) \in Nat
    <3>1. log.segments \in Seq(Segment)
      BY <1>3 DEF SoundLog
    <3>2. log.segments[1] \in Segment
      BY <1>5, <3>1
    <3>. QED
      BY <3>2 DEF LowestOffset, Segment
  <2>3. max \in Nat
    BY <1>3, <1>5, <2>1, <2>2
  <2>4. /\ SoundLog(log')
        /\ phase' \in {"up", "stuck"}
        /\ \A off \in Nat : off > max =>
              /\ off \in Stored(log) => off \in Stored(log')
              /\ Readable(log, off) => ReadLog(log', off) = ReadLog(log, off)
    BY <1>3, <1>5, <2>3, DeleteRangeSound
  <2>5. \A j \in Indices : /\ j \in Nat
                           /\ j > i \/ j > lastIndex - TrailingLogs => j > max
    BY <1>3, <2>1, <2>3 DEF Indices
  <2>. QED
    BY <1>2, <2>4, <2>5
<1>. QED
  BY <1>2, <1>4, <1>5

\* So a compaction keeps the types.
LEMMA CompactTyped ==
    ASSUME Typed, NEW i \in Indices, Compact(i)
    PROVE  Typed'
<1>1. /\ SoundLog(log')
      /\ phase' \in {"up", "stuck", "dead"}
      /\ snapIndex' = i
      /\ UNCHANGED <<lastIndex, lastTerm, batch, latest, stored, cut, restarts>>
  BY CompactEffect
<1>2. snapIndex' \in 0 .. MaxIndex
  BY <1>1 DEF Indices
<1>. QED
  BY <1>1, <1>2 DEF Typed, BatchFits

\* setup makes a sound log of every directory that a close or a crash leaves.
LEMMA RestartTyped ==
    ASSUME Typed, NEW clean \in BOOLEAN, Restart(clean)
    PROVE  Typed'
<1> USE Bounds
<1>1. /\ restarts' = restarts + 1 /\ batch' = NoBatch /\ lastIndex' <= MaxIndex
      /\ UNCHANGED <<snapIndex, latest, stored>>
  BY DEF Restart
<1>2. PICK files \in Left(clean) :
         /\ Opened(files)
         /\ cut' = (cut \/ (/\ ~clean /\ files # log.files
                             /\ ~IsMaxed(Last(log.segments))))
  BY DEF Restart
<1>3. SoundLog(log)
  BY DEF Typed
<1>4. Directory(files)
  BY <1>2, <1>3, ClosedDirectory, CutDirectory DEF Left, SoundLog
<1>5. PICK l : l = Reopened(files)
  OBVIOUS
<1>6. SoundLog(l) /\ l.segments # <<>>
  BY <1>4, <1>5, ReopenedSound
<1>7. PICK last : last = HighestOffset(l)
  OBVIOUS
<1>8. last \in Nat
  <2>1. l.segments \in Seq(Segment)
    BY <1>6 DEF SoundLog
  <2>2. Last(l.segments) \in Segment
    BY <1>6, <2>1 DEF Last
  <2>3. Last(l.segments).next \in Nat
    BY <2>2 DEF Segment
  <2>. QED
    BY <1>7, <2>3 DEF HighestOffset
<1>9. ReadLog(l, last).rec \in Record
  BY <1>6, <1>8, ReadsRecords
<1>10. /\ log' = l
       /\ lastIndex' = IF last = 0 THEN 0 ELSE ReadLog(l, last).rec.offset
       /\ lastTerm' = IF last = 0 THEN 0 ELSE ReadLog(l, last).rec.id
       /\ phase' \in {"up", "dead"}
  BY <1>2, <1>5, <1>7 DEF Opened
<1>11. lastIndex' \in Nat /\ lastTerm' \in Nat
  BY <1>9, <1>10 DEF Record
<1>12. SoundLog(log')
  BY <1>6, <1>10
<1>13. cut' \in BOOLEAN /\ restarts' \in Nat
  BY <1>1, <1>2 DEF Typed
<1>14. BatchFits'
  BY <1>1 DEF BatchFits
<1>. QED
  BY <1>1, <1>10, <1>11, <1>12, <1>13, <1>14 DEF Typed

\* Every step keeps the types; a restart or an error ends the first life, and
\* every other step keeps it.
LEMMA StepInv ==
    ASSUME IInv, [Next]_vars
    PROVE  IInv'
<1>1. Typed
  BY DEF IInv
<1>2. ASSUME Typed', UNCHANGED restarts, cut' = cut, FirstLife => FirstLife' PROVE IInv'
  BY <1>2 DEF IInv, Undisturbed
<1>3. CASE \E clean \in BOOLEAN : Restart(clean)
  <2>1. restarts' = restarts + 1
    BY <1>3 DEF Restart
  <2>2. ~Undisturbed'
    BY <1>1, <2>1 DEF Typed, Undisturbed
  <2>. QED
    BY <1>1, <1>3, <2>2, RestartTyped DEF IInv
<1>4. CASE StoreFails
  <2>1. ~Undisturbed'
    BY <1>4 DEF StoreFails, Undisturbed
  <2>. QED
    BY <1>1, <1>4, <2>1, StoreFailsTyped DEF IInv
<1>5. CASE UNCHANGED vars
  <2>1. Typed'
    BY <1>1, <1>5 DEF vars, Typed, BatchFits
  <2>. QED
    BY <1>2, <1>5, <2>1
       DEF vars, FirstLife, RaftKnows, BatchFits, Current, EndAgrees, Needed
<1>6. CASE \E n \in 1 .. MaxBatch, term \in 1 .. MaxTerm : Store(n, term)
  BY <1>1, <1>2, <1>6, StoreInv, StoreTyped DEF Store
<1>7. CASE StoreNext
  <2>1. Typed' /\ UNCHANGED restarts
    BY <1>1, <1>7, StoreNextTyped DEF StoreNext
  <2>2. CASE ~FirstLife
    <3>1. ~Undisturbed
      BY <2>2 DEF IInv
    <3>2. cut => cut'
      BY <1>7 DEF StoreNext
    <3>. QED
      BY <2>1, <3>1, <3>2 DEF IInv, Undisturbed
  <2>3. CASE FirstLife
    <3>1. FirstLife'
      BY <1>7, <2>3, StoreNextInv
    <3>. QED
      BY <2>1, <3>1 DEF IInv
  <2>. QED
    BY <2>2, <2>3
<1>8. CASE \E i \in Indices, term \in 1 .. MaxTerm, n \in 1 .. MaxBatch :
               ReplaceSuffix(i, term, n)
  BY <1>1, <1>2, <1>8, ReplaceSuffixInv, ReplaceSuffixTyped DEF ReplaceSuffix
<1>9. CASE \E i \in Indices : GetLog(i)
  BY <1>1, <1>2, <1>9, GetLogInv, GetLogTyped DEF GetLog
<1>10. CASE \E i \in Indices : Compact(i)
  BY <1>1, <1>2, <1>10, CompactInv, CompactTyped DEF Compact
<1>. QED
  BY <1>3, <1>4, <1>5, <1>6, <1>7, <1>8, <1>9, <1>10 DEF Next

-----------------------------------------------------------------------------
(* Theorems.                                                                *)

\* The inductive invariant holds in every reachable state.
THEOREM Invariance == Spec => []IInv
<1>. QED
  BY InitInv, StepInv, PTL DEF Spec

\* In every life the log is well formed, whatever a crash or a failing disk left of
\* it, Raft's last index is within the bounds and a batch fits (distributed.go
\* logStore, log.go setup).
THEOREM TypeCorrect == Spec => []TypeOK
<1>1. IInv => TypeOK
  <2> SUFFICES ASSUME Typed PROVE TypeOK
    BY DEF IInv
  <2> USE Bounds
  <2>1. batch \in [index : 0 .. MaxIndex, term : 0 .. MaxTerm, left : 0 .. MaxBatch]
    <3>1. NoBatch \in [index : 0 .. MaxIndex, term : 0 .. MaxTerm, left : 0 .. MaxBatch]
      BY DEF NoBatch
    <3>2. ASSUME batch \in [index : Indices, term : 1 .. MaxTerm, left : 1 .. MaxBatch]
          PROVE  batch \in [index : 0 .. MaxIndex, term : 0 .. MaxTerm, left : 0 .. MaxBatch]
      BY <3>2 DEF Indices
    <3>3. \/ batch = NoBatch
          \/ batch \in [index : Indices, term : 1 .. MaxTerm, left : 1 .. MaxBatch]
      BY DEF Typed, BatchFits
    <3>. QED
      BY <3>1, <3>2, <3>3
  <2>2. /\ log.files \in [DOMAIN log.files -> File]
        /\ log.segments \in Seq(Segment)
        /\ \A s \in Range(log.segments) : s.base \in DOMAIN log.files
    BY DEF Typed, SoundLog, Directory, Range
  <2>. QED
    BY <2>1, <2>2 DEF Typed, TypeOK
<1>. QED
  BY <1>1, Invariance, PTL

\* Until the first restart the offset Append is about to give an entry is the
\* index Raft means for it, which StoreLogs does not look at: through rollovers,
\* compactions and reads, as long as no call of StoreLogs fails half-way
\* (distributed.go StoreLogs).
THEOREM IndexIsKept == Spec => [](restarts = 0 => OffsetIsIndex)
<1>1. IInv => (restarts = 0 => OffsetIsIndex)
  <2> SUFFICES ASSUME FirstLife, batch # NoBatch, log.segments # <<>>
               PROVE  AppendTarget(log, HighestOffset(log)).next = batch.index
    BY DEF IInv, Undisturbed, OffsetIsIndex
  <2> DEFINE h == HighestOffset(log)
  <2>1. ASSUME NEW id \in Nat, NEW len \in Nat
        PROVE  LET m == AppendLocked(log, h, id, len)
                   t == AppendTarget(log, h)
                   next == Last(log.segments).next
               IN  /\ next \in Nat
                   /\ t.next = next /\ ~IndexMaxed(t)
                   /\ GoodLog(m, Current \cup {[offset |-> next, id |-> id, len |-> len]})
                   /\ m.segments # <<>>
                   /\ Last(m.segments).next = next + 1
                   /\ Stored(m) = Stored(log) \cup {next}
                   /\ Ends(m) \subseteq Ends(log) \cup {next + 1}
    <3>1. GoodLog(log, Current)
      BY DEF FirstLife
    <3>. QED
      BY <3>1, GoodAppendLocked
  <2>2. 0 \in Nat
    OBVIOUS
  <2>3. AppendTarget(log, h).next = Last(log.segments).next
    BY <2>1, <2>2
  <2>. QED
    BY <2>3 DEF FirstLife, EndAgrees
<1>. QED
  BY <1>1, Invariance, PTL

\* Until the first restart GetLog returns the entry that Raft stored last at the
\* index, for every entry in the log that does not begin a later segment, as long as
\* no call of StoreLogs fails half-way (distributed.go GetLog).
THEOREM EntriesAreRight == Spec => [](restarts = 0 => GetLogStored)
<1>1. IInv => (restarts = 0 => GetLogStored)
  <2> SUFFICES ASSUME FirstLife, ~cut PROVE GetLogStored
    BY DEF IInv, Undisturbed, GetLogStored
  <2> USE Bounds
  <2>1. GoodLog(log, Current)
    BY DEF FirstLife
  <2>2. ASSUME NEW r \in Current
        PROVE  /\ r.offset \in Indices
               /\ r = [offset |-> r.offset, id |-> latest[r.offset], len |-> EntryLen]
               /\ [index |-> r.offset, term |-> r.id] \in stored
               /\ MarshalLen(r) # 0
    <3>1. PICK j \in Indices :
              /\ latest[j] > 0
              /\ r = [offset |-> j, id |-> latest[j], len |-> EntryLen]
      BY DEF Current
    <3>2. r.offset = j /\ r.id = latest[j] /\ r.len = EntryLen
      BY <3>1
    <3>3. [index |-> j, term |-> latest[j]] \in stored
      BY <3>1 DEF FirstLife, RaftKnows
    <3>4. MarshalLen(r) # 0
      BY <3>2 DEF MarshalLen, Indices
    <3>. QED
      BY <3>1, <3>2, <3>3, <3>4
  <2>3. ASSUME NEW i \in Indices, Readable(log, i)
        PROVE  LET r == ReadLog(log, i).rec
               IN  r.offset = i /\ [index |-> i, term |-> r.id] \in stored
    <3>1. i \in Nat
      BY DEF Indices
    <3>2. PICK r \in Current : ReadsRecord(log, i, r)
      BY <2>1, <2>3, <3>1, ReadGood
    <3>3. ReadLog(log, i).rec = r /\ r.offset = i
      BY <3>2, RecordOfResult DEF ReadsRecord
    <3>. QED
      BY <2>2, <3>3
  <2>4. ASSUME NEW i \in Stored(log), ~\E s \in Range(log.segments) : s.next = i
        PROVE  ReadLog(log, i) = [err |-> "", rec |-> [offset |-> i, id |-> latest[i],
                                                       len |-> EntryLen]]
    <3>1. i \notin Ends(log)
      BY <2>4 DEF Ends, Range
    <3>2. PICK r \in Current : r.offset = i /\ ReadLog(log, i) = ResultOf(r)
      BY <2>1, <3>1, ReadStored DEF Finds
    <3>3. r = [offset |-> i, id |-> latest[i], len |-> EntryLen] /\ MarshalLen(r) # 0
      BY <2>2, <3>2
    <3>4. ResultOf(r) = [err |-> "", rec |-> r]
      BY <3>3 DEF ResultOf
    <3>. QED
      BY <3>2, <3>3, <3>4
  <2>. QED
    BY <2>3, <2>4 DEF GetLogStored
<1>. QED
  BY <1>1, Invariance, PTL

\* In every life, and whatever went wrong before, a compaction takes nothing away
\* that is behind the snapshot or among the trailing entries that slow followers are
\* sent, and changes no result of GetLog for those (distributed.go FirstIndex and
\* DeleteRange, log.go Truncate).
THEOREM CompactionIsSafe == Spec => CompactionKeepsNeeded
<1> DEFINE Keeps ==
        snapIndex' # snapIndex =>
            \A i \in Indices :
                i > snapIndex' \/ i > lastIndex - TrailingLogs =>
                    /\ i \in Stored(log) => i \in Stored(log')
                    /\ Readable(log, i) => ReadLog(log', i) = ReadLog(log, i)
<1>1. IInv /\ [Next]_vars => [Keeps]_vars
  <2> SUFFICES ASSUME Typed, Next, snapIndex' # snapIndex PROVE Keeps
    BY DEF IInv, vars
  <2>1. PICK k \in Indices : Compact(k)
    BY DEF Next, Store, StoreNext, StoreFails, ReplaceSuffix, GetLog, Restart
  <2>. QED
    BY <2>1, CompactEffect
<1>. QED
  BY <1>1, Invariance, PTL DEF Spec, CompactionKeepsNeeded
=============================================================================
