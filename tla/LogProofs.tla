----------------------------- MODULE LogProofs -----------------------------
(***************************************************************************)
(* Theorems about Log, for every set of constants with one appender: its   *)
(* invariants, and what it keeps, lets read and promises its callers.      *)
(***************************************************************************)
EXTENDS Log, SegmentedLogProofs

-----------------------------------------------------------------------------
(* The inductive invariant.  ReadYieldsAcked says nothing of the bytes, and *)
(* OffsetsUnique nothing of the offset that comes next: the proof needs the *)
(* segments consistent (GoodLog), the offset remembered between the two     *)
(* locks still the highest, and every acknowledged offset below the end.    *)

CallersOK ==
    /\ pc \in [Appenders -> {"idle", "locking"}]
    /\ call \in [Appenders -> [id : Nat, len : Nat]]
    /\ high \in [Appenders -> Nat]
    /\ calls \in 0 .. MaxCalls
    /\ acked \subseteq Record
    /\ floor \in Nat
    /\ dead \in BOOLEAN

HighIsFresh ==
    \A a \in Appenders :
        pc[a] = "locking" => /\ log.segments # <<>>
                             /\ high[a] = HighestOffset(log)

AckedBelowEnd ==
    log.segments # <<>> =>
        \A r \in acked : r.offset < Last(log.segments).next

IInv ==
    /\ CallersOK
    /\ GoodLog(log, acked)
    /\ HighIsFresh
    /\ AckedBelowEnd
    /\ OffsetsUnique

\* An empty log satisfies the invariant.
LEMMA InitInv == Init => IInv
<1> SUFFICES ASSUME Init PROVE IInv
  OBVIOUS
<1>1. CallersOK
  <2>1. /\ pc \in [Appenders -> {"idle", "locking"}]
        /\ high \in [Appenders -> Nat]
        /\ acked \subseteq Record /\ dead \in BOOLEAN
    BY DEF Init
  <2>2. call \in [Appenders -> [id : Nat, len : Nat]]
    BY DEF Init
  <2>3. calls \in 0 .. MaxCalls /\ floor \in Nat
    BY ConfigAssumption, CallerAssumption
       DEF Init, ConfigAssumption, CallerAssumption
  <2>. QED
    BY <2>1, <2>2, <2>3 DEF CallersOK
<1>2. GoodLog(log, acked)
  BY GoodEmpty DEF Init
<1>3. HighIsFresh /\ AckedBelowEnd /\ OffsetsUnique
  BY DEF Init, HighIsFresh, AckedBelowEnd, OffsetsUnique
<1>. QED
  BY <1>1, <1>2, <1>3 DEF IInv

\* The first lock section of Append.
LEMMA AppendStartInv ==
    ASSUME IInv, NEW a \in Appenders, NEW len \in PayloadLens, AppendStart(a, len)
    PROVE  IInv'
<1>1. UNCHANGED <<log, acked, floor>> /\ calls' = calls + 1 /\ calls < MaxCalls
  BY DEF AppendStart
<1>2. len \in Nat /\ calls \in Nat /\ MaxCalls \in Nat
  BY CallerAssumption DEF CallerAssumption, IInv, CallersOK
<1>3. CASE log.segments = <<>>
  <2>1. dead' = TRUE /\ UNCHANGED <<pc, call, high>>
    BY <1>3 DEF AppendStart
  <2>. QED
    BY <1>1, <1>2, <2>1
       DEF IInv, CallersOK, HighIsFresh, AckedBelowEnd, OffsetsUnique
<1>4. CASE log.segments # <<>>
  <2>1. /\ pc' = [pc EXCEPT ![a] = "locking"]
        /\ call' = [call EXCEPT ![a] = [id |-> calls + 1, len |-> len]]
        /\ high' = [high EXCEPT ![a] = HighestOffset(log)]
        /\ dead' = dead
    BY <1>4 DEF AppendStart
  <2>2. HighestOffset(log) \in Nat
    <3>1. GoodLog(log, acked)
      BY DEF IInv
    <3>2. Last(log.segments).next \in Nat
      BY <1>4, <3>1, GoodShape DEF Last
    <3>. QED
      BY <3>2 DEF HighestOffset
  <2>3. CallersOK'
    BY <1>1, <1>2, <2>1, <2>2 DEF IInv, CallersOK
  <2>4. HighIsFresh'
    BY <1>1, <1>4, <2>1 DEF IInv, CallersOK, HighIsFresh
  <2>. QED
    BY <1>1, <2>3, <2>4 DEF IInv, AckedBelowEnd, OffsetsUnique
<1>. QED
  BY <1>3, <1>4

\* What the second half of Append does: the record r goes to the end of the log.
AppendsAtEnd(a, end, r) ==
    /\ log.segments # <<>>
    /\ r = [offset |-> end, id |-> call[a].id, len |-> call[a].len]
    /\ acked' = acked \cup {r}
    /\ pc' = [pc EXCEPT ![a] = "idle"]
    /\ UNCHANGED <<call, high, calls, floor, dead>>
    /\ GoodLog(log', acked')
    /\ log'.segments # <<>>
    /\ Last(log'.segments).next = end + 1
    /\ Stored(log') = Stored(log) \cup {end}
    /\ Ends(log') \subseteq Ends(log) \cup {end + 1}

\* The only step with a hazard: a rollover at high + 1 is one at the end of the
\* log because no other goroutine appended between the two locks.
LEMMA AppendFinishEffect ==
    ASSUME IInv, NEW a \in Appenders, AppendFinish(a),
           NEW end, end = Last(log.segments).next
    PROVE  end \in Nat /\ \E r \in Record : AppendsAtEnd(a, end, r)
<1> DEFINE s   == AppendTarget(log, high[a])
           id  == call[a].id
           len == call[a].len
           r   == [offset |-> end, id |-> id, len |-> len]
<1>1. /\ GoodLog(log, acked) /\ CallersOK
      /\ pc[a] = "locking" /\ log.segments # <<>>
      /\ high[a] = HighestOffset(log)
  BY DEF IInv, AppendFinish, HighIsFresh
<1>2. id \in Nat /\ len \in Nat
  BY <1>1 DEF CallersOK
<1>3. log' = AppendLocked(log, high[a], id, len)
  BY DEF AppendFinish
<1> HIDE DEF s, id, len
<1>4. /\ end \in Nat
      /\ s.next = end /\ ~IndexMaxed(s)
      /\ GoodLog(log', acked \cup {r}) /\ log'.segments # <<>>
      /\ Last(log'.segments).next = end + 1
      /\ Stored(log') = Stored(log) \cup {end}
      /\ Ends(log') \subseteq Ends(log) \cup {end + 1}
  <2>1. LET m == AppendLocked(log, high[a], id, len)
            t == AppendTarget(log, high[a])
            next == Last(log.segments).next
        IN  /\ next \in Nat
            /\ t.next = next /\ ~IndexMaxed(t)
            /\ GoodLog(m, acked \cup {[offset |-> next, id |-> id, len |-> len]})
            /\ m.segments # <<>>
            /\ Last(m.segments).next = next + 1
            /\ Stored(m) = Stored(log) \cup {next}
            /\ Ends(m) \subseteq Ends(log) \cup {next + 1}
    BY <1>1, <1>2, GoodAppendLocked
  <2>. QED
    BY <1>3, <2>1 DEF s
<1>5. acked' = acked \cup {r} /\ UNCHANGED <<call, high, calls, floor, dead>>
      /\ pc' = [pc EXCEPT ![a] = "idle"]
  BY <1>4 DEF AppendFinish, s, id, len
<1>6. r \in Record
  BY <1>2, <1>4 DEF Record
<1>7. AppendsAtEnd(a, end, r)
  BY <1>1, <1>4, <1>5 DEF AppendsAtEnd, id, len
<1>. QED
  BY <1>4, <1>6, <1>7

\* The second lock section of Append, which rolls over and stores the record.
LEMMA AppendFinishInv ==
    ASSUME SingleAppender, IInv, NEW a \in Appenders, AppendFinish(a)
    PROVE  IInv'
<1> DEFINE end == Last(log.segments).next
<1>1. end \in Nat /\ \E r \in Record : AppendsAtEnd(a, end, r)
  BY AppendFinishEffect
<1> HIDE DEF end
<1>2. PICK r \in Record : AppendsAtEnd(a, end, r)
  BY <1>1
<1>3. /\ acked' = acked \cup {r} /\ UNCHANGED <<call, high, calls, floor, dead>>
      /\ pc' = [pc EXCEPT ![a] = "idle"]
      /\ GoodLog(log', acked')
      /\ r.offset = end /\ Last(log'.segments).next = end + 1
  BY <1>2 DEF AppendsAtEnd
<1>4. \A q \in acked : q.offset \in Nat /\ q.offset < end
  BY <1>2 DEF AppendsAtEnd, IInv, AckedBelowEnd, CallersOK, Record, end
<1>5. CallersOK'
  BY <1>3 DEF IInv, CallersOK
<1>6. HighIsFresh'
  <2>1. \A b \in Appenders : b = a
    BY DEF SingleAppender
  <2>2. pc'[a] = "idle"
    BY <1>3 DEF IInv, CallersOK
  <2>. QED
    BY <2>1, <2>2 DEF HighIsFresh
<1>7. AckedBelowEnd'
  <2>1. \A q \in acked' : q.offset < end + 1
    BY <1>1, <1>3, <1>4
  <2>. QED
    BY <1>3, <2>1 DEF AckedBelowEnd
<1>8. OffsetsUnique'
  <2>1. \A q \in acked : q.offset # r.offset
    BY <1>1, <1>3, <1>4
  <2>. QED
    BY <1>3, <2>1 DEF IInv, OffsetsUnique
<1>. QED
  BY <1>3, <1>5, <1>6, <1>7, <1>8 DEF IInv

\* A read flushes one store and changes no record.
LEMMA ReadInv ==
    ASSUME IInv, NEW off \in Offsets, Read(off)
    PROVE  IInv'
<1> DEFINE i == FindSegment(log, off)
           n == Len(log.segments)
<1>1. /\ i # 0 /\ log' = FlushSegment(log, i)
      /\ UNCHANGED <<pc, call, high, calls, acked, floor, dead>>
  BY DEF Read
<1>2. GoodLog(log, acked)
  BY DEF IInv
<1>3. /\ DOMAIN log.segments = 1 .. n /\ n \in Nat
      /\ log.segments # <<>> => n \in DOMAIN log.segments
  BY <1>2, GoodShape
<1>4. i \in DOMAIN log.segments
  BY <1>1, <1>2, FoundFirst
<1> HIDE DEF i, n
<1>5. LET m == FlushSegment(log, i)
      IN  /\ GoodLog(m, acked)
          /\ Len(m.segments) = Len(log.segments)
          /\ DOMAIN m.segments = DOMAIN log.segments
          /\ \A j \in DOMAIN log.segments :
                /\ m.segments[j].base = log.segments[j].base
                /\ m.segments[j].next = log.segments[j].next
  BY <1>2, <1>4, GoodFlush
<1>6. /\ GoodLog(log', acked')
      /\ Len(log'.segments) = Len(log.segments)
      /\ DOMAIN log'.segments = DOMAIN log.segments
      /\ \A j \in DOMAIN log.segments : log'.segments[j].next = log.segments[j].next
  BY <1>1, <1>5
<1>7. /\ log.segments # <<>> /\ log'.segments # <<>>
      /\ Last(log'.segments).next = Last(log.segments).next
  <2>1. log.segments # <<>> /\ log'.segments # <<>>
    BY <1>4, <1>6
  <2>. QED
    BY <1>3, <1>6, <2>1 DEF Last, n
<1>8. CallersOK'
  BY <1>1 DEF IInv, CallersOK
<1>9. HighIsFresh'
  BY <1>1, <1>7 DEF IInv, HighIsFresh, HighestOffset
<1>10. AckedBelowEnd' /\ OffsetsUnique'
  BY <1>1, <1>7 DEF IInv, AckedBelowEnd, OffsetsUnique
<1>. QED
  BY <1>6, <1>8, <1>9, <1>10 DEF IInv

\* Truncate between any two lock sections.
LEMMA TruncateInv ==
    ASSUME SingleAppender, IInv, NEW lowest \in Offsets, Truncate(lowest)
    PROVE  IInv'
<1> DEFINE end == Last(log.segments).next
<1>1. /\ lowest \in Stored(log)
      /\ lowest = HighestOffset(log) => \A a \in Appenders : pc[a] = "idle"
      /\ log' = TruncateLog(log, lowest)
      /\ floor' = IF floor < lowest + 1 THEN lowest + 1 ELSE floor
      /\ UNCHANGED <<pc, call, high, calls, acked, dead>>
  BY DEF Truncate
<1>2. lowest \in Nat
  BY ConfigAssumption, CallerAssumption
     DEF Offsets, ConfigAssumption, CallerAssumption
<1>3. GoodLog(log, acked)
  BY DEF IInv
<1>4. /\ GoodLog(log', acked)
      /\ log.segments # <<>> /\ lowest + 1 < Last(log.segments).next
             => log'.segments # <<>>
      /\ log'.segments # <<>> => Last(log'.segments) = Last(log.segments)
  <2>1. LET m == TruncateLog(log, lowest)
        IN  /\ GoodLog(m, acked)
            /\ log.segments # <<>> /\ lowest + 1 < Last(log.segments).next
                   => m.segments # <<>>
            /\ m.segments # <<>> => Last(m.segments) = Last(log.segments)
    BY <1>2, <1>3, GoodTruncate
  <2>. QED
    BY <1>1, <2>1
<1>5. CallersOK'
  BY <1>1, <1>2 DEF IInv, CallersOK
<1>6. log.segments # <<>> /\ end \in Nat /\ lowest < end
  BY <1>1, <1>3, StoredBelowEnd
<1>7. HighIsFresh'
  <2>1. ASSUME NEW a \in Appenders, pc[a] = "locking"
        PROVE  log'.segments # <<>> /\ high[a] = HighestOffset(log')
    <3>1. lowest # HighestOffset(log) /\ high[a] = HighestOffset(log)
      BY <1>1, <2>1 DEF IInv, HighIsFresh
    <3>2. lowest + 1 < end
      BY <1>2, <1>6, <3>1 DEF HighestOffset
    <3>3. log'.segments # <<>> /\ Last(log'.segments) = Last(log.segments)
      BY <1>4, <1>6, <3>2
    <3>. QED
      BY <3>1, <3>3 DEF HighestOffset
  <2>. QED
    BY <1>1, <2>1 DEF HighIsFresh
<1>8. AckedBelowEnd' /\ OffsetsUnique'
  BY <1>1, <1>4, <1>6 DEF IInv, AckedBelowEnd, OffsetsUnique
<1>. QED
  BY <1>1, <1>4, <1>5, <1>7, <1>8 DEF IInv

\* Every step keeps the invariant.
LEMMA StepInv ==
    ASSUME SingleAppender, IInv, [Next]_vars
    PROVE  IInv'
<1>1. CASE \E a \in Appenders, len \in PayloadLens : AppendStart(a, len)
  BY <1>1, AppendStartInv
<1>2. CASE \E a \in Appenders : AppendFinish(a)
  BY <1>2, AppendFinishInv
<1>3. CASE \E off \in Offsets : Read(off)
  BY <1>3, ReadInv
<1>4. CASE \E lowest \in Offsets : Truncate(lowest)
  BY <1>4, TruncateInv
<1>5. CASE UNCHANGED vars
  BY <1>5 DEF vars, IInv, CallersOK, HighIsFresh, AckedBelowEnd, OffsetsUnique
<1>. QED
  BY <1>1, <1>2, <1>3, <1>4, <1>5 DEF Next

-----------------------------------------------------------------------------
(* Theorems.  They assume one appending goroutine: that is how Raft uses    *)
(* its log.                                                                 *)

\* The inductive invariant holds in every reachable state.
THEOREM Invariance == ASSUME SingleAppender PROVE Spec => []IInv
<1>1. Init => IInv
  BY InitInv
<1>2. IInv /\ [Next]_vars => IInv'
  BY StepInv
<1>. QED
  BY <1>1, <1>2, PTL DEF Spec

\* Every log, with its files, its segments and the callers between their two
\* locks, is well formed, whatever the sizes configured (log.go).
THEOREM TypeCorrect == ASSUME SingleAppender PROVE Spec => []TypeOK
<1>1. IInv => TypeOK
  <2> SUFFICES ASSUME IInv PROVE TypeOK
    OBVIOUS
  <2>1. GoodLog(log, acked)
    BY DEF IInv
  <2>2. \A i \in DOMAIN log.segments :
            log.segments[i].base \in Nat /\ log.segments[i].base \in DOMAIN log.files
    BY <2>1, GoodShape
  <2>3. DOMAIN log.files \subseteq Nat
    BY <2>1, <2>2 DEF GoodLog
  <2>4. \A s \in Range(log.segments) : s.base \in DOMAIN log.files
    BY <2>2 DEF Range
  <2>. QED
    BY <2>1, <2>3, <2>4 DEF IInv, CallersOK, TypeOK, GoodLog
<1>. QED
  BY <1>1, Invariance, PTL

\* The index and the store of every segment agree, record for record and byte
\* for byte, with what the buffer still holds back (segment.go, store.go,
\* index.go).
THEOREM IndexAgrees == ASSUME SingleAppender PROVE Spec => []IndexMatchesStore
<1>1. IInv => IndexMatchesStore
  BY DEF IInv, GoodLog, IndexMatchesStore, Range
<1>. QED
  BY <1>1, Invariance, PTL

\* The segments never overlap, and the highest offset an Append read before it
\* had the lock is still the highest when it gets it (log.go Append).
THEOREM SegmentsOrdered == ASSUME SingleAppender PROVE Spec => []SegmentsInOrder
<1>1. IInv => SegmentsInOrder
  <2> SUFFICES ASSUME IInv PROVE SegmentsInOrder
    OBVIOUS
  <2>1. DOMAIN log.files = {s.base : s \in Range(log.segments)}
    BY DEF IInv, GoodLog, Range
  <2>. QED
    BY <2>1 DEF IInv, GoodLog, HighIsFresh, SegmentsInOrder
<1>. QED
  BY <1>1, Invariance, PTL

\* What Log.Read returns for an offset was acknowledged under that offset: the
\* search over segments, the index and the store never lead to another record.
THEOREM ReadsAreAcked == ASSUME SingleAppender PROVE Spec => []ReadYieldsAcked
<1>1. IInv => ReadYieldsAcked
  <2> SUFFICES ASSUME IInv, NEW off \in Offsets, Readable(log, off)
               PROVE  /\ ReadLog(log, off).rec \in acked
                      /\ ReadLog(log, off).rec.offset = off
    BY DEF ReadYieldsAcked
  <2>1. GoodLog(log, acked)
    BY DEF IInv
  <2>2. off \in Nat
    BY ConfigAssumption, CallerAssumption
       DEF Offsets, ConfigAssumption, CallerAssumption
  <2>3. PICK r \in acked : ReadsRecord(log, off, r)
    BY <2>1, <2>2, ReadGood
  <2>4. ReadLog(log, off).rec = r
    BY <2>3, RecordOfResult, Zenon DEF ReadsRecord
  <2>. QED
    BY <2>3, <2>4 DEF ReadsRecord
<1>. QED
  BY <1>1, Invariance, PTL

\* No offset is handed out twice (log.go Append).
THEOREM UniqueOffsets == ASSUME SingleAppender PROVE Spec => []OffsetsUnique
<1>1. IInv => OffsetsUnique
  BY DEF IInv
<1>. QED
  BY <1>1, Invariance, PTL

-----------------------------------------------------------------------------
(* Truncation.                                                              *)

\* What is left is everything above some offset that was there, or everything,
\* and an empty list only where lowest was the last offset of all.
LEMMA TruncateHolds ==
    ASSUME NEW recs, NEW l, GoodLog(l, recs), NEW lowest \in Stored(l),
           NEW m, m = TruncateLog(l, lowest)
    PROVE  /\ Ends(m) \subseteq Ends(l)
           /\ \A q \in Stored(l) : q > lowest => q \in Stored(m)
           /\ m.segments = <<>> => Last(l.segments).next = lowest + 1
           /\ \/ Stored(m) = Stored(l)
              \/ \E lo \in Stored(l) : Stored(m) = {q \in Stored(l) : q > lo}
<1> DEFINE n == Len(l.segments)
<1>1. /\ lowest \in Nat /\ l.segments # <<>>
      /\ Last(l.segments).next \in Nat /\ lowest < Last(l.segments).next
  BY StoredBelowEnd
<1>2. /\ n \in Nat /\ n \in 1 .. n /\ DOMAIN l.segments = 1 .. n
      /\ Last(l.segments) = l.segments[n]
      /\ \A i \in 1 .. n : /\ l.segments[i].base \in Nat
                           /\ l.segments[i].next \in Nat
                           /\ l.segments[i].base <= l.segments[i].next
  BY <1>1, GoodShape DEF Last
<1>3. \A i, j \in 1 .. n : i < j => /\ l.segments[i].base < l.segments[i].next
                                    /\ l.segments[i].next <= l.segments[j].base
  BY <1>2 DEF GoodLog
<1>4. PICK d \in 0 .. n : Drops(m, l, lowest, d)
  BY <1>1, TruncateDrops
<1>5. /\ Len(m.segments) = n - d
      /\ DOMAIN m.segments = 1 .. n - d
      /\ \A i \in 1 .. n - d : m.segments[i] = l.segments[d + i]
      /\ \A i \in 1 .. n : i <= d <=> l.segments[i].next <= lowest + 1
  BY <1>4 DEF Drops
<1> HIDE DEF n
<1>6. \A i \in 1 .. n - d : d + i \in 1 .. n /\ d + i > d
  BY <1>2, <1>4
<1>7. \A i \in 1 .. n : i > d => i - d \in 1 .. n - d /\ d + (i - d) = i
  BY <1>2, <1>4
<1>8. \A q : q \in Stored(m) <=> \E i \in 1 .. n : i > d /\ q \in Held(l.segments[i])
  <2>1. ASSUME NEW q, q \in Stored(m)
        PROVE  \E i \in 1 .. n : i > d /\ q \in Held(l.segments[i])
    <3>1. PICK i \in 1 .. n - d : q \in Held(m.segments[i])
      BY <1>5, <2>1, InStored
    <3>. QED
      BY <1>5, <1>6, <3>1
  <2>2. ASSUME NEW q, NEW i \in 1 .. n, i > d, q \in Held(l.segments[i])
        PROVE  q \in Stored(m)
    <3>1. i - d \in 1 .. n - d /\ m.segments[i - d] = l.segments[i]
      BY <1>5, <1>7, <2>2
    <3>. QED
      BY <1>5, <2>2, <3>1, InStored
  <2>. QED
    BY <2>1, <2>2
<1>9. \A q : q \in Stored(l) <=> \E i \in 1 .. n : q \in Held(l.segments[i])
  BY <1>2, InStored
<1>10. \A q \in Stored(m) : q \in Stored(l)
  BY <1>8, <1>9
<1>11. Ends(m) \subseteq Ends(l)
  <2>1. \A i \in 1 .. n - d : \E j \in 1 .. n : m.segments[i].next = l.segments[j].next
    BY <1>5, <1>6
  <2>2. ASSUME NEW e \in Ends(m) PROVE e \in Ends(l)
    <3>1. PICK i \in DOMAIN m.segments : e = m.segments[i].next
      BY <2>2 DEF Ends
    <3>2. PICK j \in DOMAIN l.segments : m.segments[i].next = l.segments[j].next
      BY <1>2, <1>5, <2>1, <3>1
    <3>. QED
      BY <3>1, <3>2 DEF Ends
  <2>. QED
    BY <2>2
<1>12. ASSUME NEW q \in Stored(l), q > lowest PROVE q \in Stored(m)
  <2>1. PICK i \in 1 .. n : q \in Held(l.segments[i])
    BY <1>9
  <2>2. ~(l.segments[i].next <= lowest + 1)
    BY <1>1, <1>2, <1>12, <2>1 DEF Held
  <2>3. i > d
    BY <1>2, <1>4, <1>5, <2>2
  <2>. QED
    BY <1>8, <2>1, <2>3
<1>13. d = n => Last(l.segments).next = lowest + 1
  BY <1>1, <1>2, <1>5
<1>14. m.segments = <<>> => d = n
  BY <1>2, <1>4, <1>5
<1>15. CASE d = 0
  <2>1. \A q \in Stored(l) : q \in Stored(m)
    BY <1>2, <1>8, <1>9, <1>15
  <2>2. Stored(m) = Stored(l)
    BY <1>10, <2>1
  <2>. QED
    BY <1>11, <1>12, <1>13, <1>14, <2>2
<1>16. CASE d # 0
  <2> DEFINE lo == l.segments[d].next - 1
  <2>1. d \in 1 .. n
    BY <1>4, <1>16
  <2>2. lo \in Stored(l)
    <3>1. CASE d = n
      <4>1. lo = lowest
        BY <1>1, <1>2, <1>13, <3>1
      <4>. QED
        BY <4>1
    <3>2. CASE d < n
      <4>1. l.segments[d].base < l.segments[d].next
        BY <1>2, <1>3, <2>1, <3>2
      <4>2. lo \in Held(l.segments[d])
        BY <1>2, <2>1, <4>1 DEF Held
      <4>. QED
        BY <1>9, <2>1, <4>2
    <3>. QED
      BY <1>2, <2>1, <3>1, <3>2
  <2>3. ASSUME NEW q \in Stored(m) PROVE q > lo
    <3>1. PICK i \in 1 .. n : i > d /\ q \in Held(l.segments[i])
      BY <1>8
    <3>2. l.segments[d].next <= l.segments[i].base
      BY <1>3, <2>1, <3>1
    <3>. QED
      BY <1>2, <2>1, <3>1, <3>2 DEF Held
  <2>4. ASSUME NEW q \in Stored(l), q > lo PROVE q \in Stored(m)
    <3>1. PICK i \in 1 .. n : q \in Held(l.segments[i])
      BY <1>9
    <3>2. i < d => l.segments[i].next <= l.segments[d].base
      BY <1>3, <2>1, <3>1
    <3>3. i > d
      BY <1>2, <2>1, <2>4, <3>1, <3>2 DEF Held
    <3>. QED
      BY <1>8, <3>1, <3>3
  <2>5. Stored(m) = {q \in Stored(l) : q > lo}
    BY <1>10, <2>3, <2>4
  <2>. QED
    BY <1>11, <1>12, <1>13, <1>14, <2>2, <2>5
<1>. QED
  BY <1>15, <1>16

-----------------------------------------------------------------------------
(* Records.                                                                 *)

UniqueIn(recs) == \A r, q \in recs : r.offset = q.offset => r = q

\* The record in the place of an offset is the one of recs with that offset.
LEMMA RecordAt ==
    ASSUME NEW recs, UniqueIn(recs), NEW l, GoodLog(l, recs),
           NEW i \in DOMAIN l.segments,
           NEW r \in recs, r.offset \in Held(l.segments[i])
    PROVE  RecordIn(l, i, r.offset) = r
<1> DEFINE s == l.segments[i]
           f == l.files[s.base]
           frames == Flushed(f, s.buf).store
           pos == f.slots[r.offset - s.base].pos
           at == {j \in DOMAIN frames : frames[j].pos = pos}
<1>1. s \in Segment /\ f \in File /\ Consistent(s, f, recs)
  BY GoodShape DEF GoodLog
<1>2. RecordIn(l, i, r.offset) = frames[CHOOSE j \in at : TRUE].rec
  BY DEF RecordIn
<1>3. r.offset \in s.base .. s.next - 1
  BY DEF Held
<1>4. Leads(frames, pos, r.offset, recs)
  <2> HIDE DEF s, f
  <2>. QED
    BY <1>1, <1>3, EntryLeads
<1> HIDE DEF frames, pos
<1>5. PICK k \in DOMAIN frames :
          at = {k} /\ frames[k].rec \in recs /\ frames[k].rec.offset = r.offset
  BY <1>4 DEF Leads
<1>6. (CHOOSE j \in at : TRUE) = k
  BY <1>5
<1>7. frames[k].rec = r
  BY <1>5 DEF UniqueIn
<1>. QED
  BY <1>2, <1>6, <1>7

\* Every offset held has a record.
LEMMA HeldHasRecord ==
    ASSUME NEW recs, NEW l, GoodLog(l, recs), NEW off \in Stored(l)
    PROVE  \E r \in recs : r.offset = off
<1>1. PICK i \in DOMAIN l.segments : off \in Held(l.segments[i])
  BY InStored
<1> DEFINE s == l.segments[i]
           f == l.files[s.base]
<1>2. s \in Segment /\ f \in File /\ Consistent(s, f, recs)
  BY <1>1, GoodShape DEF GoodLog
<1>3. off \in s.base .. s.next - 1
  BY <1>1 DEF Held
<1> HIDE DEF s, f
<1>4. Leads(Flushed(f, s.buf).store, f.slots[off - s.base].pos, off, recs)
  BY <1>2, <1>3, EntryLeads
<1>. QED
  BY <1>4 DEF Leads

\* Payload and Entries of Log, of any log.
PayloadIn(l, off) ==
    LET i == CHOOSE j \in DOMAIN l.segments : off \in Held(l.segments[j])
        r == RecordIn(l, i, off)
    IN  [id |-> r.id, len |-> r.len]

EntriesIn(l) == [off \in Stored(l) |-> PayloadIn(l, off)]

\* The payload that the abstract log has under an offset is the one stored.
LEMMA PayloadOf ==
    ASSUME NEW recs, UniqueIn(recs), NEW l, GoodLog(l, recs),
           NEW r \in recs, r.offset \in Stored(l)
    PROVE  PayloadIn(l, r.offset) = [id |-> r.id, len |-> r.len]
<1> DEFINE i == CHOOSE j \in DOMAIN l.segments : r.offset \in Held(l.segments[j])
<1>1. i \in DOMAIN l.segments /\ r.offset \in Held(l.segments[i])
  BY InStored
<1> HIDE DEF i
<1>2. RecordIn(l, i, r.offset) = r
  BY <1>1, RecordAt
<1>. QED
  BY <1>2 DEF PayloadIn, i

\* Two logs whose records do not contradict each other agree on what both hold.
LEMMA SamePayload ==
    ASSUME NEW recs, NEW more, recs \subseteq more, UniqueIn(more),
           NEW l, GoodLog(l, recs), NEW m, GoodLog(m, more),
           NEW off, off \in Stored(l), off \in Stored(m)
    PROVE  PayloadIn(m, off) = PayloadIn(l, off)
<1>1. PICK r \in recs : r.offset = off
  BY HeldHasRecord
<1>2. UniqueIn(recs) /\ r \in more
  BY DEF UniqueIn
<1>3. PayloadIn(l, r.offset) = [id |-> r.id, len |-> r.len]
  BY <1>1, <1>2, PayloadOf
<1>4. PayloadIn(m, r.offset) = [id |-> r.id, len |-> r.len]
  BY <1>1, <1>2, PayloadOf
<1>. QED
  BY <1>1, <1>3, <1>4

-----------------------------------------------------------------------------
(* The invariant: IInv, and what the callers are told.  That a truncation   *)
(* keeps a record says nothing of the next one, which may drop more, unless *)
(* floor never runs ahead of the end of the log.                            *)

Kept == \A r \in acked : r.offset >= floor => r.offset \in Stored(log)

FloorBelowEnd == log.segments # <<>> => floor <= Last(log.segments).next

CallsInFlight ==
    \A a \in Appenders : pc[a] = "locking" => /\ call[a].id \in 1 .. MaxCalls
                                              /\ call[a].len \in PayloadLens

KInv ==
    /\ IInv
    /\ Kept
    /\ FloorBelowEnd
    /\ CallsInFlight

\* Nothing is acknowledged at first.
LEMMA InitKept == Init => KInv
<1> SUFFICES ASSUME Init PROVE KInv
  OBVIOUS
<1>1. IInv
  BY InitInv
<1>2. Kept /\ CallsInFlight
  BY DEF Init, Kept, CallsInFlight
<1>3. FloorBelowEnd
  <2>1. floor = InitialOffset /\ Last(log.segments).next = InitialOffset
    BY GoodEmpty DEF Init
  <2>. QED
    BY <2>1, ConfigAssumption DEF FloorBelowEnd, ConfigAssumption
<1>. QED
  BY <1>1, <1>2, <1>3 DEF KInv

\* What Read does to the log: nothing that its callers could tell.
LEMMA ReadEffect ==
    ASSUME IInv, NEW off \in Offsets, Read(off)
    PROVE  /\ log.segments # <<>> /\ log'.segments # <<>>
           /\ Stored(log') = Stored(log) /\ Ends(log') = Ends(log)
           /\ Last(log'.segments).next = Last(log.segments).next
           /\ UNCHANGED <<pc, call, high, calls, acked, floor, dead>>
<1> DEFINE i == FindSegment(log, off)
           n == Len(log.segments)
<1>1. /\ i # 0 /\ log' = FlushSegment(log, i)
      /\ UNCHANGED <<pc, call, high, calls, acked, floor, dead>>
  BY DEF Read
<1>2. GoodLog(log, acked)
  BY DEF IInv
<1>3. i \in DOMAIN log.segments
  BY <1>1, <1>2, FoundFirst
<1> HIDE DEF i
<1>4. /\ Len(log'.segments) = n
      /\ DOMAIN log'.segments = DOMAIN log.segments
      /\ \A j \in DOMAIN log.segments :
            /\ log'.segments[j].base = log.segments[j].base
            /\ log'.segments[j].next = log.segments[j].next
      /\ Stored(log') = Stored(log) /\ Ends(log') = Ends(log)
  <2>1. LET m == FlushSegment(log, i)
        IN  /\ GoodLog(m, acked)
            /\ Len(m.segments) = Len(log.segments)
            /\ DOMAIN m.segments = DOMAIN log.segments
            /\ \A j \in DOMAIN log.segments :
                  /\ m.segments[j].base = log.segments[j].base
                  /\ m.segments[j].next = log.segments[j].next
            /\ Stored(m) = Stored(log) /\ Ends(m) = Ends(log)
    BY <1>2, <1>3, GoodFlush
  <2>. QED
    BY <1>1, <2>1
<1>5. log.segments # <<>> /\ log'.segments # <<>> /\ n \in DOMAIN log.segments
  BY <1>2, <1>3, <1>4, GoodShape
<1>6. Last(log'.segments).next = Last(log.segments).next
  BY <1>4, <1>5 DEF Last
<1>. QED
  BY <1>1, <1>4, <1>5, <1>6

\* What Truncate does to the log.
LEMMA TruncateEffect ==
    ASSUME IInv, NEW lowest \in Offsets, Truncate(lowest)
    PROVE  /\ lowest \in Nat /\ log.segments # <<>>
           /\ lowest + 1 <= Last(log.segments).next
           /\ Ends(log') \subseteq Ends(log)
           /\ \A q \in Stored(log) : q > lowest => q \in Stored(log')
           /\ log'.segments # <<>> => Last(log'.segments) = Last(log.segments)
           /\ log'.segments = <<>> => Last(log.segments).next = lowest + 1
           /\ \/ Stored(log') = Stored(log)
              \/ \E lo \in Stored(log) : Stored(log') = {q \in Stored(log) : q > lo}
           /\ floor' = IF floor < lowest + 1 THEN lowest + 1 ELSE floor
           /\ UNCHANGED <<pc, call, high, calls, acked, dead>>
<1>1. /\ lowest \in Stored(log) /\ log' = TruncateLog(log, lowest)
      /\ floor' = IF floor < lowest + 1 THEN lowest + 1 ELSE floor
      /\ UNCHANGED <<pc, call, high, calls, acked, dead>>
  BY DEF Truncate
<1>2. GoodLog(log, acked)
  BY DEF IInv
<1>3. /\ lowest \in Nat /\ log.segments # <<>>
      /\ lowest + 1 <= Last(log.segments).next
  BY <1>1, <1>2, StoredBelowEnd
<1>4. /\ Ends(log') \subseteq Ends(log)
      /\ \A q \in Stored(log) : q > lowest => q \in Stored(log')
      /\ log'.segments = <<>> => Last(log.segments).next = lowest + 1
      /\ \/ Stored(log') = Stored(log)
         \/ \E lo \in Stored(log) : Stored(log') = {q \in Stored(log) : q > lo}
  BY <1>1, <1>2, TruncateHolds
<1>5. log'.segments # <<>> => Last(log'.segments) = Last(log.segments)
  <2>1. LET m == TruncateLog(log, lowest)
        IN  /\ GoodLog(m, acked)
            /\ log.segments # <<>> /\ lowest + 1 < Last(log.segments).next
                   => m.segments # <<>>
            /\ m.segments # <<>> => Last(m.segments) = Last(log.segments)
    BY <1>2, <1>3, GoodTruncate
  <2>. QED
    BY <1>1, <2>1
<1>. QED
  BY <1>1, <1>3, <1>4, <1>5

\* Every step keeps what was acknowledged.
LEMMA StepKept ==
    ASSUME SingleAppender, KInv, [Next]_vars
    PROVE  KInv'
<1> USE DEF KInv
<1>1. IInv /\ IInv'
  BY StepInv
<1>2. \A r \in acked : r.offset \in Nat
  BY DEF IInv, CallersOK, Record
<1>3. floor \in Nat /\ calls \in Nat /\ pc \in [Appenders -> {"idle", "locking"}]
      /\ call \in [Appenders -> [id : Nat, len : Nat]]
  BY DEF IInv, CallersOK
<1>4. ASSUME NEW a \in Appenders, NEW len \in PayloadLens, AppendStart(a, len)
      PROVE  KInv'
  <2>1. UNCHANGED <<log, acked, floor>> /\ calls < MaxCalls
    BY <1>4 DEF AppendStart
  <2>2. CASE log.segments = <<>>
    <3>1. UNCHANGED <<pc, call>>
      BY <1>4, <2>2 DEF AppendStart
    <3>. QED
      BY <1>1, <2>1, <3>1 DEF Kept, FloorBelowEnd, CallsInFlight
  <2>3. CASE log.segments # <<>>
    <3>1. /\ pc' = [pc EXCEPT ![a] = "locking"]
          /\ call' = [call EXCEPT ![a] = [id |-> calls + 1, len |-> len]]
      BY <1>4, <2>3 DEF AppendStart
    <3>2. calls + 1 \in 1 .. MaxCalls
      BY <1>3, <2>1, CallerAssumption DEF CallerAssumption
    <3>3. call'[a].id = calls + 1 /\ call'[a].len = len
      BY <1>3, <3>1
    <3>4. \A b \in Appenders \ {a} : pc'[b] = pc[b] /\ call'[b] = call[b]
      BY <1>3, <3>1
    <3>5. CallsInFlight'
      BY <3>2, <3>3, <3>4 DEF CallsInFlight
    <3>. QED
      BY <1>1, <2>1, <3>5 DEF Kept, FloorBelowEnd
  <2>. QED
    BY <2>2, <2>3
<1>5. ASSUME NEW a \in Appenders, AppendFinish(a) PROVE KInv'
  <2> DEFINE end == Last(log.segments).next
  <2>1. end \in Nat /\ \E r \in Record : AppendsAtEnd(a, end, r)
    BY <1>5, AppendFinishEffect
  <2>2. log.segments # <<>> => floor <= end
    BY DEF FloorBelowEnd
  <2> HIDE DEF end
  <2>3. PICK r \in Record : AppendsAtEnd(a, end, r)
    BY <2>1
  <2>4. /\ log.segments # <<>> /\ r.offset = end
        /\ acked' = acked \cup {r} /\ floor' = floor /\ call' = call
        /\ pc' = [pc EXCEPT ![a] = "idle"]
        /\ Last(log'.segments).next = end + 1
        /\ Stored(log') = Stored(log) \cup {end}
    BY <2>3 DEF AppendsAtEnd
  <2>5. Kept'
    BY <2>4 DEF Kept
  <2>6. FloorBelowEnd'
    BY <1>3, <2>1, <2>2, <2>4 DEF FloorBelowEnd
  <2>7. CallsInFlight'
    <3>1. \A b \in Appenders : pc'[b] = "locking" => pc[b] = "locking"
      BY <1>3, <2>4
    <3>. QED
      BY <2>4, <3>1 DEF CallsInFlight
  <2>. QED
    BY <1>1, <2>5, <2>6, <2>7
<1>6. ASSUME NEW off \in Offsets, Read(off) PROVE KInv'
  <2>1. /\ log.segments # <<>> /\ Stored(log') = Stored(log)
        /\ Last(log'.segments).next = Last(log.segments).next
        /\ UNCHANGED <<pc, call, acked, floor>>
    BY <1>1, <1>6, ReadEffect
  <2>. QED
    BY <1>1, <2>1 DEF Kept, FloorBelowEnd, CallsInFlight
<1>7. ASSUME NEW lowest \in Offsets, Truncate(lowest) PROVE KInv'
  <2>1. /\ lowest \in Nat /\ log.segments # <<>>
        /\ lowest + 1 <= Last(log.segments).next
        /\ \A q \in Stored(log) : q > lowest => q \in Stored(log')
        /\ log'.segments # <<>> => Last(log'.segments) = Last(log.segments)
        /\ floor' = IF floor < lowest + 1 THEN lowest + 1 ELSE floor
        /\ UNCHANGED <<pc, call, acked>>
    BY <1>1, <1>7, TruncateEffect
  <2>2. floor' >= floor /\ floor' > lowest
    BY <1>3, <2>1
  <2>3. Kept'
    <3>1. ASSUME NEW r \in acked, r.offset >= floor' PROVE r.offset \in Stored(log')
      <4>1. r.offset >= floor /\ r.offset > lowest
        BY <1>2, <1>3, <2>1, <2>2, <3>1
      <4>. QED
        BY <2>1, <4>1 DEF Kept
    <3>. QED
      BY <2>1, <3>1 DEF Kept
  <2>4. FloorBelowEnd'
    BY <2>1 DEF FloorBelowEnd
  <2>. QED
    BY <1>1, <2>1, <2>3, <2>4 DEF CallsInFlight
<1>8. CASE UNCHANGED vars
  BY <1>1, <1>8 DEF vars, Kept, FloorBelowEnd, CallsInFlight
<1>. QED
  BY <1>4, <1>5, <1>6, <1>7, <1>8 DEF Next

-----------------------------------------------------------------------------
(* Theorems.  They assume one appending goroutine: that is how Raft uses    *)
(* its log.                                                                 *)

\* The stronger invariant holds in every reachable state.
THEOREM KeptInvariance == ASSUME SingleAppender PROVE Spec => []KInv
<1>1. Init => KInv
  BY InitKept
<1>2. KInv /\ [Next]_vars => KInv'
  BY StepKept
<1>. QED
  BY <1>1, <1>2, PTL DEF Spec

\* However often the log was truncated, nothing above the offsets it was told to
\* drop is lost, and what is kept is what was written (log.go Truncate).
THEOREM NothingLost == ASSUME SingleAppender PROVE Spec => []AboveFloorKept
<1>1. ASSUME KInv PROVE AboveFloorKept
  <2>1. GoodLog(log, acked) /\ UniqueIn(acked)
    BY <1>1 DEF KInv, IInv, OffsetsUnique, UniqueIn
  <2>2. ASSUME NEW r \in acked, r.offset >= floor
        PROVE  \E i \in DOMAIN log.segments :
                   /\ r.offset \in Held(log.segments[i])
                   /\ RecordIn(log, i, r.offset) = r
    <3>1. r.offset \in Stored(log)
      BY <1>1, <2>2 DEF KInv, Kept
    <3>2. PICK i \in DOMAIN log.segments : r.offset \in Held(log.segments[i])
      BY <3>1, InStored
    <3>3. RecordIn(log, i, r.offset) = r
      BY <2>1, <3>2, RecordAt
    <3>. QED
      BY <3>2, <3>3
  <2>. QED
    BY <2>2 DEF AboveFloorKept
<1>. QED
  BY <1>1, KeptInvariance, PTL

\* A record that was acknowledged and not truncated is what Read returns for its
\* offset, away from the ends of segments (log.go Read, store.go Read).
THEOREM StoredIsRead == ASSUME SingleAppender PROVE Spec => []AckedReadable
<1>1. ASSUME IInv PROVE AckedReadable
  <2>1. GoodLog(log, acked) /\ UniqueIn(acked)
    BY <1>1 DEF IInv, OffsetsUnique, UniqueIn
  <2>2. ASSUME NEW r \in acked, r.offset \in Stored(log), MarshalLen(r) # 0,
               \A s \in Range(log.segments) : s.next # r.offset
        PROVE  ReadLog(log, r.offset) = [err |-> "", rec |-> r]
    <3>1. r.offset \notin Ends(log)
      BY <2>2 DEF Ends, Range
    <3>2. Finds(log, r.offset, acked)
      BY <2>1, <2>2, <3>1, ReadStored
    <3>3. PICK q \in acked :
              /\ q.offset = r.offset
              /\ ReadLog(log, r.offset) = ResultOf(q)
      BY <3>2 DEF Finds
    <3>4. q = r
      BY <2>1, <2>2, <3>3 DEF UniqueIn
    <3>. QED
      BY <2>2, <3>3, <3>4 DEF ResultOf
  <2>. QED
    BY <2>2 DEF AckedReadable
<1>. QED
  BY <1>1, Invariance, PTL

\* No step but a truncation that is asked to takes a record from the readers: the
\* search never stops earlier than before for an offset that was readable (log.go
\* Append, Read, Truncate).
THEOREM ReadsAreStable == ASSUME SingleAppender PROVE Spec => ReadableIsStable
<1> DEFINE Stable == \A off \in Offsets :
                         Readable(log, off) /\ off >= floor' =>
                             ReadLog(log', off) = ReadLog(log, off)
<1>1. ASSUME SingleAppender, IInv, IInv', [Next]_vars, NEW off \in Offsets,
             Readable(log, off), off >= floor'
      PROVE  ReadLog(log', off) = ReadLog(log, off)
  <2>1. /\ GoodLog(log, acked) /\ GoodLog(log', acked') /\ UniqueIn(acked')
        /\ floor \in Nat
    BY <1>1 DEF IInv, CallersOK, OffsetsUnique, UniqueIn
  <2>2. off \in Nat
    BY ConfigAssumption, CallerAssumption
       DEF Offsets, ConfigAssumption, CallerAssumption
  <2>3. PICK r \in acked : ReadsRecord(log, off, r)
    BY <1>1, <2>1, <2>2, ReadGood
  <2>4. off \in Stored(log) /\ off \notin Ends(log)
    BY <2>3 DEF ReadsRecord
  <2>5. \/ UNCHANGED log /\ acked' = acked
        \/ acked \subseteq acked' /\ off \in Stored(log') /\ off \notin Ends(log')
    <3>1. CASE \E a \in Appenders, len \in PayloadLens : AppendStart(a, len)
      BY <3>1 DEF AppendStart
    <3>2. ASSUME NEW a \in Appenders, AppendFinish(a)
          PROVE  acked \subseteq acked' /\ off \in Stored(log') /\ off \notin Ends(log')
      <4> DEFINE end == Last(log.segments).next
      <4>1. end \in Nat /\ \E q \in Record : AppendsAtEnd(a, end, q)
        BY <1>1, <3>2, AppendFinishEffect
      <4>2. off < end
        BY <2>1, <2>4, StoredBelowEnd
      <4> HIDE DEF end
      <4>3. /\ acked \subseteq acked' /\ Stored(log') = Stored(log) \cup {end}
            /\ Ends(log') \subseteq Ends(log) \cup {end + 1}
        BY <4>1 DEF AppendsAtEnd
      <4>. QED
        BY <2>2, <2>4, <4>1, <4>2, <4>3
    <3>3. ASSUME NEW o \in Offsets, Read(o)
          PROVE  acked \subseteq acked' /\ off \in Stored(log') /\ off \notin Ends(log')
      BY <1>1, <2>4, <3>3, ReadEffect
    <3>4. ASSUME NEW lowest \in Offsets, Truncate(lowest)
          PROVE  acked \subseteq acked' /\ off \in Stored(log') /\ off \notin Ends(log')
      <4>1. /\ lowest \in Nat /\ acked' = acked
            /\ Ends(log') \subseteq Ends(log)
            /\ \A q \in Stored(log) : q > lowest => q \in Stored(log')
            /\ floor' = IF floor < lowest + 1 THEN lowest + 1 ELSE floor
        BY <1>1, <3>4, TruncateEffect
      <4>2. off > lowest
        BY <1>1, <2>1, <2>2, <4>1
      <4>. QED
        BY <2>4, <4>1, <4>2
    <3>5. CASE UNCHANGED vars
      BY <3>5 DEF vars
    <3>. QED
      BY <1>1, <3>1, <3>2, <3>3, <3>4, <3>5 DEF Next
  <2>6. CASE UNCHANGED log
    BY <2>6
  <2>7. CASE acked \subseteq acked' /\ off \in Stored(log') /\ off \notin Ends(log')
    <3>1. Finds(log', off, acked')
      BY <2>1, <2>7, ReadStored
    <3>2. PICK q \in acked' :
              /\ q.offset = off
              /\ ReadLog(log', off) = ResultOf(q)
      BY <3>1 DEF Finds
    <3>3. q = r
      BY <2>1, <2>3, <2>7, <3>2 DEF UniqueIn, ReadsRecord
    <3>. QED
      BY <2>3, <3>2, <3>3 DEF ReadsRecord, ResultOf
  <2>. QED
    BY <2>5, <2>6, <2>7
<1>2. ASSUME SingleAppender, IInv, IInv', [Next]_vars PROVE [Stable]_vars
  BY <1>1, <1>2
<1> HIDE DEF Stable
<1>3. Spec => [][Stable]_vars
  BY <1>2, Invariance, PTL DEF Spec
<1>. QED
  BY <1>3 DEF ReadableIsStable, Stable

\* The Log implements the abstract commit log: the second half of an Append is the
\* abstract append, a Truncate the abstract compaction up to the last offset of the
\* segments it drops, every other step a stutter (log.go).
THEOREM Refinement == ASSUME SingleAppender PROVE Spec => ImplementsCommitLog
<1>1. Entries = EntriesIn(log) /\ Entries' = EntriesIn(log')
  BY DEF Entries, Payload, EntriesIn, PayloadIn
<1>2. Init => Contract!Init
  <2>1. SUFFICES ASSUME Init PROVE Contract!Init
    OBVIOUS
  <2>2. /\ Stored(log) = {} /\ log.segments # <<>>
        /\ Last(log.segments).next = InitialOffset
    BY <2>1, GoodEmpty DEF Init
  <2>3. Entries = [o \in {} |-> InitialOffset]
    BY <1>1, <2>2 DEF EntriesIn
  <2>4. End = InitialOffset
    BY <2>2 DEF End
  <2>. QED
    BY <2>3, <2>4 DEF Contract!Init
<1>3. ASSUME SingleAppender, KInv, KInv', [Next]_vars
      PROVE  [Contract!Next]_(Contract!vars)
  <2>1. /\ GoodLog(log, acked) /\ GoodLog(log', acked')
        /\ UniqueIn(acked) /\ UniqueIn(acked') /\ IInv /\ floor \in Nat
    BY <1>3 DEF KInv, IInv, CallersOK, OffsetsUnique, UniqueIn
  <2>2. ASSUME Stored(log') = Stored(log), acked' = acked
        PROVE  Entries' = Entries
    <3>1. \A off \in Stored(log) : PayloadIn(log', off) = PayloadIn(log, off)
      BY <2>1, <2>2, SamePayload
    <3>. QED
      BY <1>1, <2>2, <3>1 DEF EntriesIn
  <2>3. ASSUME NEW a \in Appenders, AppendFinish(a) PROVE Contract!Next
    <3> DEFINE end == Last(log.segments).next
               p == [id |-> call[a].id, len |-> call[a].len]
    <3>1. end \in Nat /\ \E r \in Record : AppendsAtEnd(a, end, r)
      BY <2>1, <2>3, AppendFinishEffect
    <3>2. \A off \in Stored(log) : off # end
      BY <2>1, StoredBelowEnd
    <3>3. log.segments # <<>> => End = end
      BY DEF End
    <3>4. p \in [id : 1 .. MaxCalls, len : PayloadLens]
      BY <1>3, <2>3 DEF KInv, CallsInFlight, AppendFinish
    <3> HIDE DEF end
    <3>5. PICK r \in Record : AppendsAtEnd(a, end, r)
      BY <3>1
    <3>6. /\ log.segments # <<>>
          /\ r.offset = end /\ r.id = call[a].id /\ r.len = call[a].len
          /\ acked' = acked \cup {r}
          /\ log'.segments # <<>> /\ Last(log'.segments).next = end + 1
          /\ Stored(log') = Stored(log) \cup {end}
      BY <3>5 DEF AppendsAtEnd
    <3>7. End = end /\ End' = end + 1
      BY <3>3, <3>6 DEF End
    <3>8. PayloadIn(log', end) = p
      <4>1. r \in acked' /\ r.offset \in Stored(log')
        BY <3>6
      <4>2. PayloadIn(log', r.offset) = [id |-> r.id, len |-> r.len]
        BY <2>1, <4>1, PayloadOf
      <4>. QED
        BY <3>6, <4>2
    <3> HIDE DEF p
    <3>9. \A off \in Stored(log) : PayloadIn(log', off) = PayloadIn(log, off)
      BY <2>1, <3>6, SamePayload
    <3>10. Entries' = [o \in DOMAIN Entries \cup {end} |->
                           IF o = end THEN p ELSE Entries[o]]
      <4>1. DOMAIN Entries = Stored(log)
        BY <1>1 DEF EntriesIn
      <4>2. \A off \in Stored(log) : Entries[off] = PayloadIn(log, off)
        BY <1>1 DEF EntriesIn
      <4>3. Entries' = [o \in Stored(log) \cup {end} |-> PayloadIn(log', o)]
        BY <1>1, <3>6 DEF EntriesIn
      <4>. QED
        BY <3>2, <3>8, <3>9, <4>1, <4>2, <4>3
    <3>11. Contract!Append(p)
      BY <3>7, <3>10 DEF Contract!Append
    <3>. QED
      BY <3>4, <3>11 DEF Contract!Next
  <2>4. ASSUME NEW lowest \in Offsets, Truncate(lowest)
        PROVE  Contract!Next \/ UNCHANGED Contract!vars
    <3>1. /\ lowest \in Nat /\ log.segments # <<>>
          /\ lowest + 1 <= Last(log.segments).next
          /\ log'.segments # <<>> => Last(log'.segments) = Last(log.segments)
          /\ log'.segments = <<>> => Last(log.segments).next = lowest + 1
          /\ \/ Stored(log') = Stored(log)
             \/ \E lo \in Stored(log) : Stored(log') = {q \in Stored(log) : q > lo}
          /\ floor' = IF floor < lowest + 1 THEN lowest + 1 ELSE floor
          /\ acked' = acked
      BY <2>1, <2>4, TruncateEffect
    <3>2. End' = End
      <4>1. End = Last(log.segments).next
        BY <3>1 DEF End
      <4>2. CASE log'.segments # <<>>
        BY <3>1, <4>1, <4>2 DEF End
      <4>3. CASE log'.segments = <<>>
        <5>1. floor <= lowest + 1
          BY <1>3, <3>1, <4>3 DEF KInv, FloorBelowEnd
        <5>2. floor' = lowest + 1
          BY <2>1, <3>1, <5>1
        <5>. QED
          BY <3>1, <4>1, <4>3, <5>2 DEF End
      <4>. QED
        BY <4>2, <4>3
    <3>3. CASE Stored(log') = Stored(log)
      BY <2>2, <3>1, <3>2, <3>3 DEF Contract!vars
    <3>4. ASSUME NEW lo \in Stored(log), Stored(log') = {q \in Stored(log) : q > lo}
          PROVE  Contract!Next
      <4>1. \A off \in Stored(log') : PayloadIn(log', off) = PayloadIn(log, off)
        BY <2>1, <3>1, <3>4, SamePayload
      <4>2. /\ DOMAIN Entries = Stored(log)
            /\ \A off \in Stored(log) : Entries[off] = PayloadIn(log, off)
        BY <1>1 DEF EntriesIn
      <4>3. Entries' = [o \in {q \in DOMAIN Entries : q > lo} |-> Entries[o]]
        BY <1>1, <3>4, <4>1, <4>2 DEF EntriesIn
      <4>4. Contract!Compact(lo) /\ lo \in DOMAIN Entries
        BY <3>2, <4>2, <4>3 DEF Contract!Compact
      <4>. QED
        BY <4>4 DEF Contract!Next
    <3>. QED
      BY <3>1, <3>3, <3>4
  <2>5. ASSUME NEW off \in Offsets, Read(off) PROVE UNCHANGED Contract!vars
    <3>1. /\ log.segments # <<>> /\ log'.segments # <<>>
          /\ Stored(log') = Stored(log)
          /\ Last(log'.segments).next = Last(log.segments).next
          /\ acked' = acked
      BY <2>1, <2>5, ReadEffect
    <3>2. End' = End
      BY <3>1 DEF End
    <3>. QED
      BY <2>2, <3>1, <3>2 DEF Contract!vars
  <2>6. ASSUME UNCHANGED <<log, floor>> PROVE UNCHANGED Contract!vars
    BY <1>1, <2>6 DEF End, Contract!vars
  <2>7. CASE \E a \in Appenders, len \in PayloadLens : AppendStart(a, len)
    BY <2>6, <2>7 DEF AppendStart
  <2>8. CASE UNCHANGED vars
    BY <2>6, <2>8 DEF vars
  <2>. QED
    BY <1>3, <2>3, <2>4, <2>5, <2>7, <2>8 DEF Next
<1>. QED
  BY <1>2, <1>3, KeptInvariance, PTL DEF Spec, ImplementsCommitLog, Contract!Spec
=============================================================================
