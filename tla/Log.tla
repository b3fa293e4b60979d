-------------------------------- MODULE Log --------------------------------
(***************************************************************************)
(* One Log (internal/log/log.go) during one process lifetime, from NewLog  *)
(* on an empty directory on: any number of goroutines call Append and      *)
(* Read, and the goroutine of Raft's log store calls Truncate.             *)
(*                                                                         *)
(* l.mu makes Read, Truncate and the second half of Append atomic.  Append *)
(* itself is two steps: it calls HighestOffset, which takes and releases   *)
(* the read lock, and only then takes the write lock.                      *)
(***************************************************************************)
EXTENDS SegmentedLog

CONSTANTS Appenders,     \* the goroutines that call Append
          PayloadLens,   \* the payload lengths they use
          MaxCalls       \* bound: number of calls of Append

ASSUME CallerAssumption ==
    /\ PayloadLens \subseteq Nat
    /\ MaxCalls \in Nat

VARIABLES log,      \* the Log: its files and its segments
          pc,       \* pc[a]: "idle", or "locking" between the halves of Append
          call,     \* call[a]: the id and length of a's current payload
          high,     \* high[a]: the local variable highestOffset of Append
          calls,    \* number of Append calls begun
          acked,    \* history: the records whose Append returned an offset
          floor,    \* history: no Truncate has asked for offsets >= floor
          dead      \* a goroutine panicked, the process is gone

vars == <<log, pc, call, high, calls, acked, floor, dead>>

Init ==
    /\ log = EmptyLog
    /\ pc = [a \in Appenders |-> "idle"]
    /\ call = [a \in Appenders |-> [id |-> 0, len |-> 0]]
    /\ high = [a \in Appenders |-> 0]
    /\ calls = 0
    /\ acked = {}
    /\ floor = InitialOffset
    /\ dead = FALSE

\* Append, up to the unlock in HighestOffset.  With no segments left the
\* index expression in HighestOffset panics.
AppendStart(a, len) ==
    /\ ~dead
    /\ pc[a] = "idle"
    /\ calls < MaxCalls
    /\ calls' = calls + 1
    /\ IF log.segments = <<>>
       THEN dead' = TRUE /\ UNCHANGED <<pc, call, high>>
       ELSE /\ pc' = [pc EXCEPT ![a] = "locking"]
            /\ call' = [call EXCEPT ![a] = [id |-> calls + 1, len |-> len]]
            /\ high' = [high EXCEPT ![a] = HighestOffset(log)]
            /\ dead' = dead
    /\ UNCHANGED <<log, acked, floor>>

\* Append under l.mu.Lock.  It fails when the segment it ends up with has
\* no room in its index, and acknowledges the offset otherwise.
AppendFinish(a) ==
    LET s == AppendTarget(log, high[a])
    IN  /\ ~dead
        /\ pc[a] = "locking"
        /\ pc' = [pc EXCEPT ![a] = "idle"]
        /\ log' = AppendLocked(log, high[a], call[a].id, call[a].len)
        /\ acked' = IF IndexMaxed(s) THEN acked
                    ELSE acked \cup {[offset |-> s.next, id |-> call[a].id,
                                      len |-> call[a].len]}
        /\ UNCHANGED <<call, high, calls, floor, dead>>

\* Read has one side effect: the store it reads is flushed.
Read(off) ==
    LET i == FindSegment(log, off)
    IN  /\ ~dead
        /\ i # 0
        /\ off < log.segments[i].next
        /\ (off - log.segments[i].base + 1) * entryWidth <= log.segments[i].isize
        /\ log' = FlushSegment(log, i)
        /\ UNCHANGED <<pc, call, high, calls, acked, floor, dead>>

SingleAppender == \A a, b \in Appenders : a = b

\* Truncate(lowest).  Raft owns the only log that is truncated, appends to it
\* from one goroutine and names an offset the log holds.  Its snapshot
\* goroutine truncates, while that one runs, below the last offset; only the
\* goroutine that appends truncates up to the last offset itself.
Truncate(lowest) ==
    /\ ~dead
    /\ SingleAppender
    /\ lowest \in Stored(log)
    /\ lowest = HighestOffset(log) => \A a \in Appenders : pc[a] = "idle"
    /\ log' = TruncateLog(log, lowest)
    /\ floor' = IF floor < lowest + 1 THEN lowest + 1 ELSE floor
    /\ UNCHANGED <<pc, call, high, calls, acked, dead>>

Offsets == InitialOffset .. InitialOffset + MaxCalls

Next ==
    \/ \E a \in Appenders, len \in PayloadLens : AppendStart(a, len)
    \/ \E a \in Appenders : AppendFinish(a)
    \/ \E off \in Offsets : Read(off)
    \/ \E lowest \in Offsets : Truncate(lowest)

Spec == Init /\ [][Next]_vars

-----------------------------------------------------------------------------
(* Invariants.                                                              *)

\* The log is a well-formed directory and a list of segments on it, and every
\* goroutine is in one of its two places.
TypeOK ==
    /\ log.files \in [DOMAIN log.files -> File]
    /\ DOMAIN log.files \subseteq Nat
    /\ log.segments \in Seq(Segment)
    /\ \A s \in Range(log.segments) : s.base \in DOMAIN log.files
    /\ pc \in [Appenders -> {"idle", "locking"}]
    /\ call \in [Appenders -> [id : Nat, len : Nat]]
    /\ high \in [Appenders -> Nat]
    /\ calls \in 0 .. MaxCalls
    /\ acked \subseteq Record
    /\ floor \in Nat
    /\ dead \in BOOLEAN

\* The two files of a segment and the buffer between them always agree, record
\* for record and byte for byte, whatever was flushed when: nothing in the code
\* compares them (store.go Append, index.go Write, segment.go Append).
IndexMatchesStore ==
    \A s \in Range(log.segments) : Consistent(s, log.files[s.base], acked)

\* The segments are disjoint and in order of their offsets, none but the last
\* is empty, and the directory has their files and no others; an Append between
\* its two locks still knows the highest offset (log.go Append, Truncate).
SegmentsInOrder ==
    /\ \A i, j \in DOMAIN log.segments :
           i < j => /\ log.segments[i].base < log.segments[i].next
                    /\ log.segments[i].next <= log.segments[j].base
    /\ DOMAIN log.files = {s.base : s \in Range(log.segments)}
    /\ \A a \in Appenders :
           pc[a] = "locking" => /\ log.segments # <<>>
                                /\ high[a] = HighestOffset(log)

\* Whatever Log.Read returns for an offset was acknowledged by an Append under
\* that very offset: the two files of a segment, the buffer between them and
\* the search over segments never pair an offset with another record, however
\* appends, rollovers, flushes and truncations interleave (log.go Read,
\* segment.go Read, store.go Read).
ReadYieldsAcked ==
    \A off \in Offsets :
        Readable(log, off) => /\ ReadLog(log, off).rec \in acked
                              /\ ReadLog(log, off).rec.offset = off

\* No two acknowledged records have the same offset (log.go Append).
OffsetsUnique == \A r, q \in acked : r.offset = q.offset => r = q

\* Truncate drops no acknowledged record above the offset it was given: each
\* is still in a listed segment, as it was written (log.go Truncate).
AboveFloorKept ==
    \A r \in acked : r.offset >= floor =>
        \E i \in DOMAIN log.segments :
            /\ r.offset \in Held(log.segments[i])
            /\ RecordIn(log, i, r.offset) = r

\* An acknowledged record that the log holds is read as it was written, at every
\* offset but those where Read breaks its word (AckedCanBeRead, below): index,
\* buffer, file and search agree after whatever flushes, rollovers and
\* truncations (log.go Read, store.go Read, segment.go Read).  A record that
\* marshals to no bytes is refused as damaged (store.go:85).
AckedReadable ==
    \A r \in acked :
        /\ r.offset \in Stored(log)
        /\ \A s \in Range(log.segments) : s.next # r.offset
        /\ MarshalLen(r) # 0
        => ReadLog(log, r.offset) = [err |-> "", rec |-> r]

-----------------------------------------------------------------------------
(* Action properties.                                                       *)

\* A record that can be read stays readable, and the same, under every step
\* but a Truncate that was asked for its offset: an append or a rollover never
\* shadows it in the segment search, a flush never moves it (log.go Read).
ReadableIsStable ==
    [][\A off \in Offsets :
           Readable(log, off) /\ off >= floor' =>
               ReadLog(log', off) = ReadLog(log, off)]_vars

-----------------------------------------------------------------------------
(* What the code promises and does not keep.                                *)

\* Read "searches through the log segments to find the one containing the given
\* offset, then reads the record from that segment" (log.go:132-134).  The search
\* takes the first segment whose nextOffset is not below the offset, and so, for
\* the first record of a segment, the one before it, which has not got it.
AckedCanBeRead ==
    \A r \in acked :
        r.offset \in Stored(log) /\ MarshalLen(r) # 0 => Readable(log, r.offset)

-----------------------------------------------------------------------------
(* Refinement of CommitLog, for one appender.                               *)

Payload(off) ==
    LET i == CHOOSE j \in DOMAIN log.segments : off \in Held(log.segments[j])
        r == RecordIn(log, i, off)
    IN  [id |-> r.id, len |-> r.len]

Entries == [off \in Stored(log) |-> Payload(off)]

End == IF log.segments = <<>> THEN floor ELSE Last(log.segments).next

Contract == INSTANCE CommitLog
                WITH FirstOffset <- InitialOffset,
                     Payloads <- [id : 1 .. MaxCalls, len : PayloadLens],
                     entries <- Entries,
                     end <- End

\* What the segments and files hold behaves as the abstract commit log: each
\* Append adds one record at the end, Truncate only drops a prefix.
ImplementsCommitLog == Contract!Spec
=============================================================================
