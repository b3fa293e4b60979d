----------------------------- MODULE LogRestart -----------------------------
(***************************************************************************)
(* One directory and the processes that, one after the other, open a Log   *)
(* on it: setup, appends and reads of a single goroutine, then Close or a  *)
(* crash, then the next process.  What a crash keeps is what reached the   *)
(* kernel: the mapped index and the flushed part of a store, not the       *)
(* bufio.Writer.  It may come between two operations, inside newSegment or *)
(* between the two stores of index.Write.  (Records stay far below the     *)
(* 4096 bytes at which the writer flushes by itself.)                      *)
(***************************************************************************)
EXTENDS SegmentedLog

CONSTANTS PayloadLens,   \* the payload lengths of the appends
          MaxCalls,      \* bound: number of appends
          MaxLives,      \* bound: number of processes
          MaxCrashes     \* bound: number of processes that crash

ASSUME LifeAssumption ==
    /\ PayloadLens \subseteq Nat
    /\ MaxCalls \in Nat /\ MaxLives \in Nat /\ MaxCrashes \in Nat

VARIABLES log,       \* the directory and, while a process runs, its segments
          phase,     \* "down", "opening" (in setup) or "up"
          pending,   \* the base offsets setup still has to open, in order
          calls,     \* number of appends so far
          acked,     \* history: the records that Append returned an offset for
          torn,      \* history: the offsets of index entries written by half
          atClose,   \* history: the records readable at the last Close
          lives,     \* number of processes started
          crashes    \* number of processes crashed

vars == <<log, phase, pending, calls, acked, torn, atClose, lives, crashes>>

Init ==
    /\ log = [files |-> [b \in {} |-> NoFile], segments |-> <<>>]
    /\ phase = "down"
    /\ pending = <<>>
    /\ calls = 0
    /\ acked = {}
    /\ torn = {}
    /\ atClose = {}
    /\ lives = 0
    /\ crashes = 0

-----------------------------------------------------------------------------
(* setup                                                                    *)

\* NewLog: the directory is read, or gets its first segment when it is empty.
Start ==
    /\ phase = "down"
    /\ lives < MaxLives
    /\ lives' = lives + 1
    /\ pending' = BasesToOpen(log.files)
    /\ phase' = "opening"
    /\ UNCHANGED <<log, calls, acked, torn, atClose, crashes>>

\* One turn of the loop of setup.
OpenNext ==
    /\ phase = "opening"
    /\ log' = NewSegment(log, Head(pending))
    /\ pending' = Tail(pending)
    /\ phase' = IF Tail(pending) = <<>> THEN "up" ELSE "opening"
    /\ UNCHANGED <<calls, acked, torn, atClose, lives, crashes>>

-----------------------------------------------------------------------------
(* The running process.                                                     *)

AppendRecord(len) ==
    LET h == HighestOffset(log)
        s == AppendTarget(log, h)
        r == [offset |-> s.next, id |-> calls + 1, len |-> len]
    IN  /\ phase = "up"
        /\ calls < MaxCalls
        /\ calls' = calls + 1
        /\ log' = AppendLocked(log, h, r.id, len)
        /\ acked' = IF IndexMaxed(s) THEN acked ELSE acked \cup {r}
        /\ UNCHANGED <<phase, pending, torn, atClose, lives, crashes>>

Offsets == InitialOffset .. InitialOffset + MaxCalls

Read(off) ==
    LET i == FindSegment(log, off)
    IN  /\ phase = "up"
        /\ i # 0
        /\ off < log.segments[i].next
        /\ (off - log.segments[i].base + 1) * entryWidth <= log.segments[i].isize
        /\ log' = FlushSegment(log, i)
        /\ UNCHANGED <<phase, pending, calls, acked, torn, atClose, lives,
                       crashes>>

\* Close closes the segments in list order; then the process exits.
Close ==
    /\ phase = "up"
    /\ log' = [files |-> ClosedFiles(log), segments |-> <<>>]
    /\ phase' = "down"
    /\ atClose' = {r \in acked : ReadLog(log, r.offset) = [err |-> "", rec |-> r]}
    /\ UNCHANGED <<pending, calls, acked, torn, lives, crashes>>

\* The base of the file pair the process is about to create, if it is.
Creating ==
    {b \in CASE phase = "opening" -> {Head(pending)}
             [] phase = "up" /\ IsMaxed(Last(log.segments)) ->
                    {HighestOffset(log) + 1}
             [] OTHER -> {} :
        b \notin DOMAIN log.files}

Crash ==
    /\ phase # "down"
    /\ crashes < MaxCrashes
    /\ crashes' = crashes + 1
    /\ phase' = "down"
    /\ pending' = <<>>
    /\ \E files \in {log.files} \cup
                        UNION {Interrupted(log.files, b) : b \in Creating} :
          log' = [files |-> files, segments |-> <<>>]
    /\ UNCHANGED <<calls, acked, torn, atClose, lives>>

\* A crash inside an append, when the frame is in the buffer and index.Write has
\* stored the offset of its entry but not the position.  (Where the append rolls
\* over, the entry is the first of its segment, and all zeros: one of the Stubs.)
CrashInWrite ==
    LET s == Last(log.segments)
    IN  /\ phase = "up"
        /\ calls < MaxCalls /\ crashes < MaxCrashes
        /\ ~IsMaxed(s)
        /\ calls' = calls + 1
        /\ crashes' = crashes + 1
        /\ phase' = "down"
        /\ torn' = torn \cup {s.next}
        /\ log' = [files |-> TornFiles(log), segments |-> <<>>]
        /\ UNCHANGED <<pending, acked, atClose, lives>>

Next ==
    \/ Start
    \/ OpenNext
    \/ \E len \in PayloadLens : AppendRecord(len)
    \/ \E off \in Offsets : Read(off)
    \/ Close
    \/ Crash
    \/ CrashInWrite

Spec == Init /\ [][Next]_vars

-----------------------------------------------------------------------------
(* Properties that hold.                                                    *)

\* The directory is well formed in every phase, and only a running process
\* has segments.
TypeOK ==
    /\ log.files \in [DOMAIN log.files -> File]
    /\ DOMAIN log.files \subseteq Nat
    /\ log.segments \in Seq(Segment)
    /\ \A s \in Range(log.segments) : s.base \in DOMAIN log.files
    /\ phase \in {"down", "opening", "up"}
    /\ phase = "down" => log.segments = <<>>
    /\ phase = "opening" <=> pending # <<>>
    /\ calls \in 0 .. MaxCalls /\ lives \in 0 .. MaxLives
    /\ acked \subseteq Record /\ torn \subseteq Nat /\ atClose \subseteq acked

\* However often the directory is reopened, and whatever the crashes lost, a
\* Read that succeeds returns a record that was acknowledged under that offset
\* in some life: an index entry that outlived its frame, or a slot of zeros,
\* never makes a record of another offset appear.  Only an entry of which a crash
\* kept half can, and then it is the first record of the segment (index.go Read
\* and Write, store.go Read, segment.go newSegment).
ReadYieldsAcked ==
    phase = "up" =>
        \A off \in Offsets : Readable(log, off) =>
            LET r == ReadLog(log, off).rec
            IN  /\ r \in acked
                /\ \/ r.offset = off
                   \/ off \in torn /\ r.offset = log.segments[FindSegment(log, off)].base

\* The first reopening after a clean Close keeps every record readable that
\* was, whatever is appended after it: the first of the two segment objects
\* that setup makes for a base has the true nextOffset (log.go setup, index.go
\* Close).
FirstReopenKeepsReadable ==
    phase = "up" /\ lives = 2 /\ crashes = 0 =>
        \A r \in atClose : ReadLog(log, r.offset) = [err |-> "", rec |-> r]

OnDisk(files) ==
    UNION {{<<b, fr.rec>> : fr \in Range(files[b].store)} : b \in DOMAIN files}

\* No step takes a flushed record out of its store file: what a reopening loses
\* is the index entry, never the frame (segment.go newSegment, O_APPEND).
FlushedForEver == [][OnDisk(log.files) \subseteq OnDisk(log'.files)]_vars

\* A rollover of Append always creates its two files: newSegment(highestOffset
\* + 1) never opens those of an earlier segment, although after a reopening
\* highestOffset is not the highest offset in the log (log.go Append, setup).
RolloverCreates ==
    [][phase = "up" /\ Len(log'.segments) > Len(log.segments) =>
           Last(log'.segments).base \notin DOMAIN log.files]_vars

=============================================================================
