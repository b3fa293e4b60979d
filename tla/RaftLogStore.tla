---------------------------- MODULE RaftLogStore ----------------------------
(***************************************************************************)
(* The log in which Raft keeps its entries on one server (logStore in      *)
(* internal/log/distributed.go): a second Log, wrapped to look like the    *)
(* LogStore of the Raft library.                                           *)
(*                                                                         *)
(* Raft names entries by index and term.  Its main goroutine stores new    *)
(* entries behind the last one and clears a suffix that a new leader has   *)
(* replaced; its snapshot goroutine clears a prefix; others read; and a    *)
(* restarted Raft learns from the store which entry is the last.  logStore *)
(* passes all of this on to a Log that gives out offsets by itself, and it *)
(* ignores the index of an entry it stores and the lower end of a range it *)
(* deletes.                                                                *)
(***************************************************************************)
EXTENDS SegmentedLog

CONSTANTS EntryLen,       \* length of the data, term and type of an entry
          TrailingLogs,   \* raft.Config.TrailingLogs: entries kept behind a snapshot
          MaxIndex,       \* bound: the highest index
          MaxTerm,        \* bound: the highest term
          MaxBatch,       \* bound: entries in one call of StoreLogs
          MaxRestarts     \* bound: restarts of the server

\* setupRaft gives the log of Raft the initial offset 1.
ASSUME StoreAssumption ==
    /\ InitialOffset = 1
    /\ EntryLen \in Nat /\ TrailingLogs \in Nat
    /\ MaxIndex \in Nat /\ MaxTerm \in Nat /\ MaxBatch \in Nat /\ MaxRestarts \in Nat

VARIABLES log,        \* the Log behind the store
          phase,      \* "up", "dead" (a panic) or "stuck" (a spoilt Truncate)
          lastIndex,  \* Raft's own copy of the index of its last entry
          lastTerm,   \* and of its term
          batch,      \* the call of StoreLogs in progress, or NoBatch
          snapIndex,  \* the index of the last snapshot, 0 for none
          latest,     \* history: the term Raft last stored at each index
          stored,     \* history: every entry Raft ever stored
          cut,        \* history: a call of StoreLogs ended in an error, or a
                      \* crash tore the index entry it was writing
          restarts    \* number of restarts

vars == <<log, phase, lastIndex, lastTerm, batch, snapIndex, latest, stored, cut,
          restarts>>

\* term and number of the entries that StoreLogs has still to append, and the
\* index Raft means for the first of them.
NoBatch == [index |-> 0, term |-> 0, left |-> 0]

Init ==
    /\ log = EmptyLog
    /\ phase = "up"
    /\ lastIndex = 0
    /\ lastTerm = 0
    /\ batch = NoBatch
    /\ snapIndex = 0
    /\ latest = [i \in 1 .. MaxIndex |-> 0]
    /\ stored = {}
    /\ cut = FALSE
    /\ restarts = 0

-----------------------------------------------------------------------------
(* The main goroutine of Raft.                                              *)

\* Raft, as leader or as follower, has n entries of some term to store behind
\* its last one.
Store(n, term) ==
    /\ phase = "up" /\ batch = NoBatch
    /\ lastIndex + n <= MaxIndex
    /\ term >= lastTerm
    /\ batch' = [index |-> lastIndex + 1, term |-> term, left |-> n]
    /\ UNCHANGED <<log, phase, lastIndex, lastTerm, snapIndex, latest, stored, cut,
                   restarts>>

\* One turn of the loop of StoreLogs: Append, whose HighestOffset panics when
\* the list of segments is empty.  When all are stored Raft moves its last index;
\* when Append has no room in the index, StoreLogs returns its error.
StoreNext ==
    LET h    == HighestOffset(log)
        done == batch.left = 1
    IN  /\ phase = "up" /\ batch # NoBatch
        /\ IF log.segments = <<>>
           THEN /\ phase' = "dead"
                /\ UNCHANGED <<log, lastIndex, lastTerm, batch, latest, stored, cut>>
           ELSE /\ phase' = phase
                /\ log' = AppendLocked(log, h, batch.term, EntryLen)
                /\ IF IndexMaxed(AppendTarget(log, h))
                   THEN /\ batch' = NoBatch /\ cut' = TRUE
                        /\ UNCHANGED <<lastIndex, lastTerm, latest, stored>>
                   ELSE /\ batch' = IF done THEN NoBatch
                                    ELSE [batch EXCEPT !.index = @ + 1, !.left = @ - 1]
                        /\ lastIndex' = IF done THEN batch.index ELSE lastIndex
                        /\ lastTerm' = IF done THEN batch.term ELSE lastTerm
                        /\ latest' = [latest EXCEPT ![batch.index] = batch.term]
                        /\ stored' = stored \cup {[index |-> batch.index,
                                                   term  |-> batch.term]}
                        /\ cut' = cut
        /\ UNCHANGED <<snapIndex, restarts>>

\* The disk fails when Append opens the files of a new segment, some of which it
\* may leave behind.  StoreLogs returns the error and takes nothing back; Raft
\* keeps its last index, and goes on.  (Bound: while nothing else has gone wrong.)
StoreFails ==
    /\ phase = "up" /\ batch # NoBatch
    /\ ~cut
    /\ log.segments # <<>> /\ IsMaxed(Last(log.segments))
    /\ \E files \in {log.files} \cup CutAppends(log) :
           log' = [files |-> files, segments |-> log.segments]
    /\ batch' = NoBatch
    /\ cut' = TRUE
    /\ UNCHANGED <<phase, lastIndex, lastTerm, snapIndex, latest, stored, restarts>>

\* A base that setup opened twice spoils a Truncate that removes one of its two
\* segment objects or both: the second removal fails, because the files are gone,
\* or the other object, perhaps not the active one, goes on without its files.  So
\* does one that removes a segment from behind one that stays, which TruncateLog
\* does not describe; no run comes to it.
Spoils(l, lowest) ==
    \E i, j \in DOMAIN l.segments :
        /\ i # j
        /\ \/ l.segments[i].base = l.segments[j].base
           \/ j < i /\ ~(l.segments[j].next <= lowest + 1)
        /\ l.segments[i].next <= lowest + 1

\* Mutant: the other end of the range goes to Truncate.
DeleteRangeToMin(min, max) ==
    /\ log' = IF Spoils(log, min) THEN log ELSE TruncateLog(log, min)
    /\ phase' = IF Spoils(log, min) THEN "stuck" ELSE "up"

\* DeleteRange(min, max) is Truncate(max).  What is done with a spoilt log is
\* not modelled.
DeleteRange(min, max) ==
    /\ log' = IF Spoils(log, max) THEN log ELSE TruncateLog(log, max)
    /\ phase' = IF Spoils(log, max) THEN "stuck" ELSE "up"

\* A follower finds another term at index i than its leader has: it clears its
\* entries from i on and stores those of the leader.  (Bound: the log has not
\* grown past MaxIndex, as it may once offsets run ahead of indices.)
ReplaceSuffix(i, term, n) ==
    /\ phase = "up" /\ batch = NoBatch
    /\ i \in snapIndex + 1 .. lastIndex
    /\ i + n - 1 <= MaxIndex
    /\ Readable(log, i) /\ ReadLog(log, i).rec.id < term
    /\ HighestOffset(log) <= MaxIndex
    /\ DeleteRange(i, lastIndex)
    /\ batch' = IF phase' = "stuck" THEN NoBatch
                ELSE [index |-> i, term |-> term, left |-> n]
    /\ UNCHANGED <<lastIndex, lastTerm, snapIndex, latest, stored, cut, restarts>>

-----------------------------------------------------------------------------
(* Other goroutines of Raft.                                                *)

\* GetLog has the side effect of Log.Read.
GetLog(i) ==
    LET k == FindSegment(log, i)
    IN  /\ phase = "up"
        /\ k # 0 /\ i < log.segments[k].next
        /\ log' = FlushSegment(log, k)
        /\ UNCHANGED <<phase, lastIndex, lastTerm, batch, snapIndex, latest, stored,
                       cut, restarts>>

\* A snapshot up to index i is complete; entries up to i are deleted, but for
\* the last TrailingLogs ones, if FirstIndex says there are any.  FirstIndex
\* panics when the list of segments is empty.
Compact(i) ==
    LET max == Min({i, lastIndex - TrailingLogs})
    IN  /\ phase = "up"
        /\ snapIndex < i /\ i <= lastIndex
        /\ snapIndex' = i
        /\ IF log.segments = <<>> THEN phase' = "dead" /\ UNCHANGED log
           ELSE IF LowestOffset(log) <= max
                THEN DeleteRange(LowestOffset(log), max)
                ELSE UNCHANGED <<log, phase>>
        /\ UNCHANGED <<lastIndex, lastTerm, batch, latest, stored, cut, restarts>>

-----------------------------------------------------------------------------
(* Close or crash, and NewDistributedLog.                                   *)

\* What the server leaves of the directory when it closes the log, or crashes,
\* perhaps inside the append of an entry.
Left(clean) ==
    IF clean THEN {ClosedFiles(log)}
    ELSE {log.files} \cup
             (IF batch = NoBatch \/ log.segments = <<>> THEN {} ELSE CutAppends(log))

\* NewRaft asks for LastIndex and takes index and term of its last entry from what
\* GetLog returns there; then it reads every entry up to that.  It gives up when
\* one cannot be read.  (A server with a snapshot does not get that far: see
\* RestoreRebuilds in Replica.)
Opened(files) ==
    LET l    == Reopened(files)
        last == HighestOffset(l)
        in   == ReadLog(l, last)
    IN  /\ log' = l
        /\ lastIndex' = IF last = 0 THEN 0 ELSE in.rec.offset
        /\ lastTerm' = IF last = 0 THEN 0 ELSE in.rec.id
        /\ phase' = IF /\ last = 0 \/ in.err = ""
                      /\ \A i \in 1 .. lastIndex' : Readable(l, i)
                    THEN "up" ELSE "dead"

\* (Bound: as in ReplaceSuffix.)
Restart(clean) ==
    /\ phase = "up" /\ snapIndex = 0
    /\ clean => batch = NoBatch
    /\ restarts < MaxRestarts
    /\ log.segments # <<>> => HighestOffset(log) <= MaxIndex
    /\ restarts' = restarts + 1
    /\ \E files \in Left(clean) :
          /\ Opened(files)
          /\ cut' = (cut \/ (/\ ~clean /\ files # log.files
                              /\ ~IsMaxed(Last(log.segments))))
    /\ lastIndex' <= MaxIndex
    /\ batch' = NoBatch
    /\ UNCHANGED <<snapIndex, latest, stored>>

Indices == 1 .. MaxIndex

Next ==
    \/ \E n \in 1 .. MaxBatch, term \in 1 .. MaxTerm : Store(n, term)
    \/ StoreNext
    \/ StoreFails
    \/ \E i \in Indices, term \in 1 .. MaxTerm, n \in 1 .. MaxBatch :
           ReplaceSuffix(i, term, n)
    \/ \E i \in Indices : GetLog(i)
    \/ \E i \in Indices : Compact(i)
    \/ \E clean \in BOOLEAN : Restart(clean)

Spec == Init /\ [][Next]_vars

-----------------------------------------------------------------------------
(* Properties.                                                              *)

\* The log is well formed in every life, Raft's last index is within the bounds,
\* and a batch has an index.
TypeOK ==
    /\ log.files \in [DOMAIN log.files -> File]
    /\ log.segments \in Seq(Segment)
    /\ \A s \in Range(log.segments) : s.base \in DOMAIN log.files
    /\ phase \in {"up", "stuck", "dead"}
    /\ lastIndex \in 0 .. MaxIndex /\ lastTerm \in Nat
    /\ batch \in [index : 0 .. MaxIndex, term : 0 .. MaxTerm, left : 0 .. MaxBatch]
    /\ snapIndex \in 0 .. MaxIndex
    /\ latest \in [Indices -> 0 .. MaxTerm]
    /\ stored \subseteq [index : Indices, term : 1 .. MaxTerm]
    /\ cut \in BOOLEAN /\ restarts \in Nat

\* StoreLogs ignores the index of an entry, and yet the offset that Append is
\* about to give it is that index: after rollovers, compactions, batches of which
\* a crash cut off the end, and reopenings alike.  It ends with the first call of
\* StoreLogs that fails half-way in a running server: Raft stores the same indices
\* again, one offset later (distributed.go StoreLogs, LastIndex).
OffsetIsIndex ==
    ~cut /\ phase = "up" /\ batch # NoBatch /\ log.segments # <<>> =>
        AppendTarget(log, HighestOffset(log)).next = batch.index

\* As long as that holds, an entry that GetLog returns has the index it was asked
\* for, and is one that Raft stored there at some time.  It need not be the last
\* one: LastIndex may be too low after a restart, and then Raft stores new entries
\* at indices that the first of two segments with one base still has.  But until
\* the first restart every entry in the log that does not begin a later segment
\* can be read, and is the last one stored at its index (distributed.go GetLog).
GetLogStored ==
    ~cut /\ phase = "up" =>
        /\ \A i \in Indices :
               Readable(log, i) =>
                   LET r == ReadLog(log, i).rec
                   IN  r.offset = i /\ [index |-> i, term |-> r.id] \in stored
        /\ restarts = 0 =>
               \A i \in Stored(log) :
                   \/ \E s \in Range(log.segments) : s.next = i
                   \/ ReadLog(log, i) =
                          [err |-> "", rec |-> [offset |-> i, id |-> latest[i],
                                                len |-> EntryLen]]

\* In every life, and whatever went wrong before, a compaction takes nothing away
\* that is still asked for: an entry behind the snapshot, or one of the trailing
\* ones that slow followers are sent, stays in the log, and where GetLog returned
\* it, GetLog returns the same (distributed.go FirstIndex and DeleteRange, log.go
\* Truncate).  It is about compactions alone.  When a follower replaces a suffix,
\* the same DeleteRange takes the entries in front of the suffix too, so that no
\* segment is left and the next StoreLogs panics: see ReplaceSuffix.
CompactionKeepsNeeded ==
    [][snapIndex' # snapIndex =>
           \A i \in Indices :
               i > snapIndex' \/ i > lastIndex - TrailingLogs =>
                   /\ i \in Stored(log) => i \in Stored(log')
                   /\ Readable(log, i) => ReadLog(log', i) = ReadLog(log, i)]_vars
=============================================================================
