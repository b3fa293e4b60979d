------------------------------ MODULE Replica ------------------------------
(***************************************************************************)
(* The servers of a cluster as state machines of Raft (fsm and snapshot in *)
(* internal/log/distributed.go): each applies the committed commands to    *)
(* its own Log, takes snapshots of it, and restores them.                  *)
(*                                                                         *)
(* Raft is a library.  It is modelled by its calls: it hands every server  *)
(* the committed commands in one order, from the start or, after a         *)
(* snapshot was restored, from behind the index of the snapshot.  It calls *)
(* Apply, Snapshot and Restore of one server from one goroutine, and       *)
(* Persist from another.  A restarted server is handed the commands again, *)
(* from its own Raft log or, where that lost them, by the leader.          *)
(***************************************************************************)
EXTENDS SegmentedLog

CONSTANTS Servers,
          PayloadLens,    \* the payload lengths of the commands
          MaxCommands,    \* bound: number of committed commands
          MaxRestarts     \* bound: restarts of each server

ASSUME ClusterAssumption ==
    /\ PayloadLens \subseteq Nat
    /\ MaxCommands \in Nat /\ MaxRestarts \in Nat

VARIABLES committed,  \* the payload lengths of the committed commands, in order
          log,        \* log[s]: the Log of server s
          phase,      \* phase[s]: "up", or "failed" after an error of Restore
          applied,    \* applied[s]: number of commands Raft has applied
          snap,       \* snap[s]: the last finished snapshot
          work,       \* work[s]: the snapshot being persisted
          restarts    \* restarts[s]: how often s was restarted

vars == <<committed, log, phase, applied, snap, work, restarts>>

NoSnapshot == [index |-> 0, recs |-> <<>>]

\* todo are the segments whose stores the io.MultiReader has still to read.
NoWork == [index |-> 0, todo |-> <<>>, recs |-> <<>>, busy |-> FALSE]

Init ==
    /\ committed = <<>>
    /\ log = [s \in Servers |-> EmptyLog]
    /\ phase = [s \in Servers |-> "up"]
    /\ applied = [s \in Servers |-> 0]
    /\ snap = [s \in Servers |-> NoSnapshot]
    /\ work = [s \in Servers |-> NoWork]
    /\ restarts = [s \in Servers |-> 0]

-----------------------------------------------------------------------------
(* DistributedLog.Append and the state machine.                             *)

\* DistributedLog.apply hands the request to raft.Apply, and Raft commits it.
Commit(len) ==
    /\ Len(committed) < MaxCommands
    /\ committed' = Append(committed, len)
    /\ UNCHANGED <<log, phase, applied, snap, work, restarts>>

\* fsm.Apply: the next command goes through Log.Append, whose offset is the
\* response.  Only this goroutine appends, so both locks of Append are taken
\* with nothing in between.
Apply(s) ==
    LET id == applied[s] + 1
        h  == HighestOffset(log[s])
    IN  /\ phase[s] = "up"
        /\ applied[s] < Len(committed)
        /\ log' = [log EXCEPT ![s] = AppendLocked(@, h, id, committed[id])]
        /\ applied' = [applied EXCEPT ![s] = id]
        /\ UNCHANGED <<committed, phase, snap, work, restarts>>

-----------------------------------------------------------------------------
(* Snapshots.                                                               *)

\* fsm.Snapshot calls Log.Reader: a reader for the store of each segment in
\* the list at this moment.  Raft notes the index of the last applied command.
Snapshot(s) ==
    /\ phase[s] = "up"
    /\ ~work[s].busy
    /\ applied[s] > snap[s].index
    /\ work' = [work EXCEPT ![s] =
                   [index |-> applied[s], recs |-> <<>>, busy |-> TRUE,
                    todo  |-> [i \in DOMAIN log[s].segments |-> i]]]
    /\ UNCHANGED <<committed, log, phase, applied, snap, restarts>>

StoredRecords(frames) == [k \in DOMAIN frames |-> frames[k].rec]

\* Persist, one store: io.Copy calls originReader.Read, which flushes, until
\* the end of the file.  Commands are applied between two of these steps.
PersistStore(s) ==
    LET i == Head(work[s].todo)
        l == FlushSegment(log[s], i)
        f == l.files[l.segments[i].base]
    IN  /\ phase[s] = "up"
        /\ work[s].todo # <<>>
        /\ log' = [log EXCEPT ![s] = l]
        /\ work' = [work EXCEPT ![s].todo = Tail(@),
                                ![s].recs = @ \o StoredRecords(f.store)]
        /\ UNCHANGED <<committed, phase, applied, snap, restarts>>

\* sink.Close: the snapshot replaces the one before (retain = 1).
PersistDone(s) ==
    /\ work[s].busy
    /\ work[s].todo = <<>>
    /\ snap' = [snap EXCEPT ![s] = [index |-> work[s].index,
                                    recs  |-> work[s].recs]]
    /\ work' = [work EXCEPT ![s] = NoWork]
    /\ UNCHANGED <<committed, log, phase, applied, restarts>>

\* A store that Restore closed in the meantime cannot be read: sink.Cancel.
PersistCancel(s) ==
    /\ phase[s] = "failed"
    /\ work[s].todo # <<>>
    /\ work' = [work EXCEPT ![s] = NoWork]
    /\ UNCHANGED <<committed, log, phase, applied, snap, restarts>>

-----------------------------------------------------------------------------
(* Restore.                                                                 *)

\* setup opens everything the directory holds; os.ReadDir fails when there is
\* no directory.
Setup(files, exists) ==
    IF exists THEN [err |-> "", log |-> Reopened(files)]
    ELSE [err |-> "NotExist", log |-> [files |-> files, segments |-> <<>>]]

\* Reset calls Remove, which deletes the directory with os.RemoveAll, and then
\* setup, which does not make it again.
Reset(l) == Setup([b \in {} |-> NoFile], FALSE)

\* Restore reads record after record, and resets the log at the first.  (The
\* InitialOffset it sets before the reset is only looked at when setup has
\* read the directory.)
Restore(l, recs) ==
    LET AppendOne(m, r) == AppendLocked(m, HighestOffset(m), r.id, r.len)
        reset == Reset(l)
    IN  IF recs = <<>> THEN [err |-> "", log |-> l]
        ELSE IF reset.err # "" THEN reset
        ELSE [err |-> "", log |-> FoldLeft(AppendOne, reset.log, recs)]

\* Server s with log l after Raft had it restore the snapshot sn.
Restored(s, l, sn) ==
    LET res == Restore(l, sn.recs)
    IN  /\ log' = [log EXCEPT ![s] = res.log]
        /\ phase' = [phase EXCEPT ![s] = IF res.err = "" THEN "up" ELSE "failed"]
        /\ applied' = [applied EXCEPT ![s] = sn.index]

\* The leader t sends its snapshot to a server whose log ends before it.
InstallSnapshot(s, t) ==
    /\ phase[s] = "up" /\ phase[t] = "up"
    /\ applied[s] < snap[t].index
    /\ Restored(s, log[s], snap[t])
    /\ snap' = [snap EXCEPT ![s] = snap[t]]
    /\ UNCHANGED <<committed, work, restarts>>

\* What a server leaves of its log directory when it closes the log, or crashes,
\* perhaps inside the append of a command.
Left(s, clean) ==
    IF clean THEN {ClosedFiles(log[s])}
    ELSE {log[s].files} \cup
             {files \in CutAppends(log[s]) : applied[s] < Len(committed)}

\* A crash, or DistributedLog.Close, and NewDistributedLog: the log directory
\* is opened again with what it holds, then raft.NewRaft restores the last
\* snapshot, if there is one, and starts to apply behind it.
Restart(s, clean) ==
    /\ phase[s] = "up"
    /\ restarts[s] < MaxRestarts
    /\ restarts' = [restarts EXCEPT ![s] = @ + 1]
    /\ \E files \in Left(s, clean) : Restored(s, Setup(files, TRUE).log, snap[s])
    /\ work' = [work EXCEPT ![s] = NoWork]
    /\ UNCHANGED <<committed, snap>>

Next ==
    \/ \E len \in PayloadLens : Commit(len)
    \/ \E s \in Servers : \/ Apply(s)
                          \/ Snapshot(s) \/ PersistStore(s)
                          \/ PersistDone(s) \/ PersistCancel(s)
    \/ \E s, t \in Servers : InstallSnapshot(s, t)
    \/ \E s \in Servers, clean \in BOOLEAN : Restart(s, clean)

Spec == Init /\ [][Next]_vars

-----------------------------------------------------------------------------
(* Properties that hold.                                                    *)

\* Every server is in one of its two phases and has applied a prefix of the
\* committed commands; a snapshot is about such a prefix too.
TypeOK ==
    /\ committed \in Seq(PayloadLens)
    /\ \A s \in Servers :
          /\ log[s].segments \in Seq(Segment)
          /\ log[s].files \in [DOMAIN log[s].files -> File]
          /\ phase[s] \in {"up", "failed"}
          /\ applied[s] \in 0 .. Len(committed)
          /\ snap[s].index \in 0 .. Len(committed)
          /\ work[s].index \in 0 .. Len(committed)
          /\ restarts[s] \in 0 .. MaxRestarts

FirstLife(s) == restarts[s] = 0 /\ phase[s] = "up" /\ applied[s] > 0

\* The records of a log, in the order of its segments.
Records(l) ==
    FlattenSeq([i \in DOMAIN l.segments |->
        LET s == l.segments[i]
        IN  StoredRecords(l.files[s.base].store \o s.buf)])

\* The record the n-th command makes.
RecordOf(n) == [offset |-> InitialOffset + n - 1, id |-> n, len |-> committed[n]]

\* Servers that were never restarted hold the same records at the same
\* offsets, as far as they have applied: snapshots, which flush the stores
\* while commands are applied, leave no trace in the log, and a rollover comes
\* at the same command everywhere (fsm.Apply, Log.Append).
ReplicasAgree ==
    \A s \in Servers : FirstLife(s) =>
        Records(log[s]) = [n \in 1 .. applied[s] |-> RecordOf(n)]

\* What is being persisted, and then the snapshot, is always a prefix of the
\* commands applied so far, with no gap and no record twice, whatever is applied,
\* flushed or rolled over meanwhile, and a finished snapshot has every command up
\* to its index (snapshot.Persist, originReader.Read, Log.Reader).  It is not "a
\* point-in-time snapshot of the FSM's state" (distributed.go:313): Persist reads
\* every store to its end, so that a command applied after Snapshot may be in it.
\* Only where none was applied until Persist ended is its index the exact one.
SnapshotIsPrefix ==
    \A s \in Servers : FirstLife(s) =>
        /\ \A recs \in {work[s].recs, snap[s].recs} :
              /\ Len(recs) <= applied[s]
              /\ recs = [n \in 1 .. Len(recs) |-> RecordOf(n)]
        /\ snap[s].index <= Len(snap[s].recs)

-----------------------------------------------------------------------------
(* A property the documentation states.                                     *)

\* "This method is typically used during Raft snapshot restoration to rebuild
\* the distributed log's state" (distributed.go:339-340): it does not fail.
RestoreRebuilds == \A s \in Servers : phase[s] = "up"
=============================================================================
