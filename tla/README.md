# Aphros: specifications, model checking and proofs

Aphros is a distributed commit log: a log of records kept in segment files,
replicated by Raft, with Serf for discovery and gRPC for clients. This directory
holds TLA+ modules that model its core, TLC configurations that check them on
small instances, and theorems that TLAPS proves for every instance.

    tlc -workers 2 -config MCLogSingle.cfg MCLog      # one run
    tlapm LogProofs.tla                               # proofs, a few minutes

`PROJECT.json` lists components, runs, hazards, findings and theorems, and maps
each definition to the lines of Go it stands for.

## 1. Inventory

| Component | State | Operations | Hard behaviour | Must hold |
|---|---|---|---|---|
| store (`store.go`) | file, `bufio.Writer`, `size` | Append, Read, ReadAt, Close | bytes counted in `size` are not in the file until someone reads | a frame is read back from the position Append returned |
| index (`index.go`) | mapped file of `MaxIndexBytes`, `size` | Read, Write, IsMaxed, Close | the file has its full length while the process lives, its true one only after Close | entry k describes record k |
| segment (`segment.go`) | store + index, `baseOffset`, `nextOffset` | Append, Read, IsMaxed, Close, Remove | two files and a buffer written at different times | index and store agree record for record |
| Log (`log.go`) | list of segments, `activeSegment`, `mu` | Append, Read, Highest/LowestOffset, Truncate, Reader, Close, Remove, Reset, setup | Append uses two lock sections; setup derives its state from files a crash may have left | offsets unique and gapless; every read returns what was acknowledged; reopening keeps what Close left |
| Raft state machine (`fsm`, `snapshot`, `DistributedLog.Append`) | a Log per server | Apply, Snapshot, Persist, Restore | Persist runs beside Apply; restart replays commands; Restore resets | all servers have the same record at an offset; a snapshot is a prefix; Restore rebuilds |
| Raft log store (`logStore`) | a Log per server, first offset 1 | FirstIndex, LastIndex, GetLog, StoreLogs, DeleteRange | index and offset are equal only by luck of order; `DeleteRange` ignores `min` | GetLog(i) returns the entry stored as i |
| Raft set-up and membership (`setupRaft`, Join, Leave, GetServers) | Raft configuration | as named | Join is a removal and an addition; leader asked once per server | a member that joined is a voter at its address; a list made without an election in between names the leader |
| Serf membership (`discovery`) | members, event channel | eventHandler, Join, Leave | each server sees an event once and only the leader can act on it | every live member is in the Raft configuration in the end |
| gRPC server (`server.go`) | a `CommitLog`, streams | Produce, Consume, ProduceStream, ConsumeStream, authenticate | ConsumeStream polls; Raft may answer with an error and apply all the same | a consumer receives every record, in order, once; a producer is told the true offset |
| in-memory log, HTTP (`server/log.go`, `http.go`) | slice of records | Append, Read, handleProduce, handleConsume | concurrent requests, lost answers | implements the commit log; what was answered is found |
| load balancing (`resolver.go`, `picker.go`) | server list, leader, followers, counter | resolve, Build, Pick | leadership changes between resolutions | produce to a leader, consume from followers in turn |
| agent (`agent.go`) | all of the above, a multiplexer | New, serve, Shutdown | Shutdown from three goroutines, a step that fails, GracefulStop waits for streams | everything opened is closed, once, and not used afterwards; a signal ends the process |
| authorization (`authorizer.go`) | a policy | Authorize | | part of the gRPC server's steps |
| TLS, protobuf, commands | none | | | no state to model |

How they interact: a client calls the gRPC server, which calls `Append` of the
`CommitLog` it was given, the `DistributedLog`. That hands the request to Raft;
Raft stores it with `StoreLogs` in its own `Log`, replicates it and calls
`fsm.Apply` on every server, which appends it to the server's *other* `Log`.
Reads go straight to that second `Log`. Snapshots are read from the `Log`'s
stores by a goroutine of Raft while commands go on being applied. Serf calls
`Join` and `Leave` of the `DistributedLog`. The agent builds all of it and takes
it down.

So one data structure, the segmented `Log`, carries the system twice, and it is
what this project models first and proves about.

## 2. Modules

| Module | Models | Extends |
|---|---|---|
| `SegmentedLog` | store, index, segment and the methods of `Log`, as constant operators on a value `[files, segments]` | |
| `CommitLog` | abstract: what a log promises its callers | |
| `Log` | one `Log` in one process: goroutines that append, readers, a truncating Raft | `SegmentedLog`, instance of `CommitLog` |
| `LogRestart` | one directory and the processes that open it one after the other, closes and crashes | `SegmentedLog` |
| `Replica` | the servers of a cluster as Raft state machines: apply, snapshot, restore, restart | `SegmentedLog` |
| `RaftLogStore` | Raft's log on one server: `logStore` and the calls Raft makes of it, restarts | `SegmentedLog` |
| `Membership` | Serf events, the event handlers, `Join` and `Leave`, Raft's configuration | |
| `LoadBalance` | `GetServers`, the shared Resolver and Picker, the connections of several clients | |
| `Server` | the calls clients make to the gRPC server, over the segmented log | `SegmentedLog` |
| `Agent` | `New`, `serve`, `Shutdown` and the end of the process, composed with the calls in `Server` | `Server` |
| `HttpServer` | the HTTP handlers and the log in memory | instance of `CommitLog` |
| `SegmentedLogProofs` | lemmas about the operators of `SegmentedLog` | `SegmentedLog`, `TLAPS` |
| `LogProofs` | theorems about `Log` alone, and about what it promises its callers | `Log`, `SegmentedLogProofs` |
| `LogRestartProofs` | lemmas about files that outlive a process, theorems about `LogRestart` | `LogRestart`, `SegmentedLogProofs` |
| `ReplicaProofs` | theorems about `Replica` | `Replica`, `SegmentedLogProofs` |
| `RaftLogStoreProofs` | theorems about `RaftLogStore` | `RaftLogStore`, `SegmentedLogProofs` |
| `AgentProofs` | theorems about `Agent` and the calls in `Server` | `Agent`, `SegmentedLogProofs` |
| `MembershipProofs` | theorems about `Membership` | `Membership`, `TLAPS` |
| `ClientProofs` | theorems about `LoadBalance` and about `HttpServer`, whose names differ for that | `LoadBalance`, `HttpServer`, `TLAPS` |
| `MCLog`, `MCLogRestart`, `MCReplica`, `MCRaftLogStore`, `MCMembership`, `MCLoadBalance`, `MCAgent`, `MCHttpServer` | instances for TLC | |

### State and code

`log.files[b]` is the pair of files `b.store`, `b.index`: `store` the frames in
the store file, `slots` the mapped index, `ilen` the length of the index file,
`indexed` whether that file exists yet. `log.segments` is `Log.segments`; its
last element is `activeSegment`. A segment has `base` and `next` (`baseOffset`,
`nextOffset`), `size` and `isize` (the `size` fields of store and index) and
`buf`, the frames in the `bufio.Writer`.

A record is `[offset, id, len]`: `id` names the call that made it and stands for
the payload, `len` is the payload's length. Byte positions are exact, since
segments fill and index entries point by bytes: `MarshalLen` is the length of the
protobuf encoding for payloads and offsets below 128, in which a zero field takes
no bytes at all. A read at a position is a look-up of the frame that starts there.

`Log.Append` is two steps, because it calls `HighestOffset` under one lock and
appends under another; `pc`, `call` and `high` are the goroutine's place and
locals. Everything else in `Log` holds the lock throughout and is one step. A
read is a step too: it flushes the store it reads.

In `LogRestart`, setup is a step per segment it opens, so that a crash can fall
between them, and `Interrupted` gives the files that a crash inside `newSegment`
leaves. A crash keeps what reached the kernel (the flushed frames and the mapped
index) and loses the buffers. An append is a step, but a crash may fall inside it
(`CrashInWrite`): `index.Write` stores the offset and then the position into the mapping,
and `TornEntry` is what lies there between the two, an entry with its offset and position
0. `CutAppends` are the directories that an append cut off anywhere leaves; the history
`torn` has the offsets whose entries a crash tore.

In `Replica`, Raft is external and appears as its calls: one order of committed
commands, `Apply` of each in that order, `Snapshot` in the same goroutine,
`Persist` in another, `Restore` at a start with a snapshot or when the leader
sends one. `Persist` is a step per store, as `io.MultiReader` moves from one
segment's reader to the next. A server whose `Restore` failed goes no further
("failed"): its log is closed and its directory gone.

In `RaftLogStore`, `log` is the `Log` that `logStore` embeds, and the rest is what Raft
knows: its last index, the batch it is storing, its snapshot. `latest` and `stored` are
history, the entries Raft meant to store. `StoreNext` is one turn of the loop in
`StoreLogs`, so that reads, compactions and crashes fall between two entries of a batch;
`StoreFails` is a disk error while `Append` opens the files of a new segment, after which
Raft counts none of the batch and goes on. A restart may also follow a crash inside an
append (`Left`). The history `cut` says that a call of `StoreLogs` ended in an error, or
that a crash tore an index entry: from there on offsets may run ahead of indices.
A record's `id` is the entry's term. A `Truncate` that meets a base which setup opened
twice fails half-way or takes files away under an object that stays (`Spoils`); the
model stops there ("stuck"). `Restart` reads what `NewRaft` reads, and is "dead" when an
entry cannot be read, which the entry at a segment boundary never can.

In `Membership`, `news[s][m]` is what Serf has still to deliver to server s about member
m, in order, and `handler[s]` is the event handler's place: waiting, inside a call to
Raft, with the error of such a call in hand, or returned. `voters` is Raft's
configuration as the leader uses it, `settled` the last committed one; a new leader
starts from either. `HandleJoin` is `Join` up to its first wait: the look at the
configuration and the request go to Raft one after the other, from the only goroutine
that makes such requests on the leader. `Conflicting` are the voters that `Join` removes
first, those with the member's ID and the one at its address; the removals follow each
other in any order, since Raft gives its configuration in an order of its own, and `left`
are those still to come. So a join can remove another server, running or not, and the
leader itself, when that was started at another address than the configuration has:
`RemovesItself` is the commit of that, upon which its Raft shuts down (`expelled`). A
server starts at any address that no live server has, also at one that another server had
before; the history `tenants` has who was started where. The model begins with the cluster
formed (`Founders`), a state that joins one after the other lead to.

In `LoadBalance`, a connection is known by client, address and the attribute `is_leader`,
as in gRPC's base balancer, and `conns`, `ready`, `serving` are that balancer's.
`resolver` and `picker` exist once: `init` registers one of each for the process.
`GetServer` is one turn of the loop in `GetServers`, which asks for the leader anew each
time. `Built` gives every order of the followers, since `Build` ranges over a map.

In `Server`, `call[s]` is the call client s has open, with the place of its handler:
`recv`, `applying` and `answering` are the calls to Recv, raft.Apply and Send of
`ProduceStream`, `reading` is the loop of `ConsumeStream`, and `refused` says that a read
gave an error that ended the call. A unary call is a stream whose client goes after one
answer. `ConsumeTurn` is one turn of the loop up to a read that finds something: a turn
whose read is out of range changes nothing but, perhaps, what is flushed, and the next
successful one flushes that too. `pending` holds what Raft was given; it is applied,
refused, or, after an error that was answered, either.

`Agent` puts these calls between set-up and shutdown. `stage` is the function of `New`
that comes next, `open` what it has set up and `Shutdown` not yet closed. `at[t]` is the
place of caller t: `waiting` at the lock, then one place for each function of the list
and each step of `DistributedLog.Close`. `GracefulStop` is two steps, since it closes the
listener first, upon which the multiplexer returns and its goroutine comes to the lock
as well, and then waits for the handlers.

In `HttpServer`, a handler is at `append` or `read` when it has decoded its request, at
`encode` when the log has answered. `answered` and `known` are history: what clients have
been told, and what they had been told when a request was sent. A client that hears
nothing and tries again does so over another connection.

Operators whose comment begins with "Mutant:" are not the code. They are slips
one could make in the operator right after them, and each property was seen to
fail with at least one of them in its place.

## 3. Runs

The runs over the segmented log use a store limit of 32 (`agent`: 54) and an index limit of 36 bytes, and payloads of 0
or 11 bytes: frames of 8 to 23 bytes, so that a segment fills by its store after two
to four records or by its index after three, and a few calls give three segments. No
mechanism in the code depends on more: the search looks at a segment and its
predecessors, a rollover at the last segment, an index entry at the frame before.
`InitialOffset` is 0 (1 in `raft_store`, as `setupRaft` has it), the value of the server, which is where a zero offset and an
empty payload make a record of no bytes.

`CHECK_DEADLOCK FALSE` everywhere: the calls are bounded (`MaxCalls`, `MaxCommands`,
`MaxLives`, `MaxCrashes`, `MaxRestarts`, and so on), a panicked process takes no step,
and a system whose clients stop calling may stop.

`Membership` and `Agent` state fairness. `Membership`, for its one liveness property: weak fairness of each
server's event handler, a goroutine that loops over its channel and whose calls to Raft
are answered, and of the step in which a leader that reaches no majority steps down,
which Raft's leader lease forces. Nothing is assumed of elections, starts or failures.
`Agent`: weak fairness of each handler's goroutine, of Raft's answer to each producer
(`raft.Apply` has a timeout, and its future always ends), and of the goroutines inside
`Shutdown` together, of which one holds the lock at a time. Nothing is assumed of clients,
of signals, of the listener or of set-up; `SignalEndsProcess` says in its premise that
clients go in the end, because `GracefulStop` has no time limit.

| Run | Instance | Shows |
|---|---|---|
| `log_single` | one appender, 6 calls, truncations and reads anywhere | `IndexMatchesStore`, `SegmentsInOrder`, `OffsetsUnique`, `AboveFloorKept`; `AckedReadable` that what was acknowledged and is in the log is read as it was, at every offset where `Read` does not break its word (`log_read`, below); `ReadableIsStable` that a readable record stays so until it is truncated; `ImplementsCommitLog` that segments and files implement `CommitLog` |
| `log_pair` | two appenders, 6 calls | with duplicate offsets possible (see below) still no read returns a record not acknowledged under that offset, no record is lost, and none that was readable changes |
| `log_restart` | 5 appends, 3 processes, 2 crashes | reads are right in every life, except at an offset whose index entry a crash tore, where a read gives the first record of the segment or an error; the first reopening after a clean close keeps everything readable; no flushed frame is ever overwritten; a rollover never opens existing files |
| `replica` | 2 servers, 3 commands, 1 restart each, symmetric in the servers | servers in their first life hold the same records at the same offsets; snapshots being persisted beside applies and rollovers are gapless prefixes of what was applied that cover their index |
| `raft_store` | 5 indices, 2 terms, batches of 2, 2 restarts, 1 trailing entry, disk errors | `OffsetIsIndex`: although `StoreLogs` ignores an entry's index, its offset is that index, after rollovers, compactions, batches cut by a crash, and reopenings; `GetLogStored`: what `GetLog` returns was stored under that index, and in the first life last. Both end where a call of `StoreLogs` fails half-way or a crash tears an entry (`cut`). `CompactionKeepsNeeded`: no compaction, in any life and after any error, takes what Raft may still ask for |
| `membership` | 3 servers of which 2 are founders, 3 addresses, 2 starts, 2 departures, 2 leaders | `TypeOK`: no two voters are ever at one address; `FirstLeaderMissesNothing`: a leader in office is never out of date without an event to handle, except about a running member at an address that another server was started at too; `JoinsTakeEffect`: a join that a leader has to handle makes the member a voter at its address, also over a stale entry at another address or of another member, unless that entry is the leader's own |
| `load_balance` | 3 servers, 2 clients, 2 elections, 2 resolutions, counter modulo 4, symmetric | `LastBuilderServed`: the client that built last uses exactly its ready followers, and a ready leader if there is one; `FreshPicks`: a resolution begun after the last election corrects every stale or doubled leader; `ConsumeInTurn` |
| `agent` | 1 producer, 1 consumer that starts at 0 or 1, two subjects of which one is permitted, a log that holds an empty and a full record, 2 more records, segments of three, all three callers of `Shutdown` | `StreamsAgree`: what a consumer was sent is the run of the log's records from its offset on, and a producer's answer is where its record is; `NoUseAfterClose`, `ShutdownFindsAll`: the orders of `Shutdown` and `New` hold for every order of callers and clients; `NilMeansClosed`: nil means closed and stored, unless another caller was told of an error; `ConsumerCatchesUp`, `SignalEndsProcess`: liveness |
| `http` | 3 connections, 2 values, 2 records, offsets 0 to 2 in requests | `AnswersAgree`: what a client was told is found by every later request, offsets follow the order of the answers; `ImplementsCommitLog` |

Three servers are the least with a majority that survives one departure, which the stale
entry of `JoinsTakeEffect` needs, and the least with two followers to take turns; one
election is what makes an event or a resolution stale, a second one doubles it. Five
indices are a full segment and one that fills. Three addresses are one for each server, so
that one that comes back has its own, a fresh one, or that of a server that is down to come
back at. A member whose news reach no
leader is not covered by `JoinsTakeEffect`, and cannot be: all servers drop the event.

In `agent`, four records of which the first three fill a segment give the one record that a
read refuses behind an empty one that it refuses too, so that `ConsumerCatchesUp` has
consumers that start before, at and behind unreadable records, and a rollover while they
read. One producer and one consumer suffice: each handler touches the log and its own
call only. In `http`, three connections are the least for a POST that is answered, one
that is not and a request behind both.

Three lives are the least that show the second reopening, two crashes the least with a
crash of a recovered log; two servers suffice where every property relates a server
to the commands, or a pair of servers. Truncation is modelled for one appender only:
the one log that is truncated is Raft's, to which one goroutine appends.

### Where code and documentation part

Each of these runs checks one property that a comment or a test states and TLC refutes
from the code.

| Run | Property | What happens |
|---|---|---|
| `log_pair_offsets` | `OffsetsUnique` | both goroutines read highest offset h; one appends several records, the other then finds the segment full and starts a new one at h + 1. Only a `Log` used without Raft is exposed |
| `replica_restore` | `RestoreRebuilds` | `Reset` deletes the directory and then lists it: Restore fails and the data is gone |
| `log_read` | `AckedCanBeRead` | the search accepts the offset at which a segment ends, so that the record that begins the next segment is looked for in the one before and refused. A consumer that reaches it asks for it for ever, which is the exception in `ConsumerCatchesUp` |

Other disagreements have no run of their own. The models have what the code does, and the
properties do not claim what the text says:

- `Snapshot` returns "a point-in-time snapshot of the FSM's state" (`distributed.go:313`),
  but `Persist` reads every store to its end, when it comes to it: commands applied after
  `Snapshot` are in the snapshot whose index is below them. `SnapshotIsPrefix` claims less
  than the text, that a snapshot has every command up to its index, in order, each once,
  and no gap behind it.
- `DeleteRange` is for entries from min to max, and ignores min (`distributed.go:435-437`).
  When Raft replaces a conflicting suffix, `Truncate` therefore takes every segment that
  ends in it or before, with all earlier entries, no matter whether a snapshot covers them:
  in the first life the log is empty and the next `StoreLogs` panics. `ReplaceSuffix` has
  this; `CompactionKeepsNeeded` is about compactions only.
- A call of `StoreLogs` that fails has stored part of its batch (`distributed.go:423`), of
  which Raft knows nothing: `StoreFails`, and the premise `~cut`.
- setup "initializes the Log by reading existing segment files" (`log.go:64`), but opens
  each base twice, once for each file name (`log.go:87`). The second object takes its size
  from an index already grown to its maximum (`index.go:43`), and its Close leaves the index
  at that length: after two reopenings records are unreadable, and the highest offset after
  one is right only when the last segment has one record, as in `log_test.go`.
  `FirstReopenKeepsReadable` says how much is kept, and `FlushedForEver` that the frames
  themselves never go.
- A leave event of the local member is "ignored" (`membership.go:86-87`), but eventHandler
  returns (`membership.go:102`): `HandleOwnLeave`.

And some things are as the code has them, with no text against it: a crash loses
acknowledged records that are still in a user-space buffer; a restarted server applies
commands again behind the records its log kept; an index entry torn by a crash gives the
first record of the segment under another offset; and a join that is handled late takes a
running server at the same address out of the configuration, for good.

## 4. Proofs

`SegmentedLogProofs` holds what the proofs about the log and about Raft's log share.
`GoodLog(l, recs)` says that the log value `l` is well formed: each segment `Consistent`
with its files and made of records of `recs`, the list ordered, the directory exact. One
lemma per operation says that it keeps `GoodLog` and what it does to the offsets stored
(rollover, append to a segment, both halves of `Append` together, flush, truncation), and
two say what a read of a good log returns: a stored record that does not begin a later
segment is found and decoded (`ReadStored`), and whatever a read returns is a record stored
under the offset it asked for (`ReadGood`).

Two groups of lemmas there serve the modules that restart, snapshot and close logs.

*Loops.* `FoldLeft` and `FlattenSeq` choose a function that satisfies a recursion, and
what they give is known only once such a function is known to exist. The induction that
shows it goes over a set of numbers: a set of naturals that does not hold all of them has a
least element outside (`MinIsLeast`), so that no theorem with an operator as parameter is
needed. `ClosedStepByStep` and `GoodClosed` say so what the loop in `Log.Close` leaves, one
segment after the other, and `AppliedStepByStep` in `AgentProofs` what the records applied
before the start do.

*Logs in any life.* `GoodLog` is lost when a process crashes: setup opens each base twice
and takes sizes from files that were grown or cut. `SoundLog(l)` is what every operation
keeps all the same, restarts included: segments and files have their types, positions in a
buffer are in order and within `size`, every base has its files, and no operation loses the
last frame of a segment (`HasFrames`).

`LogProofs` proves for `Log`, for all segment sizes, initial offsets, payloads and
numbers of calls:

| Theorem | Statement |
|---|---|
| `TypeCorrect` | `SingleAppender => (Spec => []TypeOK)` |
| `IndexAgrees` | the same for `IndexMatchesStore` |
| `SegmentsOrdered` | `SegmentsInOrder` |
| `ReadsAreAcked` | `ReadYieldsAcked` |
| `UniqueOffsets` | `OffsetsUnique` |

Assumptions: `ConfigAssumption` (an index holds at least one entry: with less, every
segment is full at birth), `CallerAssumption` (lengths and bounds are naturals) and
`SingleAppender`. The last is what Raft gives both logs of a server: one goroutine
calls `StoreLogs`, one calls `Apply`. Without it `OffsetsUnique` is false, as
`log_pair_offsets` shows.

The argument. None of the five is inductive alone. That a read is right needs index,
buffer and file to agree byte for byte, including that frames do not overlap; that a
rollover starts at a fresh offset needs the segments to be ordered *and* the highest
offset an appender read before its second lock to be still the highest; and that
offsets are unique needs every acknowledged offset to lie below the end of the log,
even when a truncation has removed all segments. The inductive invariant `IInv` is the
conjunction of these: `CallersOK` (types of the goroutines' locals), `GoodLog` (the
log is well formed, each segment `Consistent`, the list ordered, the directory exact),
`HighIsFresh`, `AckedBelowEnd` and `OffsetsUnique`. One lemma per action says that it keeps
`IInv`, by the lemma on the operation it performs, and reads are right by `ReadGood`.

Its second part is about what the log promises its callers, under the same assumptions:

| Theorem | Statement |
|---|---|
| `NothingLost` | `SingleAppender => (Spec => []AboveFloorKept)` |
| `StoredIsRead` | the same for `AckedReadable` |
| `ReadsAreStable` | `ReadableIsStable`, an action property |
| `Refinement` | `Spec => ImplementsCommitLog`: segments, indexes, stores and buffers implement `CommitLog` |

Its invariant `KInv` adds to `IInv` that every acknowledged record above the floor is in
the segments with its payload (`Kept`), that the floor lies below the end, so that a
truncation of everything loses no offset (`FloorBelowEnd`), and that an append in flight
carries the payload it will store (`CallsInFlight`). The refinement maps the log to the
function from stored offsets to payloads; the second half of an append is the abstract
append, a truncation the abstract compaction or a stutter, everything else a stutter.

`LogRestartProofs` proves for `LogRestart`, for all segment sizes, initial offsets, payloads and
numbers of appends, processes and crashes:

| Theorem | Statement |
|---|---|
| `TypeCorrect` | `Spec => []TypeOK` |
| `ReadsYieldAcked` | `Spec => []ReadYieldsAcked` |
| `FirstReopenKeeps` | `Spec => []FirstReopenKeepsReadable` |
| `FramesStay` | `Spec => FlushedForEver`, an action property |
| `RolloversCreate` | `Spec => RolloverCreates`, an action property |

The argument. What lasts from one process to the next is the directory. In the invariant
(`Stands(N)`), `N[b]` index entries are *written* for the base `b`: the first of them point at the
frames in the store file, one after the other and with consecutive offsets; those behind, whose
frames a crash took with the buffer, point behind the end of the file; all other slots are
zeros; and the index file is as long as its entries or, when nobody closed it, as its mapping
(`Written`). A frame that is flushed late may therefore be appended nowhere else than where its
entry points. A crash inside `index.Write` leaves one more entry behind these, with its offset
and position 0; it is the last one for good, since nothing is appended to an old file
(`torn`, `OnlyTorn`).

A segment object over such a file is one of two kinds. It is `Live` when setup found no index
file, so that its counters, buffer and file agree as in a good log; then no other object has
its base (`Alone`). Or it comes from an old file (`Again`): nothing is buffered, and what it
counts is the truth, or what a mapping of full length looks like (`Counts`), namely a full
index whose last entry gives some offset at or below the end, or zeros for the base. An append goes to the last object,
and rolls over first if that one is full; `Ready` says that the last object is live or full, and
that no file has a base above its own. That holds because setup opens every old base twice: the
first opening makes the index file as long as the mapping, so that the second counts a full one
(`ToOpen`, for the bases still to open). Thus no old file is ever appended to, which gives
`FlushedForEver` and, with the bases being the highest, `RolloverCreates`. A read finds an entry
of zeros, an entry behind the end of the store, a written one, or a torn one. A written one
yields the record that was acknowledged under the offset, a torn one the frame at position 0,
which is the first record of the base (`LifeRead`).

For `FirstReopenKeepsReadable` three stages are followed. In the first process the log is good,
and `Close` leaves every readable record under one base whose index has its entry and exactly
its length, while the object of any base below stops short of it by one offset at least
(`SavedAs`). In the second, a record waits until setup has come to its base, with every object
made so far missing its offset (`Waits`); then the *first* of the two objects of the base, made
from the exact length, is the first in the list to cover the offset (`Keeps`), and objects that
come later are behind it in the search.

`ReplicaProofs` proves for `Replica`, for all segment sizes, servers, commands, payloads and
numbers of restarts:

| Theorem | Statement |
|---|---|
| `TypeCorrect` | `Spec => []TypeOK` |
| `ReplicasStayEqual` | `Spec => []ReplicasAgree` |
| `SnapshotsArePrefixes` | `Spec => []SnapshotIsPrefix` |

The invariant has two halves. For a server in its first life, the log is good with exactly
the records of the commands it applied, at the offsets from `InitialOffset` on
(`LogIsPrefix`); what `Persist` has read is a prefix of those, the stores it has still to
read are consecutive, the first starts where the records read so far end, and the last
reaches the snapshot's index (`WorkIsPrefix`). Segments of a good log lie end to end, so that
reading store after store while `Apply` appends and rolls over leaves no gap. For any life,
the log is sound and open (`LogOpen`), and a server that has applied something holds a frame
(`AppliedLeavesFrame`), which a snapshot in progress finds (`WorkFindsFrame`); a snapshot
is therefore never empty (`SnapshotHasRecords`), `Restore` always meets its first record,
calls `Reset` and fails. Without that half `TypeOK` is not inductive: a `Restore` that met no
record would go on with the log it found.

`RaftLogStoreProofs` proves for `RaftLogStore`, for all segment sizes, batches, terms and
numbers of trailing entries:

| Theorem | Statement |
|---|---|
| `TypeCorrect` | `Spec => []TypeOK`, in every life of the server |
| `CompactionIsSafe` | `Spec => CompactionKeepsNeeded`, an action property, in every life |
| `IndexIsKept` | `Spec => [](restarts = 0 => OffsetIsIndex)` |
| `EntriesAreRight` | `Spec => [](restarts = 0 => GetLogStored)` |

The first two hold whatever disk errors, crashes and restarts came before. The log is sound
(`Typed`), and a `Truncate` that is not spoilt (`Spoils`) leaves every segment that reaches
beyond its bound: `TruncateLeaves` relates the lists before and after, for logs whose
segments may share a base.

The other two are about the first life, as long as no call of `StoreLogs` has failed
(`Undisturbed`). Their invariant says that the end of the log follows Raft's last index or,
while a batch is in progress, the entry that comes next in it; that Raft stored nothing at
or above the end; that what it or a slow follower may still ask for is stored (`EndAgrees`);
and that the log is good with the records Raft stored last (`Current`). A suffix is replaced
by way of an empty log, whose next append kills the server, so that no index is ever
overwritten in this life, and no `Truncate` is spoilt because every base is open once
(`NeverSpoilt`). After a restart these properties depend on which records the second object
of a base covers, and on what `Truncate` makes of the two; they stay with TLC.

`MembershipProofs` proves for `Membership`, for all servers, addresses and bounds:

| Theorem | Statement |
|---|---|
| `TypeCorrect` | `Spec => []TypeOK` |
| `MissesNothing` | `Spec => []FirstLeaderMissesNothing` |

That no two voters share an address is not inductive: `Join` adds its member after several
commits, and the address must still be free then. `Resumable` says that what the handler has
left to remove is exactly what conflicts in the configuration the leader works with, and
`AreHandlers` that nobody else changes that meanwhile. Voters, events and calls only name
addresses that the member was once started at (`IsConfiguration`, `IsQueue`, by the history
`tenants`), which is what makes a member that never shared its address safe from the joins
of others.

`FirstLeaderMissesNothing` is not inductive either: that an event is left to handle helps
only if it says the right thing. `Informed` says that the *last* event the leader has about
a member is what became of the member; that without one the configuration is right, or the
member shares its address; or that the leader is between the removals and the addition of
`Join`, with the member's present address. A member can only change with an event
(`ToldInformed`), and an event is only taken from the queue together with the change it asks
for (`HandledInformed`, `CommittedInformed`).

`ClientProofs` proves for `LoadBalance`, for all finite sets of servers and clients,
all sizes of the counter and all bounds:

| Theorem | Statement |
|---|---|
| `TypeCorrect` | `Spec => []TypeOK` |
| `BuilderServed` | `Spec => []LastBuilderServed` |
| `PicksAreFresh` | `Spec => []FreshPicks` |
| `EveryoneInTurn` | `Spec => []ConsumeInTurn` |

`Served` relates the Picker to the ready connections of its last builder; `AnswersRight`
and `ListsRight` say that what was asked for since the last election is right, while the
call is in progress and once it is in a client's connections; `InTurn` that the last picks
are those of consecutive values of the counter, which are distinct modulo the number of
followers because there are no more of them (`ModDistinct`).

`AgentProofs` proves for `Agent`, for all clients, policies, records and bounds:

| Theorem | Statement |
|---|---|
| `NothingUsedAfterClose` | `Spec => []NoUseAfterClose` |
| `ShutdownComesLast` | `Spec => []ShutdownFindsAll` |
| `TypeCorrect` | `Spec => []TypeOK` |
| `ClientsAgree` | `Spec => []StreamsAgree` |
| `NilIsTrue` | `Spec => []NilMeansClosed` |

The invariant has three parts. The first is about the components: what each place in `New`
has opened (`Opened`), that Raft and the logs close after the gRPC server, which closes
without handlers (`ClosedInOrder`), and what a caller inside `Shutdown` has still to close at
each place, only one being inside (`OneByOne`). That no handler comes back is the lemmas on
`Calmer`: only a new call starts a handler, and the server takes none once it is closed.

The second is about the records: there is a set of them (`HasRecords`) with which the log is
good, each under an offset the log holds and no two under the same offset or id (`Records`);
what Raft may still apply has ids that no record has (`Produced`), though its late answers
make producers go on before it is applied; and all that clients are told is about records of
that set (`Told`). A step either tells nobody anything (`Quiet`), or tells of a record that a
read found or an append has just stored.

The third is about the end: once the log is closed, everything is, nobody is inside
`Shutdown`, and every segment's file has all its records (`Sealed`), which is what closing
one segment after the other comes to (`CloseLogRecords`).

`ClientProofs` also proves for `HttpServer`, for any connections, values, offsets and bound:

| Theorem | Statement |
|---|---|
| `HttpTypeCorrect` | `HttpSpec => []HttpTypeOK` |
| `ClientsAgree` | `HttpSpec => []AnswersAgree` |
| `HttpRefinement` | `HttpSpec => ImplementsCommitLog`: the log in memory implements `CommitLog` |

Its invariant relates answers to the log: a record carries the offset it is stored under,
what a client was told is in the log, and a handler between the log and its answer has what
the log still says. The refinement maps `LogAppend` to the abstract append and every other
step to a stutter.

Except for `SingleAppender` in `LogProofs`, all theorems assume only the named assumptions on
the constants.

Checked by TLC only:

- two appenders (`log_pair`), for which the log is not good: segments may share offsets;
- `OffsetIsIndex` and `GetLogStored` after the first restart. Raft truncates logs that were reopened, and reopens
  logs that were truncated, of which the lemmas in `LogRestartProofs` do not speak. No step of
  these proofs is out of the provers' reach as far as is known; they are not written;
- liveness (`JoinsTakeEffect`, `ConsumerCatchesUp`, `SignalEndsProcess`), which needs ENABLED;
- what the runs refute.

## 5. Not modelled, and why

- Disk errors, but for those in `StoreLogs`, where the code goes on after them (`StoreFails`):
  elsewhere it returns them. There is one `StoreFails` at most, and none after a torn entry.
- The loss of the page cache when the machine loses power: the code never calls fsync.
- The 4096 bytes after which a `bufio.Writer` flushes by itself. A flush changes only
  where frames are, and reads flush at arbitrary moments in the model.
- The field `type` of a record, and `term` outside `RaftLogStore`: no property tells
  them apart.
- Payloads or offsets of 128 and more, whose lengths take longer varints.
- The chunks in which `io.Copy` reads one store: a chunk ends at the end of the file as
  it is then, and the next begins there, so that only the last, which sees the end of
  file, matters to what is read.
- What a server does after its `Restore` has failed: it goes on with a closed log and an
  unmapped index.
- A log after a `Truncate` that failed half-way, and a server with a snapshot that
  restarts: its `Restore` fails (`replica_restore`).
- Serf's update events, which the handler ignores, and two live servers at one address,
  of which only one can listen.
- The gap between `GetConfiguration` and `RemoveServer` or `AddVoter` in `Join`.
- The goroutine of Serf that blocks when a handler has returned.
- In `LoadBalance`, changes of the configuration, and a server that is asked but does not
  know what the others know: `leader` is that server's view.
- In `Agent`, messages between Raft's servers, and reads of a consumer that the log of this
  server has not got yet because it lags: they are reads out of range like others.
- A second failure of `Shutdown`'s steps by a panic, and what `New` leaves open when it fails:
  the process ends.
- The flags and the configuration file of `cmd/aphros`. (`setupConfig` looks the model file up as
  `acl-mode-file`, a key that no flag has.)
- Stream layer, TLS and generated code: I/O or stateless.

## 6. Plan

Written: `SegmentedLog`, `Log` and `CommitLog` with `SegmentedLogProofs` and `LogProofs`;
`LogRestart` with `LogRestartProofs`; `Replica` with `ReplicaProofs`; `RaftLogStore` with `RaftLogStoreProofs`;
`Membership` with `MembershipProofs`; `LoadBalance` and `HttpServer` with `ClientProofs`;
`Server` and `Agent` with `AgentProofs`.

Left:

1. The theorems of `RaftLogStore` after a restart, from the invariant of `LogRestartProofs`: a
   lemma for `Truncate`, which removes the files of both objects of a base, and a relation
   between Raft's indices and what each object counts.
2. A log whose `Truncate` failed half-way (section 5), which needs segments that are
   closed and still listed.
