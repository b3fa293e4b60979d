------------------------------- MODULE Server -------------------------------
(***************************************************************************)
(* The calls that clients make to the gRPC server of one agent             *)
(* (internal/server/server.go): each runs in a goroutine of its own, over  *)
(* the DistributedLog, whose Append goes through Raft and whose Read goes  *)
(* straight to the segmented log.  A unary Produce or Consume is a stream  *)
(* whose client goes after the first answer, and a client may call again   *)
(* when its call has ended.                                                *)
(*                                                                         *)
(* Raft is external: what raft.Apply was given is applied to the log, or   *)
(* refused, or, when leadership is lost, answered with an error and        *)
(* applied all the same or not.  The module has the handlers only; Agent   *)
(* says when they may run.                                                 *)
(***************************************************************************)
EXTENDS SegmentedLog

CONSTANTS Producers,    \* the clients that call ProduceStream
          Consumers,    \* the clients that call ConsumeStream
          Subjects,     \* the common names in the clients' certificates
          Anonymous,    \* the subject of a client without a certificate
          Policy,       \* the pairs of subject and action that are permitted
          RecordLens,   \* the payload lengths that are produced
          Starts,       \* the offsets that consumers ask for
          Earlier,      \* the payload lengths of the records there already
          MaxRecords    \* bound: number of records, with those

Clients == Producers \cup Consumers

ASSUME ServerAssumption ==
    /\ Producers \cap Consumers = {}
    /\ RecordLens \subseteq Nat /\ Starts \subseteq Nat
    /\ Earlier \in Seq(Nat)
    /\ MaxRecords \in Nat /\ Len(Earlier) <= MaxRecords

VARIABLES log,      \* the Log of the DistributedLog
          call,     \* call[s]: the call client s has open, and its handler
          pending,  \* what Raft was given and has neither applied nor refused
          calls     \* number of records that were ever produced

serverVars == <<log, call, pending, calls>>

\* at is the place of the handler and there says that the client has not gone;
\* req is what a producer is producing, with its offset once it has one; start
\* is the offset a consumer asked for and sent what it was sent.
NoCall == [at |-> "none", there |-> TRUE, subject |-> Anonymous,
           req |-> NoRecord, start |-> 0, sent |-> <<>>]

\* fsm.Apply of one record: only Raft's goroutine appends, so that nothing comes
\* between the two locks of Append and the segment has room in its index.
Applied(l, id, len) == AppendLocked(l, HighestOffset(l), id, len)

\* The k-th of the records that the cluster has produced before.
AppliedEarlier(l, k) == Applied(l, k, Earlier[k])

\* The agent is a member of a cluster that has produced before.
ServerInit ==
    /\ log = FoldLeft(AppliedEarlier, EmptyLog, [k \in DOMAIN Earlier |-> k])
    /\ call = [s \in Clients |-> NoCall]
    /\ pending = {} /\ calls = Len(Earlier)

\* The handler has begun and not returned.
Running(s) == call[s].at \notin {"none", "refused"}

Returns(s) == call' = [call EXCEPT ![s] = NoCall]

-----------------------------------------------------------------------------
(* The life of a call.                                                      *)

\* The interceptor: the subject is the common name of the certificate that
\* TLS has verified, and empty on a connection without TLS.
authenticate(s, context) ==
    \E name \in Subjects \cup {Anonymous} :
        call' = [call EXCEPT ![s] = [context EXCEPT !.subject = name]]

Authorize(s, action) == <<call[s].subject, action>> \in Policy

Open(s) ==
    /\ call[s].at = "none"
    /\ \/ s \in Producers /\ authenticate(s, [NoCall EXCEPT !.at = "recv"])
       \/ s \in Consumers /\ \E off \in Starts :
              authenticate(s, [NoCall EXCEPT !.at = "reading", !.start = off])
    /\ UNCHANGED <<log, pending, calls>>

\* The client ends the call or its connection breaks.
ClientGoes(s) ==
    /\ call[s].at # "none" /\ call[s].there
    /\ IF Running(s) THEN call' = [call EXCEPT ![s].there = FALSE] ELSE Returns(s)
    /\ UNCHANGED <<log, pending, calls>>

-----------------------------------------------------------------------------
(* ProduceStream.                                                           *)

\* Recv returns a request, and Produce gets as far as raft.Apply.
ProduceRecv(p, len) ==
    /\ call[p].at = "recv" /\ call[p].there /\ calls < MaxRecords
    /\ IF Authorize(p, "produce")
       THEN LET r == [offset |-> 0, id |-> calls + 1, len |-> len]
            IN  /\ calls' = calls + 1
                /\ pending' = pending \cup {r}
                /\ call' = [call EXCEPT ![p].at = "applying", ![p].req = r]
       ELSE Returns(p) /\ UNCHANGED <<calls, pending>>
    /\ UNCHANGED log

\* Recv fails, or Send does, because the client has gone.
ProduceEnds(p) ==
    /\ call[p].at \in {"recv", "answering"} /\ ~call[p].there
    /\ Returns(p)
    /\ UNCHANGED <<log, pending, calls>>

Waits(s, r) == call[s].at = "applying" /\ call[s].req = r

\* Mutant: the answer is the highest offset from before the append.
RaftAppliesAnsweringHigh(r) ==
    /\ r \in pending
    /\ pending' = pending \ {r}
    /\ call' = [s \in Clients |->
           IF ~Waits(s, r) THEN call[s]
           ELSE [call[s] EXCEPT !.at = "answering",
                                !.req.offset = HighestOffset(log)]]
    /\ log' = Applied(log, r.id, r.len)
    /\ UNCHANGED calls

\* Raft applies r: fsm.Apply appends it, and its answer reaches the handler
\* that waits for it, if there still is one.
RaftApplies(r) ==
    /\ r \in pending
    /\ pending' = pending \ {r}
    /\ call' = [s \in Clients |->
           IF ~Waits(s, r) THEN call[s]
           ELSE [call[s] EXCEPT
                    !.at = "answering",
                    !.req.offset = AppendTarget(log, HighestOffset(log)).next]]
    /\ log' = Applied(log, r.id, r.len)
    /\ UNCHANGED calls

\* The future of raft.Apply has an error, for which the handler returns.  What
\* it had proposed is gone (not leader, timeout) or may yet be applied
\* (leadership lost).
RaftFails(p) ==
    /\ call[p].at = "applying"
    /\ Returns(p)
    /\ pending' \in {pending, pending \ {call[p].req}}
    /\ UNCHANGED <<log, calls>>

\* Send of the offset.
ProduceSend(p) ==
    /\ call[p].at = "answering" /\ call[p].there
    /\ call' = [call EXCEPT ![p].at = "recv", ![p].req = NoRecord]
    /\ UNCHANGED <<log, pending, calls>>

-----------------------------------------------------------------------------
(* ConsumeStream.                                                           *)

\* req.Offset, which goes up with every record that is sent.
NextFor(c) == call[c].start + Len(call[c].sent)

\* Read gave r for the next offset: the record is sent, or the error is.
Answered(c, r) ==
    call' = IF r.err = "" THEN [call EXCEPT ![c].sent = Append(@, r.rec)]
                          ELSE [call EXCEPT ![c].at = "refused"]

\* Mutant: an offset out of range ends the stream like any other error.
ConsumeTurnEnding(c) ==
    /\ call[c].at = "reading"
    /\ UNCHANGED <<log, pending, calls>>
    /\ IF call[c].there /\ Authorize(c, "consume")
       THEN Answered(c, ReadLog(log, NextFor(c)))
       ELSE Returns(c)

\* Mutant: the loop does not look at the context of the stream.
ConsumeTurnDeaf(c) ==
    /\ call[c].at = "reading"
    /\ UNCHANGED <<pending, calls>>
    /\ \E off \in {NextFor(c)} : \E r \in {ReadLog(log, off)} :
          /\ r.err # "OffsetOutOfRange"
          /\ log' = FlushSegment(log, FindSegment(log, off))
          /\ IF call[c].there THEN Answered(c, r) ELSE Returns(c)

\* One turn of the loop: the client is gone; or Consume refuses; or the offset
\* is out of range, and the next turn tries again; or Read reached the store,
\* which it flushed.
ConsumeTurn(c) ==
    /\ call[c].at = "reading"
    /\ UNCHANGED <<pending, calls>>
    /\ IF call[c].there /\ Authorize(c, "consume")
       THEN \E off \in {NextFor(c)} : \E r \in {ReadLog(log, off)} :
               /\ r.err # "OffsetOutOfRange"
               /\ Answered(c, r)
               /\ \E i \in {FindSegment(log, off)} : log' = FlushSegment(log, i)
       ELSE Returns(c) /\ UNCHANGED log

-----------------------------------------------------------------------------

\* What the goroutine of a handler does by itself.
HandlerStep(s) ==
    \/ s \in Producers /\ (ProduceEnds(s) \/ ProduceSend(s))
    \/ s \in Consumers /\ ConsumeTurn(s)

\* raft.Apply answers, one way or another.
RaftAnswers(p) == RaftFails(p) \/ RaftApplies(call[p].req)

-----------------------------------------------------------------------------
(* Properties.                                                              *)

\* Every handler is at one of its places, and the log is well formed.
ServerTypeOK ==
    /\ log.files \in [DOMAIN log.files -> File]
    /\ log.segments \in Seq(Segment)
    /\ call \in [Clients -> [at : {"none", "recv", "applying", "answering",
                                   "reading", "refused"},
                             there : BOOLEAN, subject : Subjects \cup {Anonymous},
                             req : Record, start : Starts \cup {0}, sent : Seq(Record)]]
    /\ pending \subseteq Record
    /\ calls \in 0 .. MaxRecords

\* The log holds r, under the offset r has.
Holds(r) ==
    \E i \in DOMAIN log.segments :
        r.offset \in Held(log.segments[i]) /\ RecordIn(log, i, r.offset) = r

\* What a consumer was sent is the run of the log's records from the offset it
\* asked for on, none left out and none twice; and the offset a producer is told
\* is where the log has its record, once.  So producers and consumers agree on
\* every offset, while Raft applies commands, some after their producer was told
\* they failed, segments roll over and every read flushes (server.go
\* ConsumeStream, Produce, distributed.go apply).
StreamsAgree ==
    /\ \A c \in Consumers : \A i \in DOMAIN call[c].sent :
           /\ call[c].sent[i].offset = call[c].start + i - 1
           /\ Holds(call[c].sent[i])
    /\ \A p \in Producers : call[p].at = "answering" =>
           /\ Holds(call[p].req)
           /\ \A off \in Stored(log) :
                  Holds([call[p].req EXCEPT !.offset = off]) => off = call[p].req.offset

\* The log has a record that c asked for, or that comes after it, which has not
\* been sent to c, and Read refuses no record up to that one.
Behind(c) ==
    /\ call[c].at # "none" /\ call[c].there
    /\ Authorize(c, "consume")
    /\ \E last \in Stored(log) :
           /\ last >= NextFor(c)
           /\ \A off \in NextFor(c) .. last : Readable(log, off)
=============================================================================
