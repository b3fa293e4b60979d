----------------------------- MODULE HttpServer -----------------------------
(***************************************************************************)
(* The HTTP server (internal/server/http.go) and the Log in memory that it *)
(* serves (internal/server/log.go).  net/http runs every handler in a      *)
(* goroutine of its own, one at a time for a connection; what handlers     *)
(* share is the Log, whose methods hold its mutex throughout.              *)
(*                                                                         *)
(* A handler decodes the body, calls the Log and encodes the answer, which *)
(* the client receives unless the connection has broken.  A client that    *)
(* then tries again does so over another one.  Log.Append never fails, so  *)
(* that the 500 for it is never sent.                                      *)
(*                                                                         *)
(* The names here are not those of LoadBalance: ClientProofs extends both. *)
(*                                                                         *)
(* The names here are not those of LoadBalance: ClientProofs extends both. *)
(***************************************************************************)
EXTENDS Naturals, Sequences, FiniteSets

CONSTANTS Conns,       \* the connections of clients
          Values,      \* what a record can hold
          NoValue,     \* the Value of a Record that nobody gave one
          Offsets,     \* the offsets that clients put into requests
          MaxRecords   \* bound: length of the log

ASSUME HttpAssumption == NoValue \in Values /\ Offsets \subseteq Nat

VARIABLES records,    \* Log.records
          handler,    \* handler[c]: the handler of c, or the answer it gave
          answered,   \* history: the records whose offset a client was told
          known       \* history: known[c] is answered as it was when c asked

httpVars == <<records, handler, answered, known>>

Record == [value : Values, offset : Nat]

NoRecord == [value |-> NoValue, offset |-> 0]

\* rec is request.Record of a POST and response.Record of a GET, offset the
\* other way round; status is 0 until there is an
\* answer.
Request(place, method, rec, offset, answer) ==
    [at |-> place, method |-> method, rec |-> rec, offset |-> offset, status |-> answer]

NoRequest == Request("client", "GET", NoRecord, 0, 0)

\* newHTTPServer, over NewLog.
HttpInit ==
    /\ records = <<>>
    /\ handler = [c \in Conns |-> NoRequest]
    /\ answered = {}
    /\ known = [c \in Conns |-> {}]

-----------------------------------------------------------------------------
(* A request comes, and the router has chosen its handler by the method.    *)

Asks(c, request) ==
    /\ handler[c].at = "client"
    /\ handler' = [handler EXCEPT ![c] = request]
    /\ known' = [known EXCEPT ![c] = answered]
    /\ UNCHANGED <<records, answered>>

\* The record of a request may come with an offset.
Post(c) ==
    /\ Len(records) + Cardinality({d \in Conns : handler[d].at = "append"}) < MaxRecords
    /\ \E v \in Values, off \in Offsets :
          Asks(c, Request("append", "POST", [value |-> v, offset |-> off], 0, 0))

Get(c) == \E off \in Offsets : Asks(c, Request("read", "GET", NoRecord, off, 0))

\* Mutant: handleProduce does not return after http.Error.
BadRequestGoingOn(c) ==
    Asks(c, Request("append", "POST", NoRecord, 0, 400))

\* The body does not decode.
BadRequest(c) ==
    \E method \in {"POST", "GET"} :
        Asks(c, Request("client", method, NoRecord, 0, 400))

-----------------------------------------------------------------------------
(* The Log.                                                                 *)

\* Mutant: the offset is taken before the lock, and another append comes first.
AppendUnlocked(c) ==
    /\ handler[c].at = "append"
    /\ \E off \in {Len(records) - n : n \in {0, 1} \cap 0 .. Len(records)} :
          /\ records' = Append(records, [handler[c].rec EXCEPT !.offset = off])
          /\ handler' = [handler EXCEPT ![c].at = "encode", ![c].offset = off]
    /\ UNCHANGED <<answered, known>>

\* Mutant: the offset of the request counts, if there is a record already.
AppendAtOffset(c) ==
    /\ handler[c].at = "append"
    /\ LET rec == handler[c].rec
       IN  IF rec.offset < Len(records)
           THEN /\ records' = [records EXCEPT ![rec.offset + 1] = rec]
                /\ handler' = [handler EXCEPT ![c].at = "encode", ![c].offset = rec.offset]
           ELSE /\ records' = Append(records, [rec EXCEPT !.offset = Len(records)])
                /\ handler' = [handler EXCEPT ![c].at = "encode", ![c].offset = Len(records)]
    /\ UNCHANGED <<answered, known>>

\* Log.Append gives the record its offset, whatever it came with.
LogAppend(c) ==
    /\ handler[c].at = "append"
    /\ records' = Append(records, [handler[c].rec EXCEPT !.offset = Len(records)])
    /\ handler' = [handler EXCEPT ![c] =
                    Request("encode", @.method, @.rec, Len(records), @.status)]
    /\ UNCHANGED <<answered, known>>

\* Log.Read, and the 404 for ErrOffsetNotFound.
LogRead(c) ==
    /\ handler[c].at = "read"
    /\ handler' = [handler EXCEPT ![c] =
                    IF @.offset >= Len(records)
                    THEN Request("client", @.method, @.rec, @.offset, 404)
                    ELSE Request("encode", @.method, records[@.offset + 1], @.offset, @.status)]
    /\ UNCHANGED <<records, answered, known>>

\* The answer is encoded and reaches the client.
Encode(c) ==
    /\ handler[c].at = "encode"
    /\ handler' = [handler EXCEPT ![c] = Request("client", @.method, @.rec, @.offset, 200)]
    /\ answered' = IF handler[c].method = "POST"
                   THEN answered \cup {[handler[c].rec EXCEPT !.offset = handler[c].offset]}
                   ELSE answered
    /\ UNCHANGED <<records, known>>

\* The connection has broken: the client hears nothing of what was done.
EncodeFails(c) ==
    /\ handler[c].at = "encode"
    /\ handler' = [handler EXCEPT ![c] = NoRequest]
    /\ UNCHANGED <<records, answered, known>>

HttpNext ==
    \E c \in Conns : \/ Post(c) \/ Get(c) \/ BadRequest(c)
                     \/ LogAppend(c) \/ LogRead(c) \/ Encode(c) \/ EncodeFails(c)

HttpSpec == HttpInit /\ [][HttpNext]_httpVars

-----------------------------------------------------------------------------
(* Properties.                                                              *)

\* Types; and no handler that has given an answer goes on.
HttpTypeOK ==
    /\ records \in Seq(Record)
    /\ handler \in [Conns -> [at : {"client", "append", "read", "encode"},
                           method : {"POST", "GET"}, rec : Record, offset : Nat,
                           status : {0, 200, 400, 404}]]
    /\ answered \subseteq Record
    /\ known \in [Conns -> SUBSET answered]
    /\ \A c \in Conns : handler[c].status # 0 => handler[c].at = "client"

\* Clients agree on the log, whatever other handlers do meanwhile, whatever
\* offsets records come with and whichever answers are lost: a GET finds what a
\* client was told of before it was sent, under that offset and with that value; a
\* POST is told a higher offset than all that were answered before it was sent; and
\* no two are told the same one (http.go handleProduce, handleConsume, log.go).
AnswersAgree ==
    /\ \A c \in Conns : handler[c].method = "GET" =>
           /\ handler[c].status = 404 => \A r \in known[c] : r.offset # handler[c].offset
           /\ handler[c].status = 200 =>
                 /\ handler[c].rec.offset = handler[c].offset
                 /\ \A r \in answered : r.offset = handler[c].offset => r = handler[c].rec
    /\ \A c \in Conns : handler[c].method = "POST" /\ handler[c].status = 200 =>
           /\ \A r \in known[c] : r.offset < handler[c].offset
           /\ \A d \in Conns \ {c} :
                  handler[d].method = "POST" /\ handler[d].status = 200 =>
                      handler[c].offset # handler[d].offset

\* The records as callers of the Log see them.
Entries == [o \in 0 .. Len(records) - 1 |-> records[o + 1].value]

Abstract == INSTANCE CommitLog
                WITH FirstOffset <- 0, Payloads <- Values,
                     entries <- Entries, end <- Len(records)

\* The Log in memory is a commit log: an append takes the next offset and no
\* entry ever changes (log.go).
ImplementsCommitLog == Abstract!Spec
=============================================================================
