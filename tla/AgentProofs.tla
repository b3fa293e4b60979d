---------------------------- MODULE AgentProofs ----------------------------
(***************************************************************************)
(* Theorems about Agent, for all clients, policies, records and bounds:    *)
(* what Shutdown may count on, what its callers and the handlers of the    *)
(* gRPC server may, and what producers and consumers are told of the log.  *)
(***************************************************************************)
EXTENDS Agent, SegmentedLogProofs

Stages == {"mux", "log", "server", "membership", "serve", "up", "failed"}

Places == {"idle", "waiting", "leave", "stop", "drain", "close", "closeRaftLog",
           "closeLog", "returned"}

Inside(t) == at[t] \notin {"idle", "waiting", "returned"}

\* What New leaves open, as far as it has come.
Opened ==
    /\ stage \in {"server", "membership", "serve"} => {"log", "raftLog", "raft"} \subseteq open
    /\ stage \in {"membership", "serve"} => "server" \in open
    /\ stage # "up" => mux = "off" /\ ~shutdown /\ \A t \in Callers : at[t] = "idle"

\* The logs and Raft are closed after the gRPC server, and the gRPC server is
\* closed when its handlers have returned.
ClosedInOrder ==
    /\ stage = "up" /\ ~({"raft", "raftLog", "log"} \subseteq open) => "server" \notin open
    /\ stage = "up" /\ "server" \notin open => \A s \in Clients : ~Running(s)
    /\ \A t \in Callers : at[t] \in {"close", "closeRaftLog", "closeLog"} => "server" \notin open

\* What t has still to close when it is at its place in Shutdown.
Remaining(place) ==
    CASE place = "leave"                -> Components
      [] place \in {"stop", "drain"}    -> Components \ {"membership"}
      [] place = "close"                -> {"raft", "raftLog", "log"}
      [] place = "closeRaftLog"         -> {"raftLog", "log"}
      [] place = "closeLog"             -> {"log"}

\* One caller at a time is inside, and it has closed what comes before its place;
\* when it has left, all is closed or somebody knows of an error.
OneByOne ==
    /\ \A t \in Callers : Inside(t) <=> lock = t
    /\ \A t \in Callers : Inside(t) => shutdown /\ open \subseteq Remaining(at[t])
    /\ shutdown /\ lock = "nobody" => open = {} \/ \E u \in Callers : result[u] = "error"
    /\ lock \in Callers \cup {"nobody"}
    /\ \A t \in Callers : result[t] # "none" => at[t] = "returned"

\* Whoever is told nil finds everything closed, or somebody was told of an error.
NilMeansAllClosed ==
    \A t \in Callers : result[t] = "nil" =>
        open = {} \/ \E u \in Callers : result[u] = "error"

Typed ==
    /\ stage \in Stages /\ open \subseteq Components
    /\ at \in [Callers -> Places] /\ result \in [Callers -> {"none", "nil", "error"}]
    /\ DOMAIN call = Clients

IInv == Typed /\ Opened /\ ClosedInOrder /\ OneByOne /\ NilMeansAllClosed

-----------------------------------------------------------------------------
(* The handlers.                                                            *)

\* Only a new call starts a handler.
Calmer == DOMAIN call' = Clients /\ \A s \in Clients : Running(s)' => Running(s)

\* A handler that returns starts none.
LEMMA ReturnsCalms ==
    ASSUME DOMAIN call = Clients, NEW c \in Clients, Returns(c)
    PROVE  Calmer
BY DEF Returns, Calmer, Running, NoCall

\* No step of a handler starts another one.
LEMMA HandlerCalms ==
    ASSUME DOMAIN call = Clients, NEW c \in Clients, HandlerStep(c)
    PROVE  Calmer
<1>1. CASE ProduceEnds(c)
  BY <1>1, ReturnsCalms DEF ProduceEnds
<1>2. CASE ProduceSend(c)
  BY <1>2 DEF ProduceSend, Calmer, Running
<1>3. CASE ConsumeTurn(c)
  <2>1. CASE Returns(c)
    BY <2>1, ReturnsCalms
  <2>2. CASE \E r \in {ReadLog(log, off) : off \in {NextFor(c)}} : Answered(c, r)
    BY <1>3, <2>2 DEF ConsumeTurn, Answered, Calmer, Running
  <2>. QED
    BY <1>3, <2>1, <2>2 DEF ConsumeTurn
<1>. QED
  BY <1>1, <1>2, <1>3 DEF HandlerStep

\* Raft answers a producer that waits, and starts nothing.
LEMMA RaftCalms ==
    ASSUME DOMAIN call = Clients,
           \/ \E r \in pending : RaftApplies(r)
           \/ \E p \in Producers : RaftAnswers(p)
    PROVE  Calmer
<1>1. ASSUME NEW r, RaftApplies(r) PROVE Calmer
  BY <1>1 DEF RaftApplies, Waits, Calmer, Running
<1>2. ASSUME NEW p \in Producers, RaftFails(p) PROVE Calmer
  BY <1>2, ReturnsCalms DEF RaftFails, Clients
<1>. QED
  BY <1>1, <1>2 DEF RaftAnswers

\* A handler starts only for a new call, which the gRPC server must be open for.
LEMMA RequestCalms ==
    ASSUME DOMAIN call = Clients, Request \/ \E s \in Clients : ClientGoes(s)
    PROVE  Calmer
<1>1. ASSUME NEW p \in Producers, NEW len \in RecordLens, ProduceRecv(p, len)
      PROVE  Calmer
  <2>1. CASE Returns(p)
    BY <2>1, ReturnsCalms DEF Clients
  <2>2. CASE ~Returns(p)
    BY <1>1, <2>2 DEF ProduceRecv, Calmer, Running
  <2>. QED
    BY <2>1, <2>2
<1>2. ASSUME NEW s \in Clients, ClientGoes(s) PROVE Calmer
  <2>1. CASE Returns(s)
    BY <2>1, ReturnsCalms
  <2>2. CASE Running(s)
    BY <1>2, <2>2 DEF ClientGoes, Calmer, Running
  <2>. QED
    BY <1>2, <2>1, <2>2 DEF ClientGoes
<1>. QED
  BY <1>1, <1>2 DEF Request

-----------------------------------------------------------------------------
(* The invariant.                                                           *)

\* Nothing is set up and nobody in Shutdown when New begins.
LEMMA InitInv == Init => IInv
<1> SUFFICES ASSUME Init PROVE IInv
  OBVIOUS
<1>1. /\ stage = "mux" /\ mux = "off" /\ open = {} /\ ~shutdown /\ lock = "nobody"
      /\ \A t \in Callers : at[t] = "idle" /\ result[t] = "none"
  BY DEF Init
<1>2. Typed
  BY DEF Init, ServerInit, Typed, Stages, Places
<1>3. Opened /\ ClosedInOrder
  BY <1>1 DEF Opened, ClosedInOrder
<1>4. OneByOne /\ NilMeansAllClosed
  BY <1>1 DEF OneByOne, NilMeansAllClosed, Inside, Callers
<1>. QED
  BY <1>2, <1>3, <1>4 DEF IInv

\* Steps of clients, handlers and Raft leave the agent alone.
LEMMA CalmInv ==
    ASSUME IInv, Calmer, UNCHANGED agentVars
    PROVE  IInv'
<1>1. Typed' /\ Opened' /\ OneByOne' /\ NilMeansAllClosed'
  BY DEF IInv, Calmer, agentVars, Typed, Opened, OneByOne, Inside, NilMeansAllClosed
<1>2. ClosedInOrder'
  BY DEF IInv, Calmer, agentVars, ClosedInOrder
<1>. QED
  BY <1>1, <1>2 DEF IInv

\* A client opens a stream, for which the gRPC server must be open (server.go).
LEMMA OpenInv ==
    ASSUME IInv, Arrival, UNCHANGED agentVars
    PROVE  IInv'
<1>1. PICK s \in Clients : Open(s)
  BY DEF Arrival
<1>2. DOMAIN call' = Clients
  BY <1>1 DEF Open, authenticate, IInv, Typed
<1>3. "server" \in open
  BY DEF Arrival, Accepting
<1>4. Typed' /\ Opened' /\ OneByOne' /\ NilMeansAllClosed'
  BY <1>2 DEF IInv, agentVars, Typed, Opened, OneByOne, Inside, NilMeansAllClosed
<1>5. ClosedInOrder'
  BY <1>3 DEF IInv, agentVars, ClosedInOrder
<1>. QED
  BY <1>4, <1>5 DEF IInv

\* New only opens, and nobody is in Shutdown before it has done so.
LEMMA SetupKeeps ==
    ASSUME IInv, NEW from, NEW next \in Stages, NEW opens \in SUBSET Components,
           Setup(from, next, opens), from # "up",
           next # "up" => mux' = "off",
           next \in {"server", "membership", "serve", "up"} =>
               {"log", "raftLog", "raft"} \subseteq open',
           next \in {"membership", "serve", "up"} => "server" \in open'
    PROVE  IInv'
<1>1. /\ \A t \in Callers : at[t] = "idle"
      /\ stage # "up" /\ ~shutdown
  BY DEF Setup, IInv, Opened
<1>2. \A t \in Callers : ~Inside(t)
  BY <1>1 DEF Inside
<1>3. /\ stage' = next /\ open' = open \cup opens
      /\ UNCHANGED <<call, shutdown, lock, at, result>>
  BY DEF Setup, serverVars
<1>4. Typed'
  BY <1>3 DEF IInv, Typed
<1>5. Opened'
  BY <1>1, <1>3 DEF Opened
<1>6. ClosedInOrder'
  <2>1. next = "up" => {"log", "raftLog", "raft", "server"} \subseteq open'
    OBVIOUS
  <2>2. \A t \in Callers : at'[t] \notin {"close", "closeRaftLog", "closeLog"}
    BY <1>1, <1>3
  <2>. QED
    BY <1>3, <2>1, <2>2 DEF ClosedInOrder
<1>7. OneByOne' /\ NilMeansAllClosed'
  <2>1. \A t \in Callers : ~Inside(t)'
    BY <1>2, <1>3 DEF Inside
  <2>2. \A t \in Callers : result[t] = "none"
    BY <1>1 DEF IInv, Typed, OneByOne
  <2>. QED
    BY <1>1, <1>2, <1>3, <2>1, <2>2 DEF IInv, OneByOne, NilMeansAllClosed
<1>. QED
  BY <1>4, <1>5, <1>6, <1>7 DEF IInv

\* New, with its failures, keeps the invariant (agent.go New).
LEMMA SetupInv ==
    ASSUME IInv, SetupStep
    PROVE  IInv'
<1> USE DEF Stages
<1>1. /\ {"log", "raftLog", "raft"} \in SUBSET Components /\ {} \in SUBSET Components
      /\ {"log"} \in SUBSET Components /\ {"log", "raftLog"} \in SUBSET Components
      /\ {"server"} \in SUBSET Components /\ {"membership"} \in SUBSET Components
  BY DEF Components
<1>2. stage # "up" => mux = "off"
  BY DEF IInv, Opened
<1>3. \A from, next, opens : Setup(from, next, opens) => stage = from /\ open' = open \cup opens
  BY DEF Setup
<1>4. CASE SetupMux
  BY <1>1, <1>2, <1>3, <1>4, SetupKeeps DEF SetupMux
<1>5. CASE SetupLog
  <2>1. ASSUME NEW opens \in SUBSET Components, Setup("log", "failed", opens) PROVE IInv'
    BY <1>2, <1>3, <1>5, <2>1, SetupKeeps DEF SetupLog
  <2>2. CASE Setup("log", "server", {"log", "raftLog", "raft"})
    BY <1>1, <1>2, <1>3, <1>5, <2>2, SetupKeeps DEF SetupLog
  <2>. QED
    BY <1>1, <1>5, <2>1, <2>2 DEF SetupLog, NewDistributedLogFails, WaitForLeaderFails
<1>6. CASE SetupServer
  <2>1. stage = "server" /\ {"log", "raftLog", "raft"} \subseteq open /\ mux' = "off"
    BY <1>2, <1>3, <1>6 DEF SetupServer, IInv, Opened
  <2>. QED
    BY <1>1, <1>3, <1>6, <2>1, SetupKeeps DEF SetupServer
<1>7. CASE SetupMembership
  <2>1. /\ stage = "membership" /\ {"log", "raftLog", "raft"} \subseteq open
        /\ "server" \in open /\ mux' = "off"
    BY <1>2, <1>3, <1>7 DEF SetupMembership, IInv, Opened
  <2>2. CASE Setup("membership", "serve", {"membership"})
    <3>1. {"log", "raftLog", "raft"} \subseteq open' /\ "server" \in open'
      BY <1>3, <2>1, <2>2
    <3>. QED
      BY <1>1, <2>1, <2>2, <3>1, SetupKeeps
  <2>3. CASE Setup("membership", "failed", {})
    BY <1>1, <2>1, <2>3, SetupKeeps
  <2>. QED
    BY <1>7, <2>2, <2>3 DEF SetupMembership
<1>8. CASE StartServe
  <2>1. /\ stage = "serve" /\ {"log", "raftLog", "raft"} \subseteq open
        /\ "server" \in open
    BY <1>3, <1>8 DEF StartServe, IInv, Opened
  <2>. QED
    BY <1>1, <1>3, <1>8, <2>1, SetupKeeps DEF StartServe
<1>. QED
  BY <1>4, <1>5, <1>6, <1>7, <1>8 DEF SetupStep

\* The listener fails, or somebody calls Shutdown: the multiplexer has run by then.
LEMMA CallInv ==
    ASSUME IInv, MuxFails \/ \E t \in Callers : Call(t)
    PROVE  IInv'
<1>1. CASE MuxFails
  <2>1. stage = "up" /\ UNCHANGED <<call, stage, open, shutdown, lock, at, result>>
    BY <1>1 DEF MuxFails, IInv, Opened, serverVars
  <2>. QED
    BY <2>1 DEF IInv, Typed, Opened, ClosedInOrder, OneByOne, Inside, Running,
                NilMeansAllClosed
<1>2. ASSUME NEW t \in Callers, Call(t) PROVE IInv'
  <2>1. stage = "up"
    BY <1>2 DEF Call, Reason, Callers, IInv, Opened
  <2>2. /\ at[t] = "idle" /\ at' = [at EXCEPT ![t] = "waiting"]
        /\ UNCHANGED <<call, stage, open, shutdown, lock, result>>
    BY <1>2 DEF Call, serverVars
  <2>3. Typed' /\ Opened'
    BY <2>1, <2>2 DEF IInv, Typed, Places, Opened
  <2>4. /\ at'[t] = "waiting"
        /\ \A u \in Callers \ {t} : at'[u] = at[u]
    BY <2>2 DEF IInv, Typed
  <2>5. ClosedInOrder'
    BY <2>2, <2>4 DEF IInv, ClosedInOrder, Running
  <2>6. \A u \in Callers : /\ Inside(u)' <=> Inside(u)
                           /\ Inside(u) => u # t
    BY <2>2, <2>4 DEF Inside
  <2>7. OneByOne' /\ NilMeansAllClosed'
    BY <2>2, <2>4, <2>6 DEF IInv, OneByOne, NilMeansAllClosed
  <2>. QED
    BY <2>3, <2>5, <2>7 DEF IInv
<1>. QED
  BY <1>1, <1>2

\* What t inside Shutdown may close: nothing that somebody still uses.
Closes(closes) ==
    /\ open' = open \ closes
    /\ closes \cap {"raft", "raftLog", "log"} # {} => "server" \notin open
    /\ "server" \in closes => \A s \in Clients : ~Running(s)

\* A step of Shutdown that closes components in the order keeps the invariant of
\* it.
LEMMA ClosesInOrder ==
    ASSUME IInv, stage = "up", UNCHANGED stage, Calmer, NEW closes, Closes(closes),
           \A t \in Callers : at'[t] \in {"close", "closeRaftLog", "closeLog"} =>
               "server" \notin open'
    PROVE  ClosedInOrder'
<1>1. ~({"raft", "raftLog", "log"} \subseteq open') => "server" \notin open'
  BY DEF Closes, IInv, ClosedInOrder
<1>2. "server" \notin open' => \A s \in Clients : ~Running(s)'
  BY DEF Closes, IInv, ClosedInOrder, Calmer
<1>. QED
  BY <1>1, <1>2 DEF ClosedInOrder

\* A function of the list is done, and t goes on to the next one.
LEMMA MovesOn ==
    ASSUME IInv, NEW t \in Callers, Inside(t), Calmer, NEW closes, Closes(closes),
           NEW next \in {"stop", "drain", "close", "closeRaftLog", "closeLog"},
           at' = [at EXCEPT ![t] = next], UNCHANGED <<lock, result, stage, shutdown>>,
           open' \subseteq Remaining(next)
    PROVE  IInv'
<1>1. stage = "up" /\ lock = t /\ shutdown
  BY DEF IInv, Opened, OneByOne, Inside
<1>2. at'[t] = next /\ \A u \in Callers \ {t} : at'[u] = at[u]
  BY DEF IInv, Typed
<1>3. \A u \in Callers \ {t} : ~Inside(u) /\ ~Inside(u)'
  BY <1>1, <1>2 DEF IInv, OneByOne, Inside
<1>4. Inside(t)'
  BY <1>2 DEF Inside
<1>5. Typed'
  BY DEF IInv, Typed, Places, Closes, Calmer
<1>6. Opened'
  BY <1>1 DEF Opened
<1>7. ClosedInOrder'
  <2>1. next \in {"close", "closeRaftLog", "closeLog"} => "server" \notin open'
    BY DEF Remaining
  <2>. QED
    BY <1>1, <1>2, <1>3, <2>1, ClosesInOrder DEF Inside
<1>8. OneByOne'
  <2>1. \A u \in Callers : result'[u] # "none" => at'[u] = "returned"
    BY <1>2 DEF IInv, OneByOne, Inside
  <2>2. t # "nobody" /\ lock' = t /\ shutdown'
    BY <1>1 DEF Callers
  <2>3. \A u \in Callers : Inside(u)' <=> lock' = u
    BY <1>3, <1>4, <2>2
  <2>4. \A u \in Callers : Inside(u)' => shutdown' /\ open' \subseteq Remaining(at'[u])
    BY <1>2, <2>2, <2>3
  <2>. QED
    BY <2>1, <2>2, <2>3, <2>4 DEF OneByOne
<1>9. NilMeansAllClosed'
  BY DEF IInv, NilMeansAllClosed, Closes
<1>. QED
  BY <1>5, <1>6, <1>7, <1>8, <1>9 DEF IInv

\* Shutdown returns r to t, which has the lock or gets it.
LEMMA Leaves ==
    ASSUME IInv, NEW t \in Callers, stage = "up", lock \in {t, "nobody"},
           at[t] \notin {"idle", "returned"}, Calmer, NEW closes, Closes(closes),
           NEW r \in {"nil", "error"}, Return(t, r), UNCHANGED <<stage, shutdown>>,
           r = "nil" => open' = {} \/ \E u \in Callers : result[u] = "error"
    PROVE  IInv'
<1>1. /\ at' = [at EXCEPT ![t] = "returned"] /\ result' = [result EXCEPT ![t] = r]
      /\ lock' = "nobody"
  BY DEF Return
<1>2. /\ at'[t] = "returned" /\ result'[t] = r
      /\ \A u \in Callers \ {t} : at'[u] = at[u] /\ result'[u] = result[u]
  BY <1>1 DEF IInv, Typed
<1>3. \A u \in Callers : ~Inside(u)' /\ u # "nobody"
  BY <1>2 DEF IInv, OneByOne, Inside, Callers
<1>4. result[t] = "none"
  BY DEF IInv, Typed, OneByOne
<1>5. Typed'
  BY <1>1 DEF IInv, Typed, Places, Closes, Calmer
<1>6. Opened'
  BY DEF Opened
<1>7. ClosedInOrder'
  <2>1. \A u \in Callers : at'[u] \notin {"close", "closeRaftLog", "closeLog"}
    BY <1>3 DEF Inside
  <2>. QED
    BY <2>1, ClosesInOrder
<1>8. open' = {} \/ \E u \in Callers : result'[u] = "error"
  BY <1>2, <1>4
<1>9. \A u \in Callers : result'[u] # "none" => at'[u] = "returned"
  BY <1>2 DEF IInv, OneByOne
<1>10. OneByOne' /\ NilMeansAllClosed'
  BY <1>1, <1>3, <1>8, <1>9 DEF OneByOne, NilMeansAllClosed
<1>. QED
  BY <1>5, <1>6, <1>7, <1>10 DEF IInv

\* The first caller that gets the lock closes, and every other one returns.
LEMMA EnterInv ==
    ASSUME IInv, NEW t \in Callers, Enter(t)
    PROVE  IInv'
<1>1. /\ at[t] = "waiting" /\ lock = "nobody" /\ UNCHANGED <<call, stage, open>>
  BY DEF Enter, serverVars
<1>2. stage = "up" /\ Calmer /\ Closes({})
  BY <1>1 DEF IInv, Typed, Opened, Calmer, Running, Closes
<1>3. CASE shutdown
  BY <1>1, <1>2, <1>3, Leaves DEF Enter, IInv, OneByOne
<1>4. CASE ~shutdown
  <2>1. /\ shutdown' = TRUE /\ lock' = t /\ at' = [at EXCEPT ![t] = "leave"]
        /\ UNCHANGED result
    BY <1>4 DEF Enter
  <2>2. at'[t] = "leave" /\ \A u \in Callers \ {t} : at'[u] = at[u]
    BY <2>1 DEF IInv, Typed
  <2>3. \A u \in Callers \ {t} : ~Inside(u)'
    BY <1>1, <2>2 DEF IInv, OneByOne, Inside, Callers
  <2>4. Typed' /\ Opened'
    BY <1>1, <1>2, <2>1 DEF IInv, Typed, Places, Opened
  <2>5. ClosedInOrder'
    BY <1>1, <1>2, <2>2, ClosesInOrder DEF IInv, ClosedInOrder
  <2>6. OneByOne'
    <3>1. Inside(t)' /\ open' \subseteq Remaining(at'[t]) /\ t # "nobody"
      BY <1>1, <2>2 DEF Inside, Remaining, IInv, Typed, Callers
    <3>2. \A u \in Callers : result'[u] # "none" => at'[u] = "returned"
      BY <1>1, <2>1, <2>2 DEF IInv, OneByOne
    <3>. QED
      BY <2>1, <2>3, <3>1, <3>2 DEF OneByOne
  <2>7. NilMeansAllClosed'
    BY <1>1, <2>1 DEF IInv, NilMeansAllClosed
  <2>. QED
    BY <2>4, <2>5, <2>6, <2>7 DEF IInv
<1>. QED
  BY <1>3, <1>4

\* Every step of Shutdown and of the goroutines that call it keeps the
\* invariant.
LEMMA ShutdownInv ==
    ASSUME IInv, NEW t \in Callers, ShutdownStep(t)
    PROVE  IInv'
<1> DEFINE Up == stage = "up" /\ lock = t /\ at[t] \notin {"idle", "returned"}
<1>1. Inside(t) => Up /\ open \subseteq Remaining(at[t])
  BY DEF IInv, Opened, OneByOne, Inside
<1>2. UNCHANGED call => Calmer
  BY DEF IInv, Typed, Calmer, Running
<1>3. UNCHANGED open => Closes({})
  BY DEF Closes
<1>4. ASSUME NEW from, StepFails(t, from), from \in {"leave", "closeRaftLog"} PROVE IInv'
  <2>1. /\ at[t] = from /\ Return(t, "error") /\ UNCHANGED <<call, open, stage, shutdown>>
    BY <1>4 DEF StepFails, serverVars
  <2>2. Inside(t)
    BY <1>4, <2>1 DEF Inside
  <2>. QED
    BY <1>1, <1>2, <1>3, <2>1, <2>2, Leaves
<1>5. CASE LeaveMembership(t)
  <2>1. CASE Step(t, "leave", "stop", {"membership"}) /\ UNCHANGED <<serverVars, mux>>
    <3>1. Inside(t) /\ open \subseteq Components
      BY <2>1 DEF Step, Inside, IInv, Typed
    <3>2. Closes({"membership"}) /\ open' \subseteq Remaining("stop")
      BY <2>1, <3>1 DEF Step, Closes, Remaining
    <3>. QED
      BY <1>2, <2>1, <3>1, <3>2, MovesOn DEF Step, serverVars
  <2>. QED
    BY <1>4, <1>5, <2>1 DEF LeaveMembership
<1>6. CASE StopListening(t)
  <2>1. Inside(t) /\ at[t] = "stop"
    BY <1>6 DEF StopListening, Step, Inside
  <2>2. Closes({}) /\ open' \subseteq Remaining("drain")
    BY <1>1, <1>6, <2>1 DEF StopListening, Step, Closes, Remaining
  <2>. QED
    BY <1>2, <1>6, <2>1, <2>2, MovesOn DEF StopListening, Step, serverVars
<1>7. CASE Drain(t)
  <2>1. Inside(t) /\ at[t] = "drain"
    BY <1>7 DEF Drain, Step, Inside
  <2>2. Closes({"server"}) /\ open' \subseteq Remaining("close")
    BY <1>1, <1>7, <2>1 DEF Drain, Step, Closes, Remaining, Components
  <2>. QED
    BY <1>2, <1>7, <2>1, <2>2, MovesOn DEF Drain, Step, serverVars
<1>8. CASE CloseRaft(t)
  <2>1. Inside(t) /\ at[t] = "close"
    BY <1>8 DEF CloseRaft, Step, Inside
  <2>2. Closes({"raft"}) /\ open' \subseteq Remaining("closeRaftLog")
    BY <1>1, <1>8, <2>1 DEF CloseRaft, Step, Closes, Remaining
  <2>3. Calmer
    BY <1>8 DEF CloseRaft, Calmer, Running, NoCall
  <2>. QED
    BY <1>8, <2>1, <2>2, <2>3, MovesOn DEF CloseRaft, Step
<1>9. CASE CloseRaftLog(t)
  <2>1. CASE Step(t, "closeRaftLog", "closeLog", {"raftLog"}) /\ UNCHANGED <<serverVars, mux>>
    <3>1. Inside(t) /\ at[t] = "closeRaftLog"
      BY <2>1 DEF Step, Inside
    <3>2. Closes({"raftLog"}) /\ open' \subseteq Remaining("closeLog")
      BY <1>1, <2>1, <3>1 DEF Step, Closes, Remaining
    <3>. QED
      BY <1>2, <2>1, <3>1, <3>2, MovesOn DEF Step, serverVars
  <2>. QED
    BY <1>4, <1>9, <2>1 DEF CloseRaftLog
<1>10. CASE CloseLog(t)
  <2>1. /\ at[t] = "closeLog" /\ UNCHANGED <<call, stage, shutdown>>
        /\ \/ Return(t, "nil") /\ open' = open \ {"log"}
           \/ Return(t, "error") /\ UNCHANGED open
    BY <1>10 DEF CloseLog
  <2>2. Inside(t)
    BY <2>1 DEF Inside
  <2>3. open \subseteq {"log"}
    BY <1>1, <2>1, <2>2 DEF Remaining
  <2>4. CASE Return(t, "nil") /\ open' = open \ {"log"}
    <3>1. open' = {} /\ Closes({"log"})
      BY <2>3, <2>4 DEF Closes
    <3>. QED
      BY <1>1, <1>2, <2>1, <2>2, <2>4, <3>1, Leaves
  <2>5. CASE Return(t, "error") /\ UNCHANGED open
    BY <1>1, <1>2, <1>3, <2>1, <2>2, <2>5, Leaves
  <2>. QED
    BY <2>1, <2>4, <2>5
<1>. QED
  BY <1>5, <1>6, <1>7, <1>8, <1>9, <1>10, EnterInv DEF ShutdownStep

\* Every step keeps the invariant about components.
LEMMA NextInv == IInv /\ [Next]_vars => IInv'
<1> SUFFICES ASSUME IInv, [Next]_vars PROVE IInv'
  OBVIOUS
<1> USE DEF IInv, Typed
<1>1. CASE SetupStep \/ MuxFails \/ \E t \in Callers : Call(t)
  BY <1>1, SetupInv, CallInv
<1>2. CASE UNCHANGED agentVars /\ (Arrival \/ Request \/ \E s \in Clients : ClientGoes(s))
  BY <1>2, OpenInv, RequestCalms, CalmInv
<1>3. CASE UNCHANGED agentVars /\ \E r \in pending : RaftApplies(r)
  BY <1>3, RaftCalms, CalmInv
<1>4. CASE \E s \in Clients : Handler(s)
  BY <1>4, HandlerCalms, CalmInv DEF Handler
<1>5. CASE \E p \in Producers : Raft(p)
  BY <1>5, RaftCalms, CalmInv DEF Raft
<1>6. CASE \E t \in Callers : Caller(t)
  BY <1>6, ShutdownInv DEF Caller
<1>7. CASE UNCHANGED vars
  <2>1. UNCHANGED agentVars /\ Calmer
    BY <1>7 DEF vars, serverVars, Calmer, Running
  <2>. QED
    BY <2>1, CalmInv
<1>. QED
  BY <1>1, <1>2, <1>3, <1>4, <1>5, <1>6, <1>7 DEF Next

\* The invariant about components holds in every state.
LEMMA Invariance == Spec => []IInv
BY InitInv, NextInv, PTL DEF Spec

-----------------------------------------------------------------------------
(* The records that the log holds.                                          *)

\* recs are the records of l: each is under an offset that l holds, no two under
\* the same, and none was applied twice.
Records(l, recs) ==
    /\ GoodLog(l, recs) /\ SoundLog(l) /\ l.segments # <<>>
    /\ recs \subseteq Record
    /\ \A r \in recs : r.offset \in Stored(l)
    /\ \A r, q \in recs : r.offset = q.offset \/ r.id = q.id => r = q

\* Every offset that a segment holds has one of the records.
LEMMA HeldRecord ==
    ASSUME NEW recs, NEW l, GoodLog(l, recs), NEW i \in DOMAIN l.segments,
           NEW off \in Held(l.segments[i])
    PROVE  RecordIn(l, i, off) \in recs /\ RecordIn(l, i, off).offset = off
<1> DEFINE s == l.segments[i]
           f == l.files[s.base]
           frames == Flushed(f, s.buf).store
           pos == f.slots[off - s.base].pos
<1>1. s \in Segment /\ f \in File /\ Consistent(s, f, recs)
  BY GoodShape DEF GoodLog
<1>2. off \in s.base .. s.next - 1
  BY DEF Held
<1>3. Leads(frames, pos, off, recs)
  BY <1>1, <1>2, EntryLeads
<1>4. RecordIn(l, i, off) = frames[CHOOSE j \in DOMAIN frames : frames[j].pos = pos].rec
  BY DEF RecordIn
<1> HIDE DEF frames, pos
<1>5. PICK k \in DOMAIN frames :
          /\ {j \in DOMAIN frames : frames[j].pos = pos} = {k}
          /\ frames[k].rec \in recs
          /\ frames[k].rec.offset = off
  BY <1>3 DEF Leads
<1>6. (CHOOSE j \in DOMAIN frames : frames[j].pos = pos) = k
  BY <1>5
<1>. QED
  BY <1>4, <1>5, <1>6

\* A log with the same offsets has the same records.
LEMMA RecordsSame ==
    ASSUME NEW recs, NEW l, Records(l, recs), NEW m, GoodLog(m, recs), SoundLog(m),
           DOMAIN m.segments = DOMAIN l.segments, Stored(m) = Stored(l)
    PROVE  Records(m, recs)
<1>1. Len(l.segments) \in DOMAIN m.segments
  BY GoodShape DEF Records
<1>2. m.segments # <<>>
  BY <1>1
<1>. QED
  BY <1>2 DEF Records

\* fsm.Apply of a record that the log does not have yet.
LEMMA RecordsApplied ==
    ASSUME NEW recs, NEW l, Records(l, recs), NEW id \in Nat, NEW len \in Nat,
           \A q \in recs : q.id # id
    PROVE  LET m == Applied(l, id, len)
               end == AppendTarget(l, HighestOffset(l)).next
               new == [offset |-> end, id |-> id, len |-> len]
           IN  /\ end \in Nat /\ new \in Record
               /\ Records(m, recs \cup {new})
               /\ m = [files |-> m.files, segments |-> m.segments]
<1> DEFINE m == Applied(l, id, len)
           end == AppendTarget(l, HighestOffset(l)).next
           new == [offset |-> end, id |-> id, len |-> len]
<1>1. GoodLog(l, recs) /\ SoundLog(l) /\ l.segments # <<>>
  BY DEF Records
<1>2. /\ Last(l.segments).next \in Nat
      /\ end = Last(l.segments).next
      /\ GoodLog(m, recs \cup {[offset |-> Last(l.segments).next, id |-> id, len |-> len]})
      /\ m.segments # <<>>
      /\ Stored(m) = Stored(l) \cup {Last(l.segments).next}
  <2>1. id \in Nat /\ len \in Nat
    OBVIOUS
  <2>2. LET n == AppendLocked(l, HighestOffset(l), id, len)
            s == AppendTarget(l, HighestOffset(l))
            top == Last(l.segments).next
        IN  /\ top \in Nat
            /\ s.next = top /\ ~IndexMaxed(s)
            /\ GoodLog(n, recs \cup {[offset |-> top, id |-> id, len |-> len]})
            /\ n.segments # <<>>
            /\ Last(n.segments).next = top + 1
            /\ Stored(n) = Stored(l) \cup {top}
            /\ Ends(n) \subseteq Ends(l) \cup {top + 1}
    BY <1>1, <2>1, GoodAppendLocked
  <2>3. m = AppendLocked(l, HighestOffset(l), id, len)
    BY DEF Applied
  <2> HIDE DEF m
  <2>. QED
    BY <2>2, <2>3
<1>3. SoundLog(m)
  BY <1>1, AppendLockedSound DEF Applied
<1>4. m = [files |-> m.files, segments |-> m.segments]
  BY DEF Applied, AppendLocked, SegmentAppend, PutSegment
<1>5. \A r \in recs : r.offset # end
  BY <1>1, <1>2, StoredBelowEnd DEF Records
<1> HIDE DEF m, end
<1>6. new \in Record /\ new.offset = end /\ new.id = id
  BY <1>2 DEF Record
<1>7. GoodLog(m, recs \cup {new}) /\ Stored(m) = Stored(l) \cup {end}
  BY <1>2
<1> HIDE DEF new
<1>8. recs \cup {new} \subseteq Record
  BY <1>6 DEF Records
<1>9. \A r \in recs \cup {new} : r.offset \in Stored(m)
  BY <1>6, <1>7 DEF Records
<1>10. \A r, q \in recs \cup {new} : r.offset = q.offset \/ r.id = q.id => r = q
  BY <1>5, <1>6 DEF Records
<1>11. Records(m, recs \cup {new})
  BY <1>2, <1>3, <1>7, <1>8, <1>9, <1>10 DEF Records
<1>. QED
  BY <1>2, <1>4, <1>6, <1>11 DEF m, end, new

\* The records of a log l to which the first n earlier ones were applied.
RecordsUpTo(l, n) == \E recs : Records(l, recs) /\ \A r \in recs : r.id <= n

\* The function over which the fold of the earlier records recurs.
Applying(places) ==
    CHOOSE f : f = [t \in SUBSET DOMAIN places |->
        IF t = {} THEN EmptyLog ELSE AppliedEarlier(f[t \ {Max(t)}], places[Max(t)])]

\* h gives the log after each number of earlier records.
AppliesUpTo(h, n) ==
    /\ h[1 .. 0] = EmptyLog
    /\ \A k \in 0 .. n - 1 : h[1 .. (k + 1)] = AppliedEarlier(h[1 .. k], k + 1)
    /\ h[1 .. n] = FoldLeft(AppliedEarlier, EmptyLog, [k \in DOMAIN Earlier |-> k])

\* The earlier records are applied one after the other.
LEMMA AppliedStepByStep == \E h : AppliesUpTo(h, Len(Earlier))
<1> DEFINE places == [k \in DOMAIN Earlier |-> k]
           n == Len(Earlier)
           W == {m \in SoundLogs : m.segments # <<>>}
           D == 1 .. n
           h == Applying(places)
           G == [p \in W \X D |-> AppliedEarlier(p[1], p[2])]
           Applies(f) == f = [t \in SUBSET (1 .. n) |->
               IF t = {} THEN EmptyLog ELSE AppliedEarlier(f[t \ {Max(t)}], places[Max(t)])]
<1>1. /\ n \in Nat /\ DOMAIN Earlier = 1 .. n
      /\ DOMAIN places = 1 .. n /\ \A i \in 1 .. n : places[i] = i
  BY ServerAssumption, LenProperties
<1>2. EmptyLog \in W
  <2>1. EmptyLog = [files |-> EmptyLog.files, segments |-> EmptyLog.segments]
    BY DEF EmptyLog, NewSegment
  <2>. QED
    BY <2>1, EmptyIsSound, InSoundLogs
<1>3. FoldLeft(AppliedEarlier, EmptyLog, places) = h[1 .. n]
  <2>1. FoldLeft(AppliedEarlier, EmptyLog, places) = h[DOMAIN places]
    <3> HIDE DEF places
    <3>. QED
      BY DEF FoldLeft, MapThenFoldSet, Applying
  <2>. QED
    BY <1>1, <2>1
<1>4. h = CHOOSE f : Applies(f)
  BY <1>1 DEF Applying
<1> HIDE DEF places, n, h
<1>5. \A k \in W, i \in D : AppliedEarlier(k, i) \in W
  <2>1. ASSUME NEW k \in W, NEW i \in D PROVE AppliedEarlier(k, i) \in W
    <3> DEFINE m == AppliedEarlier(k, i)
    <3>1. SoundLog(k) /\ k.segments # <<>> /\ i \in Nat /\ Earlier[i] \in Nat
      BY <1>1, ServerAssumption, ElementOfSeq DEF SoundLogs, n
    <3>2. SoundLog(m) /\ Len(m.segments) \in Nat \ {0}
      BY <3>1, AppendLockedSound DEF AppliedEarlier, Applied
    <3>3. m = [files |-> m.files, segments |-> m.segments]
      BY DEF AppliedEarlier, Applied, AppendLocked, SegmentAppend, PutSegment
    <3> HIDE DEF m
    <3>4. m \in SoundLogs /\ m.segments # <<>>
      BY <3>2, <3>3, InSoundLogs, EmptySeq
    <3>. QED
      BY <3>4 DEF m
  <2>. QED
    BY <2>1
<1> HIDE DEF W
<1>6. \E f : Applies(f)
  <2>1. G \in [W \X D -> W]
    BY <1>5
  <2>2. \A k \in W, i \in D : G[<<k, i>>] = AppliedEarlier(k, i)
    OBVIOUS
  <2> HIDE DEF G
  <2>3. Foldable(W, EmptyLog, G, places, n)
    BY <1>1, <1>2, <2>1, FoldExists
  <2>4. PICK f \in [SUBSET (1 .. n) -> W] : Folds(f, EmptyLog, G, places, n)
    BY <2>3 DEF Foldable
  <2>5. ASSUME NEW t \in SUBSET (1 .. n)
        PROVE  f[t] = IF t = {} THEN EmptyLog
                      ELSE AppliedEarlier(f[t \ {Max(t)}], places[Max(t)])
    <3>1. CASE t = {}
      BY <2>4, <3>1 DEF Folds
    <3>2. CASE t # {}
      <4>1. Max(t) \in t
        BY <1>1, <3>2, MaxIsGreatest
      <4>2. f[t \ {Max(t)}] \in W /\ places[Max(t)] \in D
        BY <1>1, <4>1
      <4>3. f[t] = G[<<f[t \ {Max(t)}], places[Max(t)]>>]
        BY <2>4, <3>2 DEF Folds
      <4>. QED
        BY <2>2, <3>2, <4>2, <4>3
    <3>. QED
      BY <3>1, <3>2
  <2>6. f = [t \in SUBSET (1 .. n) |-> f[t]]
    OBVIOUS
  <2>7. Applies(f)
    BY <2>5, <2>6
  <2>. QED
    BY <2>7
<1>7. \A t \in SUBSET (1 .. n) :
          h[t] = IF t = {} THEN EmptyLog
                 ELSE AppliedEarlier(h[t \ {Max(t)}], places[Max(t)])
  <2>1. Applies(h)
    BY <1>4, <1>6
  <2>. QED
    BY <2>1
<1>8. ASSUME NEW k \in 0 .. n - 1
      PROVE  h[1 .. (k + 1)] = AppliedEarlier(h[1 .. k], k + 1)
  <2>1. k + 1 \in 1 .. n /\ 1 .. (k + 1) \in SUBSET (1 .. n) /\ 1 .. (k + 1) # {}
    BY <1>1, TakeLast
  <2>2. Max(1 .. (k + 1)) = k + 1 /\ (1 .. (k + 1)) \ {k + 1} = 1 .. k
    BY <1>1, TakeLast
  <2>3. places[k + 1] = k + 1
    BY <1>1, <2>1
  <2>. QED
    BY <1>7, <2>1, <2>2, <2>3
<1>9. h[1 .. 0] = EmptyLog
  <2>1. 1 .. 0 = {} /\ {} \in SUBSET (1 .. n)
    OBVIOUS
  <2>. QED
    BY <1>7, <2>1
<1>10. AppliesUpTo(h, n)
  BY <1>3, <1>8, <1>9 DEF AppliesUpTo, places
<1>. QED
  BY <1>10 DEF n

\* The log that a server starts with has its earlier records.
LEMMA EarlierRecords ==
    RecordsUpTo(FoldLeft(AppliedEarlier, EmptyLog, [k \in DOMAIN Earlier |-> k]), Len(Earlier))
<1> DEFINE N == Len(Earlier)
<1>1. N \in Nat /\ \A k \in 1 .. N : Earlier[k] \in Nat
  BY ServerAssumption, LenProperties, ElementOfSeq
<1>2. PICK h : AppliesUpTo(h, N)
  BY AppliedStepByStep
<1> HIDE DEF N
<1> DEFINE T == {k \in Nat : k <= N => RecordsUpTo(h[1 .. k], k)}
<1>3. 0 \in T
  <2>1. Records(EmptyLog, {})
    BY GoodEmpty, EmptyIsSound DEF Records
  <2>2. RecordsUpTo(EmptyLog, 0)
    BY <2>1 DEF RecordsUpTo
  <2>. QED
    BY <1>2, <2>2 DEF AppliesUpTo
<1>4. ASSUME NEW k \in T PROVE k + 1 \in T
  <2> SUFFICES ASSUME k + 1 <= N
               PROVE  RecordsUpTo(h[1 .. (k + 1)], k + 1)
    BY <1>4
  <2> DEFINE l == h[1 .. k]
             m == Applied(l, k + 1, Earlier[k + 1])
  <2>1. k \in Nat /\ k <= N /\ k \in 0 .. N - 1 /\ Earlier[k + 1] \in Nat
    BY <1>1, <1>4
  <2>2. h[1 .. (k + 1)] = m
    BY <1>2, <2>1 DEF AppliesUpTo, AppliedEarlier
  <2>3. RecordsUpTo(l, k)
    BY <1>4, <2>1
  <2> HIDE DEF l
  <2>4. PICK recs : Records(l, recs) /\ \A r \in recs : r.id <= k
    BY <2>3 DEF RecordsUpTo
  <2> DEFINE new == [offset |-> AppendTarget(l, HighestOffset(l)).next,
                     id |-> k + 1, len |-> Earlier[k + 1]]
  <2>5. \A q \in recs : q.id \in Nat /\ q.id # k + 1
    BY <2>1, <2>4 DEF Records, Record
  <2>6. Records(m, recs \cup {new})
    <3>1. /\ Records(l, recs) /\ k + 1 \in Nat /\ Earlier[k + 1] \in Nat
          /\ \A q \in recs : q.id # k + 1
      BY <2>1, <2>4, <2>5
    <3>2. \A id, len \in Nat :
              (\A q \in recs : q.id # id) =>
                  Records(Applied(l, id, len),
                          recs \cup {[offset |-> AppendTarget(l, HighestOffset(l)).next,
                                     id |-> id, len |-> len]})
      BY <2>4, RecordsApplied
    <3>. QED
      BY <3>1, <3>2
  <2>7. new.id = k + 1
    OBVIOUS
  <2> HIDE DEF m, new
  <2>8. \A r \in recs \cup {new} : r.id <= k + 1
    BY <2>1, <2>4, <2>5, <2>7
  <2>9. RecordsUpTo(m, k + 1)
    BY <2>6, <2>8 DEF RecordsUpTo
  <2>. QED
    BY <2>2, <2>9
<1>5. N \in T
  <2>1. T \in SUBSET Nat
    OBVIOUS
  <2> HIDE DEF T
  <2>2. T = Nat
    BY <1>3, <1>4, <2>1, InductionOnNat
  <2>. QED
    BY <1>1, <2>2
<1>6. RecordsUpTo(h[1 .. N], N)
  BY <1>1, <1>5
<1>. QED
  BY <1>2, <1>6 DEF AppliesUpTo, N

-----------------------------------------------------------------------------
(* What clients are told of the records.                                    *)

CallRecord == [at : {"none", "recv", "applying", "answering", "reading", "refused"},
               there : BOOLEAN, subject : Subjects \cup {Anonymous},
               req : Record, start : Starts \cup {0}, sent : Seq(Record)]

CallsTyped == call \in [Clients -> CallRecord] /\ calls \in 0 .. MaxRecords

\* Every record that was ever produced has an id of its own, whether the log has
\* it or Raft may still apply it.
Produced(recs) ==
    /\ pending \subseteq Record
    /\ \A r \in recs \cup pending : r.id <= calls
    /\ \A r \in pending, q \in recs : r.id # q.id
    /\ \A r, q \in pending : r.id = q.id => r = q

\* What consumers and producers are told is about those records.
Told(recs) ==
    /\ \A c \in Consumers : \A i \in DOMAIN call[c].sent :
           /\ call[c].sent[i] \in recs
           /\ call[c].sent[i].offset = call[c].start + i - 1
    /\ \A p \in Producers : call[p].at = "answering" => call[p].req \in recs

Served(recs) == CallsTyped /\ Records(log, recs) /\ Produced(recs) /\ Told(recs)

\* A step that tells no client anything new.
Quiet ==
    /\ call' \in [Clients -> CallRecord]
    /\ \A s \in Clients :
          /\ \/ call'[s].sent = <<>>
             \/ call'[s].sent = call[s].sent /\ call'[s].start = call[s].start
          /\ call'[s].at = "answering" =>
                call[s].at = "answering" /\ call'[s].req = call[s].req

\* What was told stays true when nobody is told anything.
LEMMA QuietTold ==
    ASSUME NEW recs, Told(recs), Quiet
    PROVE  Told(recs)'
<1>1. ASSUME NEW c \in Consumers, NEW i \in DOMAIN call'[c].sent
      PROVE  /\ call'[c].sent[i] \in recs
             /\ call'[c].sent[i].offset = call'[c].start + i - 1
  <2>1. c \in Clients
    BY DEF Clients
  <2>2. call'[c].sent # <<>>
    OBVIOUS
  <2>3. call'[c].sent = call[c].sent /\ call'[c].start = call[c].start
    BY <2>1, <2>2 DEF Quiet
  <2>. QED
    BY <2>3 DEF Told
<1>2. ASSUME NEW p \in Producers, call'[p].at = "answering" PROVE call'[p].req \in recs
  BY <1>2 DEF Told, Quiet, Clients
<1>. QED
  BY <1>1, <1>2 DEF Told

\* A quiet step that leaves the log alone and gives Raft nothing.
LEMMA QuietServed ==
    ASSUME NEW recs, Served(recs), Quiet, UNCHANGED <<log, calls>>, pending' \subseteq pending
    PROVE  Served(recs)'
<1>1. Told(recs)'
  BY QuietTold DEF Served
<1>2. CallsTyped' /\ Records(log', recs)
  BY DEF Served, CallsTyped, Quiet
<1>3. Produced(recs)'
  BY DEF Served, Produced
<1>. QED
  BY <1>1, <1>2, <1>3 DEF Served

\* No call is a call with nothing told.
LEMMA NoCallType ==
    NoCall \in CallRecord /\ NoCall.sent = <<>> /\ NoCall.at = "none"
<1>1. NoRecord \in Record
  BY DEF NoRecord, Record
<1>2. <<>> \in Seq(Record)
  BY EmptySeq
<1>. QED
  BY <1>1, <1>2 DEF NoCall, CallRecord

\* One call changes, and its client is told nothing.
LEMMA OneQuiet ==
    ASSUME CallsTyped, NEW s \in Clients, NEW e \in CallRecord,
           call' = [call EXCEPT ![s] = e],
           e.sent = <<>> \/ (e.sent = call[s].sent /\ e.start = call[s].start),
           e.at = "answering" => call[s].at = "answering" /\ e.req = call[s].req
    PROVE  Quiet
<1>1. call' \in [Clients -> CallRecord]
  BY DEF CallsTyped
<1>2. call'[s] = e /\ \A u \in Clients : u # s => call'[u] = call[u]
  BY DEF CallsTyped
<1>. QED
  BY <1>1, <1>2 DEF Quiet

\* A handler that returns tells its client nothing.
LEMMA ReturnsQuiet ==
    ASSUME CallsTyped, NEW s \in Clients, Returns(s)
    PROVE  Quiet
BY NoCallType, OneQuiet DEF Returns

\* Calls begin and end.
LEMMA OpenServed ==
    ASSUME NEW recs, Served(recs), NEW s \in Clients, Open(s)
    PROVE  Served(recs)'
<1>1. CallsTyped
  BY DEF Served
<1>2. ASSUME NEW e \in CallRecord, e.sent = <<>>, e.at # "answering", authenticate(s, e)
      PROVE  Quiet
  <2>1. PICK name \in Subjects \cup {Anonymous} :
            call' = [call EXCEPT ![s] = [e EXCEPT !.subject = name]]
    BY <1>2 DEF authenticate
  <2> DEFINE f == [e EXCEPT !.subject = name]
  <2>2. f \in CallRecord /\ f.sent = <<>> /\ f.at # "answering"
    BY <1>2 DEF CallRecord
  <2>3. call' = [call EXCEPT ![s] = f]
    BY <2>1
  <2> HIDE DEF f
  <2>. QED
    BY <1>1, <2>2, <2>3, OneQuiet
<1>3. Quiet
  <2> DEFINE p == [NoCall EXCEPT !.at = "recv"]
             c(off) == [NoCall EXCEPT !.at = "reading", !.start = off]
  <2>1. p \in CallRecord /\ p.sent = <<>> /\ p.at # "answering"
    BY NoCallType DEF CallRecord
  <2>2. ASSUME NEW off \in Starts
        PROVE  c(off) \in CallRecord /\ c(off).sent = <<>> /\ c(off).at # "answering"
    BY NoCallType DEF CallRecord
  <2>3. authenticate(s, p) \/ \E off \in Starts : authenticate(s, c(off))
    BY DEF Open
  <2> HIDE DEF p, c
  <2>. QED
    BY <1>2, <2>1, <2>2, <2>3
<1>4. UNCHANGED <<log, pending, calls>>
  BY DEF Open
<1>. QED
  BY <1>3, <1>4, QuietServed

\* A client that goes away, whose stream ends now or with the next send.
LEMMA ClientGoesServed ==
    ASSUME NEW recs, Served(recs), NEW s \in Clients, ClientGoes(s)
    PROVE  Served(recs)'
<1>1. CallsTyped /\ UNCHANGED <<log, pending, calls>>
  BY DEF Served, ClientGoes
<1>2. CASE Returns(s)
  BY <1>1, <1>2, ReturnsQuiet, QuietServed
<1>3. CASE call' = [call EXCEPT ![s].there = FALSE]
  <2> DEFINE e == [call[s] EXCEPT !.there = FALSE]
  <2>1. call[s] \in CallRecord
    BY <1>1 DEF CallsTyped
  <2>2. /\ e \in CallRecord /\ e.sent = call[s].sent /\ e.start = call[s].start
        /\ e.at = call[s].at /\ e.req = call[s].req
    BY <2>1 DEF CallRecord
  <2>3. call' = [call EXCEPT ![s] = e]
    BY <1>3
  <2> HIDE DEF e
  <2>4. Quiet
    BY <1>1, <2>2, <2>3, OneQuiet
  <2>. QED
    BY <1>1, <2>4, QuietServed
<1>. QED
  BY <1>2, <1>3 DEF ClientGoes

\* A request gets the next id.
LEMMA ProduceRecvServed ==
    ASSUME NEW recs, Served(recs), NEW p \in Producers, NEW len \in RecordLens,
           ProduceRecv(p, len)
    PROVE  Served(recs)'
<1>1. CallsTyped /\ p \in Clients
  BY DEF Served, Clients
<1>2. CASE Returns(p) /\ UNCHANGED <<calls, pending>>
  BY <1>1, <1>2, ReturnsQuiet, QuietServed DEF ProduceRecv
<1>3. CASE Authorize(p, "produce")
  <2> DEFINE r == [offset |-> 0, id |-> calls + 1, len |-> len]
             f == [call[p] EXCEPT !.at = "applying"]
             e == [f EXCEPT !.req = r]
  <2>1. /\ calls < MaxRecords /\ calls' = calls + 1 /\ pending' = pending \cup {r}
        /\ call' = [call EXCEPT ![p].at = "applying", ![p].req = r]
        /\ UNCHANGED log
    BY <1>3 DEF ProduceRecv
  <2>2. call[p] \in CallRecord /\ calls \in Nat
    BY <1>1, ServerAssumption DEF CallsTyped
  <2>3. r \in Record /\ r.id = calls + 1
    BY <2>2, ServerAssumption DEF Record
  <2>4. call' = [call EXCEPT ![p] = e]
    BY <1>1, <2>1 DEF CallsTyped
  <2> HIDE DEF r
  <2>5. /\ f \in CallRecord /\ f.sent = call[p].sent /\ f.start = call[p].start
        /\ f.at = "applying"
    BY <2>2 DEF CallRecord
  <2> HIDE DEF f
  <2>6. /\ e \in CallRecord /\ e.sent = call[p].sent /\ e.start = call[p].start
        /\ e.at = "applying"
    BY <2>3, <2>5 DEF CallRecord
  <2> HIDE DEF e
  <2>7. Quiet
    BY <1>1, <2>4, <2>6, OneQuiet
  <2>8. Told(recs)'
    BY <2>7, QuietTold DEF Served
  <2>9. Produced(recs)'
    <3>1. \A q \in recs \cup pending : q.id \in Nat /\ q.id <= calls
      BY DEF Served, Produced, Records, Record
    <3>2. \A q \in recs \cup pending' : q.id <= calls'
      BY <2>1, <2>2, <2>3, <3>1
    <3>3. \A q \in recs \cup pending : q.id # r.id
      BY <2>2, <2>3, <3>1
    <3>4. pending' \subseteq Record
      BY <2>1, <2>3 DEF Served, Produced
    <3>5. \A q \in pending', k \in recs : q.id # k.id
      BY <2>1, <3>3 DEF Served, Produced
    <3>6. \A q, k \in pending' : q.id = k.id => q = k
      BY <2>1, <3>3 DEF Served, Produced
    <3>. QED
      BY <3>2, <3>4, <3>5, <3>6 DEF Produced
  <2>10. CallsTyped'
    BY <2>1, <2>2, <2>7, ServerAssumption DEF CallsTyped, Quiet
  <2>11. Records(log', recs)
    BY <2>1 DEF Served
  <2>. QED
    BY <2>8, <2>9, <2>10, <2>11 DEF Served
<1>. QED
  BY <1>2, <1>3 DEF ProduceRecv

\* The handlers of producers.
LEMMA ProducerServed ==
    ASSUME NEW recs, Served(recs), NEW p \in Producers,
           ProduceEnds(p) \/ ProduceSend(p) \/ RaftFails(p)
    PROVE  Served(recs)'
<1>1. CallsTyped /\ p \in Clients
  BY DEF Served, Clients
<1>2. CASE ProduceEnds(p)
  BY <1>1, <1>2, ReturnsQuiet, QuietServed DEF ProduceEnds
<1>3. CASE RaftFails(p)
  <2>1. Returns(p) /\ UNCHANGED <<log, calls>> /\ pending' \subseteq pending
    BY <1>3 DEF RaftFails
  <2>. QED
    BY <1>1, <2>1, ReturnsQuiet, QuietServed
<1>4. CASE ProduceSend(p)
  <2> DEFINE f == [call[p] EXCEPT !.at = "recv"]
             e == [f EXCEPT !.req = NoRecord]
  <2>1. /\ call' = [call EXCEPT ![p].at = "recv", ![p].req = NoRecord]
        /\ UNCHANGED <<log, pending, calls>>
    BY <1>4 DEF ProduceSend
  <2>2. call[p] \in CallRecord /\ NoRecord \in Record
    BY <1>1 DEF CallsTyped, NoRecord, Record
  <2>3. call' = [call EXCEPT ![p] = e]
    BY <1>1, <2>1 DEF CallsTyped
  <2>4. /\ f \in CallRecord /\ f.sent = call[p].sent /\ f.start = call[p].start
        /\ f.at = "recv"
    BY <2>2 DEF CallRecord
  <2> HIDE DEF f
  <2>5. /\ e \in CallRecord /\ e.sent = call[p].sent /\ e.start = call[p].start
        /\ e.at = "recv"
    BY <2>2, <2>4 DEF CallRecord
  <2> HIDE DEF e
  <2>6. Quiet
    BY <1>1, <2>3, <2>5, OneQuiet
  <2>. QED
    BY <2>1, <2>6, QuietServed
<1>. QED
  BY <1>2, <1>3, <1>4

\* The answer of Raft to the handler that waits.
LEMMA AnswerType ==
    ASSUME NEW e \in CallRecord, NEW end \in Nat
    PROVE  LET a == [e EXCEPT !.at = "answering", !.req.offset = end]
           IN  /\ a \in CallRecord /\ a.at = "answering"
               /\ a.req = [offset |-> end, id |-> e.req.id, len |-> e.req.len]
               /\ a.sent = e.sent /\ a.start = e.start
<1> DEFINE r == [e.req EXCEPT !.offset = end]
           f == [e EXCEPT !.at = "answering"]
           a == [f EXCEPT !.req = r]
<1>1. [e EXCEPT !.at = "answering", !.req.offset = end] = a
  BY DEF CallRecord
<1>2. r \in Record /\ r = [offset |-> end, id |-> e.req.id, len |-> e.req.len]
  BY DEF CallRecord, Record
<1> HIDE DEF r
<1>3. f \in CallRecord /\ f.at = "answering" /\ f.sent = e.sent /\ f.start = e.start
  BY DEF CallRecord
<1> HIDE DEF f
<1>4. /\ a \in CallRecord /\ a.at = "answering" /\ a.req = r
      /\ a.sent = e.sent /\ a.start = e.start
  BY <1>2, <1>3 DEF CallRecord
<1> HIDE DEF a
<1>. QED
  BY <1>1, <1>2, <1>4

\* Raft applies a record: the log has one more, and its producer is told where.
LEMMA RaftAppliesServed ==
    ASSUME NEW recs, Served(recs), NEW r \in pending, RaftApplies(r)
    PROVE  \E more : Served(more)'
<1>0. PICK end : end = AppendTarget(log, HighestOffset(log)).next
  OBVIOUS
<1> DEFINE new == [offset |-> end, id |-> r.id, len |-> r.len]
           more == recs \cup {new}
<1>1. r \in Record /\ r.id \in Nat /\ r.len \in Nat /\ \A q \in recs : q.id # r.id
  BY DEF Served, Produced, Record
<1>2. end \in Nat /\ new \in Record /\ Records(Applied(log, r.id, r.len), more)
  <2>1. \A id, len \in Nat :
            (\A q \in recs : q.id # id) =>
                LET top == AppendTarget(log, HighestOffset(log)).next
                    x == [offset |-> top, id |-> id, len |-> len]
                IN  top \in Nat /\ x \in Record /\ Records(Applied(log, id, len), recs \cup {x})
    BY RecordsApplied DEF Served
  <2>. QED
    BY <1>0, <1>1, <2>1
<1>3. /\ pending' = pending \ {r}
      /\ call' = [s \in Clients |->
             IF ~Waits(s, r) THEN call[s]
             ELSE [call[s] EXCEPT !.at = "answering", !.req.offset = end]]
      /\ log' = Applied(log, r.id, r.len)
      /\ UNCHANGED calls
  BY <1>0 DEF RaftApplies
<1>4. new.id = r.id
  OBVIOUS
<1>5. ASSUME NEW s \in Clients
      PROVE  /\ call'[s] \in CallRecord
             /\ call'[s].sent = call[s].sent /\ call'[s].start = call[s].start
             /\ call'[s].at = "answering" =>
                   \/ call[s].at = "answering" /\ call'[s].req = call[s].req
                   \/ call'[s].req = new
  <2>1. call[s] \in CallRecord
    BY DEF Served, CallsTyped
  <2>2. CASE ~Waits(s, r)
    BY <1>3, <2>1, <2>2
  <2>3. CASE Waits(s, r)
    <3> DEFINE a == [call[s] EXCEPT !.at = "answering", !.req.offset = end]
    <3>1. call'[s] = a
      BY <1>3, <2>3
    <3>2. call[s].req = r
      BY <2>3 DEF Waits
    <3>3. /\ a \in CallRecord
          /\ a.req = [offset |-> end, id |-> call[s].req.id, len |-> call[s].req.len]
          /\ a.sent = call[s].sent /\ a.start = call[s].start
      BY <1>2, <2>1, AnswerType
    <3> HIDE DEF a
    <3>. QED
      BY <3>1, <3>2, <3>3
  <2>. QED
    BY <2>2, <2>3
<1>6. DOMAIN call' = Clients /\ call' = [s \in Clients |-> call'[s]]
  BY <1>3
<1> HIDE DEF new
<1>7. CallsTyped'
  BY <1>3, <1>5, <1>6 DEF Served, CallsTyped
<1>8. Told(more)'
  <2>1. Told(recs)
    BY DEF Served
  <2>2. ASSUME NEW c \in Consumers, NEW i \in DOMAIN call'[c].sent
        PROVE  /\ call'[c].sent[i] \in more
               /\ call'[c].sent[i].offset = call'[c].start + i - 1
    <3>1. call'[c].sent = call[c].sent /\ call'[c].start = call[c].start
      BY <1>5 DEF Clients
    <3>. QED
      BY <2>1, <3>1 DEF Told
  <2>3. ASSUME NEW p \in Producers, call'[p].at = "answering"
        PROVE  call'[p].req \in more
    BY <1>5, <2>1, <2>3 DEF Told, Clients
  <2> HIDE DEF more
  <2>. QED
    BY <2>2, <2>3 DEF Told
<1>9. Produced(more)'
  <2>1. \A q \in more \cup pending' : q.id <= calls'
    BY <1>3, <1>4 DEF Served, Produced
  <2>2. \A q \in pending' : q.id # new.id
    BY <1>3, <1>4 DEF Served, Produced
  <2>3. \A q \in pending', k \in more : q.id # k.id
    BY <1>3, <2>2 DEF Served, Produced
  <2>4. pending' \subseteq Record /\ \A q, k \in pending' : q.id = k.id => q = k
    BY <1>3 DEF Served, Produced
  <2> HIDE DEF more
  <2>. QED
    BY <2>1, <2>3, <2>4 DEF Produced
<1>10. Records(log', more)
  BY <1>2, <1>3
<1> HIDE DEF more
<1>11. Served(more)'
  BY <1>7, <1>8, <1>9, <1>10 DEF Served
<1>. QED
  BY <1>11

\* A turn of ConsumeStream flushes the segment that it reads.
LEMMA ReadFlushes ==
    ASSUME NEW recs, Records(log, recs), NEW off, ReadLog(log, off).err # "OffsetOutOfRange",
           log' = FlushSegment(log, FindSegment(log, off))
    PROVE  Records(log', recs)
<1> DEFINE i == FindSegment(log, off)
           m == FlushSegment(log, i)
<1>1. GoodLog(log, recs) /\ SoundLog(log)
  BY DEF Records
<1>2. i # 0
  BY DEF ReadLog, Failure
<1> HIDE DEF i
<1>3. i \in DOMAIN log.segments
  BY <1>1, <1>2, FoundFirst DEF i
<1>4. LET n == FlushSegment(log, i)
      IN  /\ GoodLog(n, recs)
          /\ Len(n.segments) = Len(log.segments)
          /\ DOMAIN n.segments = DOMAIN log.segments
          /\ \A j \in DOMAIN log.segments :
                /\ n.segments[j].base = log.segments[j].base
                /\ n.segments[j].next = log.segments[j].next
          /\ Stored(n) = Stored(log) /\ Ends(n) = Ends(log)
  BY <1>1, <1>3, GoodFlush
<1>5. SoundLog(m)
  BY <1>1, <1>3, FlushSegmentSound
<1>6. log' = m
  BY DEF i
<1> HIDE DEF m
<1>7. GoodLog(m, recs) /\ DOMAIN m.segments = DOMAIN log.segments /\ Stored(m) = Stored(log)
  BY <1>4 DEF m
<1>. QED
  BY <1>5, <1>6, <1>7, RecordsSame

\* A consumer is sent the record of the offset it is at.
LEMMA ConsumeServed ==
    ASSUME NEW recs, Served(recs), NEW c \in Consumers, ConsumeTurn(c)
    PROVE  Served(recs)'
<1>1. CallsTyped /\ c \in Clients /\ call[c] \in CallRecord /\ UNCHANGED <<pending, calls>>
  BY DEF Served, CallsTyped, Clients, ConsumeTurn
<1>2. CASE Returns(c) /\ UNCHANGED log
  BY <1>1, <1>2, ReturnsQuiet, QuietServed
<1>3. CASE call[c].there /\ Authorize(c, "consume")
  <2> DEFINE off == NextFor(c)
             r == ReadLog(log, off)
  <2>1. /\ r.err # "OffsetOutOfRange" /\ Answered(c, r)
        /\ log' = FlushSegment(log, FindSegment(log, off))
    BY <1>3 DEF ConsumeTurn
  <2>2. /\ call[c].start \in Nat /\ call[c].sent \in Seq(Record)
        /\ Len(call[c].sent) \in Nat /\ off = call[c].start + Len(call[c].sent)
        /\ off \in Nat
    <3>1. call[c].sent \in Seq(Record)
      BY <1>1 DEF CallRecord
    <3>2. call[c].start \in Nat
      <4>1. Starts \cup {0} \subseteq Nat
        BY ServerAssumption
      <4>2. call[c].start \in Starts \cup {0}
        BY <1>1 DEF CallRecord
      <4>. QED
        BY <4>1, <4>2
    <3>3. Len(call[c].sent) \in Nat
      BY <3>1, LenProperties
    <3>4. off = call[c].start + Len(call[c].sent)
      BY DEF NextFor
    <3>. QED
      BY <3>1, <3>2, <3>3, <3>4
  <2> HIDE DEF off
  <2>3. Records(log', recs)
    BY <2>1, ReadFlushes DEF Served
  <2>4. Produced(recs)'
    BY <1>1 DEF Served, Produced
  <2>5. CASE r.err # ""
    <3> DEFINE e == [call[c] EXCEPT !.at = "refused"]
    <3>1. call' = [call EXCEPT ![c] = e]
      <4>1. call' = [call EXCEPT ![c].at = "refused"]
        BY <2>1, <2>5 DEF Answered
      <4>. QED
        BY <1>1, <4>1 DEF CallsTyped
    <3>2. /\ e \in CallRecord /\ e.sent = call[c].sent /\ e.start = call[c].start
          /\ e.at = "refused"
      BY <1>1 DEF CallRecord
    <3> HIDE DEF e
    <3>3. Quiet
      BY <1>1, <3>1, <3>2, OneQuiet
    <3>4. Told(recs)' /\ CallsTyped'
      BY <1>1, <3>3, QuietTold DEF Served, Quiet, CallsTyped
    <3>. QED
      BY <2>3, <2>4, <3>4 DEF Served
  <2>6. CASE r.err = ""
    <3>1. off \in Nat /\ Readable(log, off) /\ GoodLog(log, recs)
      <4>1. GoodLog(log, recs)
        BY DEF Served, Records
      <4>2. Readable(log, off)
        BY <2>6 DEF Readable
      <4>. QED
        BY <2>2, <4>1, <4>2
    <3>2. \E q \in recs : ReadsRecord(log, off, q)
      BY <3>1, ReadGood
    <3>3. r.rec \in recs /\ r.rec.offset = off
      <4>1. ASSUME NEW q, ReadsRecord(log, off, q) PROVE r.rec = q /\ q.offset = off
        <5>1. r = [err |-> "", rec |-> q] /\ q.offset = off
          BY <4>1 DEF ReadsRecord
        <5> HIDE DEF r
        <5>. QED
          BY <5>1, RecordOfResult
      <4>. QED
        BY <3>2, <4>1
    <3> DEFINE q == r.rec
               more == Append(call[c].sent, q)
               e == [call[c] EXCEPT !.sent = more]
    <3>4. call' = [call EXCEPT ![c] = e]
      <4>1. call' = [call EXCEPT ![c].sent = Append(@, r.rec)]
        BY <2>1, <2>6 DEF Answered
      <4> HIDE DEF r
      <4>. QED
        BY <1>1, <4>1 DEF CallsTyped
    <3> HIDE DEF r
    <3>5. q \in recs /\ q \in Record /\ q.offset = off
      BY <3>3 DEF Served, Records
    <3> HIDE DEF q
    <3>6. /\ more \in Seq(Record) /\ DOMAIN more = 1 .. Len(call[c].sent) + 1
          /\ \A i \in 1 .. Len(call[c].sent) : more[i] = call[c].sent[i]
          /\ more[Len(call[c].sent) + 1] = q
      BY <2>2, <3>5, AppendProperties
    <3> HIDE DEF more
    <3>7. /\ e \in CallRecord /\ e.sent = more /\ e.start = call[c].start
          /\ e.at = call[c].at /\ e.req = call[c].req
      BY <1>1, <3>6 DEF CallRecord
    <3> HIDE DEF e
    <3>8. call'[c] = e /\ \A u \in Clients : u # c => call'[u] = call[u]
      BY <1>1, <3>4 DEF CallsTyped
    <3>9. CallsTyped'
      BY <1>1, <3>4, <3>7 DEF CallsTyped
    <3>10. \A i \in DOMAIN more : more[i] \in recs /\ more[i].offset = call[c].start + i - 1
      <4>1. \A i \in DOMAIN call[c].sent :
                /\ call[c].sent[i] \in recs
                /\ call[c].sent[i].offset = call[c].start + i - 1
        BY DEF Served, Told
      <4>2. DOMAIN call[c].sent = 1 .. Len(call[c].sent)
        BY <2>2, LenProperties
      <4>3. ASSUME NEW i \in DOMAIN more
            PROVE  more[i] \in recs /\ more[i].offset = call[c].start + i - 1
        <5>1. CASE i = Len(call[c].sent) + 1
          BY <2>2, <3>5, <3>6, <5>1
        <5>2. CASE i \in 1 .. Len(call[c].sent)
          BY <3>6, <4>1, <4>2, <5>2
        <5>. QED
          BY <2>2, <3>6, <5>1, <5>2
      <4>. QED
        BY <4>3
    <3>11. Told(recs)'
      <4>1. ASSUME NEW d \in Consumers, NEW i \in DOMAIN call'[d].sent
            PROVE  /\ call'[d].sent[i] \in recs
                   /\ call'[d].sent[i].offset = call'[d].start + i - 1
        <5>1. CASE d = c
          BY <3>7, <3>8, <3>10, <5>1
        <5>2. CASE d # c
          <6>1. call'[d] = call[d]
            BY <3>8, <5>2 DEF Clients
          <6>. QED
            BY <6>1 DEF Served, Told
        <5>. QED
          BY <5>1, <5>2
      <4>2. ASSUME NEW p \in Producers, call'[p].at = "answering" PROVE call'[p].req \in recs
        <5>1. p \in Clients /\ p # c
          BY ServerAssumption DEF Clients
        <5>2. call'[p] = call[p]
          BY <3>8, <5>1
        <5>. QED
          BY <4>2, <5>2 DEF Served, Told
      <4>. QED
        BY <4>1, <4>2 DEF Told
    <3>. QED
      BY <2>3, <2>4, <3>9, <3>11 DEF Served
  <2>. QED
    BY <2>5, <2>6
<1>. QED
  BY <1>2, <1>3 DEF ConsumeTurn

-----------------------------------------------------------------------------
(* The records of a running agent.                                          *)

\* Raft's goroutine and the handlers of clients keep what was told true.
HasRecords == \E recs : Served(recs)

\* The agent starts on a log to which the earlier records were applied.
LEMMA InitRecords == Init => HasRecords
<1> SUFFICES ASSUME Init PROVE HasRecords
  OBVIOUS
<1>1. /\ log = FoldLeft(AppliedEarlier, EmptyLog, [k \in DOMAIN Earlier |-> k])
      /\ call = [s \in Clients |-> NoCall] /\ pending = {} /\ calls = Len(Earlier)
  BY DEF Init, ServerInit
<1>2. RecordsUpTo(log, Len(Earlier))
  BY <1>1, EarlierRecords
<1>3. PICK recs : Records(log, recs) /\ \A r \in recs : r.id <= Len(Earlier)
  BY <1>2 DEF RecordsUpTo
<1>4. CallsTyped
  <2>1. Len(Earlier) \in 0 .. MaxRecords
    BY ServerAssumption, LenProperties
  <2>. QED
    BY <1>1, <2>1, NoCallType DEF CallsTyped
<1>5. Produced(recs)
  BY <1>1, <1>3 DEF Produced
<1>6. Told(recs)
  <2>1. \A s \in Clients : call[s].sent = <<>> /\ call[s].at = "none"
    BY <1>1, NoCallType
  <2>. QED
    BY <2>1 DEF Told, Clients
<1>. QED
  BY <1>3, <1>4, <1>5, <1>6 DEF HasRecords, Served

\* A step that leaves the server alone.
LEMMA StillServed ==
    ASSUME HasRecords, UNCHANGED serverVars
    PROVE  HasRecords'
<1>1. PICK recs : Served(recs)
  BY DEF HasRecords
<1>2. Quiet
  BY <1>1 DEF Served, CallsTyped, serverVars, Quiet
<1>3. Served(recs)'
  BY <1>1, <1>2, QuietServed DEF serverVars
<1>. QED
  BY <1>3 DEF HasRecords

\* Calls that begin and clients that go keep the records.
LEMMA ClientRecords ==
    ASSUME HasRecords, Arrival \/ Request \/ \E s \in Clients : ClientGoes(s)
    PROVE  HasRecords'
<1>1. PICK recs : Served(recs)
  BY DEF HasRecords
<1>2. Served(recs)'
  BY <1>1, OpenServed, ProduceRecvServed, ClientGoesServed DEF Arrival, Request
<1>. QED
  BY <1>2 DEF HasRecords

\* The handlers' own steps keep the records (server.go).
LEMMA HandlerRecords ==
    ASSUME HasRecords, NEW s \in Clients, HandlerStep(s)
    PROVE  HasRecords'
<1>1. PICK recs : Served(recs)
  BY DEF HasRecords
<1>2. Served(recs)'
  BY <1>1, ProducerServed, ConsumeServed DEF HandlerStep
<1>. QED
  BY <1>2 DEF HasRecords

\* Raft's answers, and what it applies late, keep the records.
LEMMA RaftRecords ==
    ASSUME HasRecords,
           \/ \E r \in pending : RaftApplies(r)
           \/ \E p \in Producers : RaftAnswers(p)
    PROVE  HasRecords'
<1>1. PICK recs : Served(recs)
  BY DEF HasRecords
<1>2. ASSUME NEW r \in pending, RaftApplies(r) PROVE HasRecords'
  BY <1>1, <1>2, RaftAppliesServed DEF HasRecords
<1>3. ASSUME NEW p \in Producers, RaftFails(p) PROVE HasRecords'
  <2>1. Served(recs)'
    BY <1>1, <1>3, ProducerServed
  <2>. QED
    BY <2>1 DEF HasRecords
<1>4. ASSUME NEW r, RaftApplies(r) PROVE r \in pending
  BY <1>4 DEF RaftApplies
<1>. QED
  BY <1>2, <1>3, <1>4 DEF RaftAnswers

\* Closing Raft answers whoever waits for it, with no offset.
LEMMA CloseRaftRecords ==
    ASSUME HasRecords, NEW t \in Callers, CloseRaft(t)
    PROVE  HasRecords'
<1>1. PICK recs : Served(recs)
  BY DEF HasRecords
<1>2. /\ pending' = {} /\ UNCHANGED <<log, calls>>
      /\ call' = [s \in Clients |-> IF call[s].at = "applying" THEN NoCall ELSE call[s]]
  BY DEF CloseRaft
<1>3. \A s \in Clients : call'[s] = NoCall \/ call'[s] = call[s]
  BY <1>2
<1>4. call' \in [Clients -> CallRecord]
  BY <1>1, <1>2, NoCallType DEF Served, CallsTyped
<1>5. Quiet
  BY <1>3, <1>4, NoCallType DEF Quiet
<1>6. Served(recs)'
  BY <1>1, <1>2, <1>5, QuietServed
<1>. QED
  BY <1>6 DEF HasRecords

\* The files have every record of the segments.
InFiles(l) ==
    \A i \in DOMAIN l.segments :
        Len(l.files[l.segments[i].base].store) = l.segments[i].next - l.segments[i].base

\* Closing the log loses no record, and the last segment closed puts the last in
\* its file.
LEMMA CloseLogRecords ==
    ASSUME HasRecords, NEW n \in 0 .. Len(log.segments), log' = ClosedLog(log, n),
           UNCHANGED <<call, pending, calls>>
    PROVE  HasRecords' /\ (n = Len(log.segments) => InFiles(log'))
<1>1. PICK recs : Served(recs)
  BY DEF HasRecords
<1>2. Records(log, recs) /\ GoodLog(log, recs) /\ SoundLog(log)
  BY <1>1 DEF Served, Records
<1> DEFINE m == ClosedLog(log, n)
<1>3. ClosedAs(m, log, recs, n)
  BY <1>2, GoodClosed
<1>4. log' = m
  OBVIOUS
<1> HIDE DEF m
<1>5. /\ GoodLog(m, recs) /\ SoundLog(m)
      /\ DOMAIN m.segments = DOMAIN log.segments
      /\ \A j \in DOMAIN log.segments : /\ m.segments[j].base = log.segments[j].base
                                        /\ m.segments[j].next = log.segments[j].next
      /\ \A j \in 1 .. n :
            Len(m.files[log.segments[j].base].store)
                = log.segments[j].next - log.segments[j].base
  BY <1>3 DEF ClosedAs
<1>6. Stored(m) = Stored(log)
  BY <1>5, SameOffsets
<1>7. Records(m, recs)
  BY <1>2, <1>5, <1>6, RecordsSame
<1>8. HasRecords'
  <2>1. CallsTyped' /\ Produced(recs)' /\ Told(recs)'
    BY <1>1 DEF Served, CallsTyped, Produced, Told
  <2>2. Served(recs)'
    BY <1>4, <1>7, <2>1 DEF Served
  <2>. QED
    BY <2>2 DEF HasRecords
<1>9. ASSUME n = Len(log.segments) PROVE InFiles(m)
  <2>1. DOMAIN log.segments = 1 .. n
    BY <1>2, <1>9, LenProperties DEF SoundLog
  <2>. QED
    BY <1>5, <2>1 DEF InFiles
<1>. QED
  BY <1>4, <1>8, <1>9

-----------------------------------------------------------------------------
(* The log of an agent that has been shut down.                             *)

\* The log is closed last, by the one caller that closes, with every record in
\* its file.
Sealed ==
    stage = "up" /\ "log" \notin open =>
        /\ shutdown /\ open = {} /\ \A t \in Callers : ~Inside(t)
        /\ InFiles(log)

\* The multiplexer and the flag have their values.
Flags == mux \in {"off", "serving", "closed"} /\ shutdown \in BOOLEAN

AgentInv == IInv /\ HasRecords /\ Sealed /\ Flags

\* All parts of the invariant hold when New begins.
LEMMA InitAgent == Init => AgentInv
<1> SUFFICES ASSUME Init PROVE AgentInv
  OBVIOUS
<1>1. stage = "mux" /\ mux = "off" /\ shutdown = FALSE
  BY DEF Init
<1>2. Sealed /\ Flags
  BY <1>1 DEF Sealed, Flags
<1>. QED
  BY <1>2, InitInv, InitRecords DEF AgentInv

\* A step that leaves the agent alone, of a client, a handler or Raft.
LEMMA CalmAgent ==
    ASSUME AgentInv, IInv', HasRecords', UNCHANGED agentVars,
           stage = "up" /\ "log" \notin open => UNCHANGED log
    PROVE  AgentInv'
<1>1. Sealed'
  BY DEF AgentInv, Sealed, agentVars, Inside
<1>2. Flags'
  BY DEF AgentInv, Flags, agentVars
<1>. QED
  BY <1>1, <1>2 DEF AgentInv

\* New does not touch the log, and gives up before anything is closed.
LEMMA SetupAgent ==
    ASSUME AgentInv, IInv', SetupStep
    PROVE  AgentInv'
<1>1. PICK from, next, opens : Setup(from, next, opens) /\ (next = "up" => from = "serve")
  BY DEF SetupStep, SetupMux, SetupLog, SetupServer, SetupMembership, StartServe,
         NewDistributedLogFails, WaitForLeaderFails
<1>2. /\ stage = from /\ stage' = next /\ open' = open \cup opens
      /\ UNCHANGED <<serverVars, shutdown>>
  BY <1>1 DEF Setup
<1>3. HasRecords'
  BY <1>2, StillServed DEF AgentInv
<1>4. Sealed'
  BY <1>1, <1>2 DEF AgentInv, IInv, Opened, Sealed
<1>5. mux' = mux \/ mux' = "serving"
  BY DEF SetupStep, SetupMux, SetupLog, SetupServer, SetupMembership, StartServe
<1>6. Flags'
  BY <1>2, <1>5 DEF AgentInv, Flags
<1>. QED
  BY <1>3, <1>4, <1>6 DEF AgentInv

\* Somebody comes to Shutdown: nothing is closed by that alone.
LEMMA CallAgent ==
    ASSUME AgentInv, IInv', MuxFails \/ \E t \in Callers : Call(t)
    PROVE  AgentInv'
<1>1. UNCHANGED <<serverVars, stage, open, shutdown>>
  BY DEF MuxFails, Call
<1>2. HasRecords'
  BY <1>1, StillServed DEF AgentInv
<1>3. \A t \in Callers : ~Inside(t) => ~Inside(t)'
  <2>1. CASE MuxFails
    BY <2>1 DEF MuxFails, Inside
  <2>2. CASE \E t \in Callers : Call(t)
    BY <2>2 DEF Call, Inside, AgentInv, IInv, Typed
  <2>. QED
    BY <2>1, <2>2
<1>4. Sealed'
  BY <1>1, <1>3 DEF AgentInv, Sealed, serverVars
<1>5. Flags'
  BY <1>1 DEF AgentInv, Flags, MuxFails, Call
<1>. QED
  BY <1>2, <1>4, <1>5 DEF AgentInv

\* While a caller is inside Shutdown, the log is open.
LEMMA ShutdownAgent ==
    ASSUME AgentInv, IInv', NEW t \in Callers, ShutdownStep(t)
    PROVE  AgentInv'
<1>1. Inside(t) => "log" \in open /\ shutdown /\ stage = "up" /\ lock = t
                   /\ open \subseteq Remaining(at[t])
  BY DEF AgentInv, Sealed, IInv, Opened, OneByOne, Inside
<1>2. CASE Enter(t)
  <2>1. UNCHANGED <<serverVars, stage, mux, open>> /\ shutdown' \in BOOLEAN
    BY <1>2 DEF Enter, AgentInv, Flags
  <2>2. HasRecords'
    BY <2>1, StillServed DEF AgentInv
  <2>3. Sealed'
    <3> SUFFICES ASSUME stage' = "up", "log" \notin open'
                 PROVE  /\ shutdown' /\ open' = {} /\ \A u \in Callers : ~Inside(u)'
                        /\ InFiles(log')
      BY DEF Sealed
    <3>1. /\ shutdown /\ open = {} /\ \A u \in Callers : ~Inside(u)
          /\ InFiles(log)
      BY <2>1 DEF AgentInv, Sealed
    <3>2. at' = [at EXCEPT ![t] = "returned"] /\ shutdown'
      BY <1>2, <3>1 DEF Enter, Return
    <3>3. \A u \in Callers : at'[u] = "returned" \/ at'[u] = at[u]
      BY <3>2 DEF AgentInv, IInv, Typed
    <3>. QED
      BY <2>1, <3>1, <3>2, <3>3 DEF Inside, serverVars
  <2>4. Flags'
    BY <2>1 DEF AgentInv, Flags
  <2>. QED
    BY <2>2, <2>3, <2>4 DEF AgentInv
<1>3. ASSUME Inside(t), HasRecords', "log" \in open', shutdown' = shutdown,
             mux' \in {mux, "closed"}
      PROVE  AgentInv'
  BY <1>3 DEF AgentInv, Sealed, Flags
<1>4. ASSUME NEW from, StepFails(t, from), from \in {"leave", "closeRaftLog"} PROVE AgentInv'
  <2>1. at[t] = from /\ UNCHANGED <<serverVars, open, shutdown, mux>>
    BY <1>4 DEF StepFails
  <2>2. Inside(t) /\ HasRecords'
    BY <1>4, <2>1, StillServed DEF Inside, AgentInv
  <2>. QED
    BY <1>1, <1>3, <2>1, <2>2
<1>5. ASSUME NEW from, NEW next, NEW closes, Step(t, from, next, closes), HasRecords',
             from \in {"leave", "stop", "drain", "close", "closeRaftLog"},
             "log" \notin closes, mux' \in {mux, "closed"}
      PROVE  AgentInv'
  <2>1. at[t] = from /\ open' = open \ closes /\ shutdown' = shutdown
    BY <1>5 DEF Step
  <2>2. Inside(t)
    BY <1>5, <2>1 DEF Inside
  <2>. QED
    BY <1>1, <1>3, <1>5, <2>1, <2>2
<1>6. CASE LeaveMembership(t) \/ StopListening(t) \/ Drain(t) \/ CloseRaftLog(t)
  <2>1. HasRecords'
    BY <1>6, StillServed DEF AgentInv, LeaveMembership, StopListening, Drain, CloseRaftLog, StepFails
  <2>. QED
    BY <1>4, <1>5, <1>6, <2>1 DEF LeaveMembership, StopListening, Drain, CloseRaftLog
<1>7. CASE CloseRaft(t)
  <2>1. Step(t, "close", "closeRaftLog", {"raft"}) /\ mux' = mux
    BY <1>7 DEF CloseRaft
  <2>. QED
    BY <1>5, <1>7, <2>1, CloseRaftRecords DEF AgentInv
<1>8. CASE CloseLog(t)
  <2>1. /\ at[t] = "closeLog"
        /\ UNCHANGED <<call, pending, calls, stage, shutdown, mux>>
    BY <1>8 DEF CloseLog
  <2>2. Inside(t) /\ open \subseteq {"log"}
    BY <1>1, <2>1 DEF Inside, Remaining
  <2>3. PICK n \in 0 .. Len(log.segments) :
            /\ log' = ClosedLog(log, n)
            /\ IF n = Len(log.segments)
               THEN Return(t, "nil") /\ open' = open \ {"log"}
               ELSE Return(t, "error") /\ UNCHANGED open
    BY <1>8 DEF CloseLog
  <2>4. HasRecords' /\ (n = Len(log.segments) => InFiles(log'))
    BY <2>1, <2>3, CloseLogRecords DEF AgentInv
  <2>5. CASE n # Len(log.segments)
    BY <1>1, <1>3, <2>1, <2>2, <2>3, <2>4, <2>5
  <2>6. CASE n = Len(log.segments)
    <3>1. open' = {} /\ lock' = "nobody" /\ shutdown'
      BY <1>1, <2>1, <2>2, <2>3, <2>6 DEF Return
    <3>2. \A u \in Callers : ~Inside(u)'
      <4>1. \A u \in Callers : u # "nobody"
        BY DEF Callers
      <4>. QED
        BY <3>1, <4>1 DEF IInv, OneByOne
    <3>3. Sealed'
      BY <2>4, <2>6, <3>1, <3>2 DEF Sealed
    <3>4. Flags'
      BY <2>1 DEF AgentInv, Flags
    <3>. QED
      BY <2>4, <3>3, <3>4 DEF AgentInv
  <2>. QED
    BY <2>5, <2>6
<1>. QED
  BY <1>2, <1>6, <1>7, <1>8 DEF ShutdownStep

\* No handler reads a log that is closed.
LEMMA HandlerAgent ==
    ASSUME AgentInv, IInv', NEW s \in Clients, HandlerStep(s), UNCHANGED agentVars
    PROVE  AgentInv'
<1>1. HasRecords'
  BY HandlerRecords DEF AgentInv
<1>2. stage = "up" /\ "log" \notin open => UNCHANGED log
  <2>1. stage = "up" /\ "log" \notin open => ~Running(s)
    BY DEF AgentInv, IInv, ClosedInOrder
  <2>2. ConsumeTurn(s) => Running(s)
    BY DEF ConsumeTurn, Running
  <2>3. ProduceEnds(s) \/ ProduceSend(s) => UNCHANGED log
    BY DEF ProduceEnds, ProduceSend
  <2>. QED
    BY <2>1, <2>2, <2>3 DEF HandlerStep
<1>. QED
  BY <1>1, <1>2, CalmAgent

\* All parts of the invariant hold in every state.
LEMMA AgentInvariance == Spec => []AgentInv
<1>1. AgentInv /\ [Next]_vars => AgentInv'
  <2> SUFFICES ASSUME AgentInv, [Next]_vars PROVE AgentInv'
    OBVIOUS
  <2>0. IInv'
    BY NextInv DEF AgentInv
  <2>1. CASE SetupStep \/ MuxFails \/ \E t \in Callers : Call(t)
    BY <2>0, <2>1, SetupAgent, CallAgent
  <2>2. CASE UNCHANGED agentVars /\ (Arrival \/ Request \/ \E s \in Clients : ClientGoes(s))
    <3>1. HasRecords'
      BY <2>2, ClientRecords DEF AgentInv
    <3>2. UNCHANGED log
      BY <2>2 DEF Arrival, Open, Request, ProduceRecv, ClientGoes
    <3>. QED
      BY <2>0, <2>2, <3>1, <3>2, CalmAgent
  <2>3. CASE "raft" \in open /\ UNCHANGED agentVars /\ \E r \in pending : RaftApplies(r)
    <3>1. HasRecords'
      BY <2>3, RaftRecords DEF AgentInv
    <3>2. stage = "up" /\ "log" \notin open => UNCHANGED log
      BY <2>3 DEF AgentInv, Sealed
    <3>. QED
      BY <2>0, <2>3, <3>1, <3>2, CalmAgent
  <2>4. CASE \E s \in Clients : Handler(s)
    BY <2>0, <2>4, HandlerAgent DEF Handler
  <2>5. CASE \E p \in Producers : Raft(p)
    <3>1. HasRecords' /\ UNCHANGED agentVars
      BY <2>5, RaftRecords DEF Raft, AgentInv
    <3>2. stage = "up" /\ "log" \notin open => UNCHANGED log
      BY <2>5 DEF Raft, AgentInv, Sealed
    <3>. QED
      BY <2>0, <3>1, <3>2, CalmAgent
  <2>6. CASE \E t \in Callers : Caller(t)
    BY <2>0, <2>6, ShutdownAgent DEF Caller
  <2>7. CASE UNCHANGED vars
    <3>1. UNCHANGED agentVars /\ UNCHANGED serverVars
      BY <2>7 DEF vars
    <3>2. HasRecords'
      BY <3>1, StillServed DEF AgentInv
    <3>. QED
      BY <2>0, <3>1, <3>2, CalmAgent DEF serverVars
  <2>. QED
    BY <2>1, <2>2, <2>3, <2>4, <2>5, <2>6, <2>7 DEF Next
<1>. QED
  BY <1>1, InitAgent, PTL DEF Spec

-----------------------------------------------------------------------------
(* Theorems.                                                                *)

\* No handler of the gRPC server runs when Raft or a log is closed (agent.go
\* Shutdown, distributed.go Close).
THEOREM NothingUsedAfterClose == Spec => []NoUseAfterClose
<1>1. IInv => NoUseAfterClose
  BY DEF IInv, ClosedInOrder, NoUseAfterClose
<1>. QED
  BY <1>1, Invariance, PTL

\* Shutdown finds all that New sets up, whoever calls it (agent.go New, setupServer,
\* Shutdown).
THEOREM ShutdownComesLast == Spec => []ShutdownFindsAll
<1>1. IInv => ShutdownFindsAll
  BY DEF IInv, Opened, ShutdownFindsAll
<1>. QED
  BY <1>1, Invariance, PTL

\* Every variable has its type: the log's segments and files, whatever producers
\* and Raft do to it, and the calls of the clients (server.go, agent.go).
THEOREM TypeCorrect == Spec => []TypeOK
<1>1. AgentInv => TypeOK
  <2> SUFFICES ASSUME AgentInv PROVE TypeOK
    OBVIOUS
  <2>1. PICK recs : Served(recs)
    BY DEF AgentInv, HasRecords
  <2>2. ServerTypeOK
    BY <2>1 DEF Served, CallsTyped, CallRecord, Records, GoodLog, Produced, ServerTypeOK
  <2>. QED
    BY <2>2 DEF AgentInv, IInv, Typed, Stages, Places, Flags, OneByOne, Inside, TypeOK
<1>. QED
  BY <1>1, AgentInvariance, PTL

\* Every consumer is sent the records of the log from its offset on, one after the
\* other, and every producer is told where the log has its record, and only there
\* (server.go ConsumeStream, Produce, distributed.go apply).
THEOREM ClientsAgree == Spec => []StreamsAgree
<1>1. AgentInv => StreamsAgree
  <2> SUFFICES ASSUME AgentInv PROVE StreamsAgree
    OBVIOUS
  <2>1. PICK recs : Served(recs)
    BY DEF AgentInv, HasRecords
  <2>2. Told(recs) /\ Records(log, recs) /\ GoodLog(log, recs)
    BY <2>1 DEF Served, Records
  <2>3. ASSUME NEW r \in recs PROVE Holds(r)
    <3>1. PICK i \in DOMAIN log.segments : r.offset \in Held(log.segments[i])
      BY <2>2, InStored DEF Records
    <3>2. RecordIn(log, i, r.offset) \in recs /\ RecordIn(log, i, r.offset).offset = r.offset
      BY <2>2, <3>1, HeldRecord
    <3>3. RecordIn(log, i, r.offset) = r
      BY <2>2, <3>2 DEF Records
    <3>. QED
      BY <3>1, <3>3 DEF Holds
  <2>4. ASSUME NEW r, Holds(r) PROVE r \in recs
    BY <2>2, <2>4, HeldRecord DEF Holds
  <2>5. ASSUME NEW r \in recs, NEW off, Holds([r EXCEPT !.offset = off]) PROVE off = r.offset
    <3> DEFINE q == [r EXCEPT !.offset = off]
    <3>1. r \in Record
      BY <2>2 DEF Records
    <3>2. q.offset = off /\ q.id = r.id
      BY <3>1 DEF Record
    <3>3. q \in recs
      BY <2>4, <2>5
    <3> HIDE DEF q
    <3>4. q = r
      BY <2>2, <3>2, <3>3 DEF Records
    <3>. QED
      BY <3>2, <3>4
  <2>. QED
    BY <2>2, <2>3, <2>5 DEF Told, StreamsAgree
<1>. QED
  BY <1>1, AgentInvariance, PTL

\* Whoever is told nil by Shutdown finds everything closed and every record in a
\* file, or one of the callers was told of an error (agent.go Shutdown,
\* distributed.go Close, store.go Close).
THEOREM NilIsTrue == Spec => []NilMeansClosed
<1>1. AgentInv => NilMeansClosed
  <2> SUFFICES ASSUME AgentInv, NEW t \in Callers, result[t] = "nil",
                      \A u \in Callers : result[u] # "error"
               PROVE  /\ open = {}
                      /\ \A s \in Range(log.segments) :
                             Len(log.files[s.base].store) = s.next - s.base
    BY DEF NilMeansClosed
  <2>1. open = {}
    BY DEF AgentInv, IInv, NilMeansAllClosed
  <2>2. stage = "up"
    BY DEF AgentInv, IInv, OneByOne, Opened
  <2>3. InFiles(log)
    BY <2>1, <2>2 DEF AgentInv, Sealed
  <2>. QED
    BY <2>1, <2>3 DEF InFiles, Range
<1>. QED
  BY <1>1, AgentInvariance, PTL
=============================================================================
