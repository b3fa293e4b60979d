-------------------------------- MODULE Agent --------------------------------
(***************************************************************************)
(* The life of an agent (internal/agent/agent.go) around the handlers of   *)
(* its gRPC server: New sets it up step by step, and Shutdown, which three *)
(* goroutines may call, takes it down: main after a signal, the goroutine  *)
(* of serve when the multiplexer has stopped, and the goroutine of         *)
(* grpc.Server.Serve when its listener fails.                              *)
(*                                                                         *)
(* Stopping the gRPC server closes the listener that it shares with the    *)
(* multiplexer, so that a Shutdown makes the serve goroutine call Shutdown *)
(* as well.  Connections that clients have outlive the listener.           *)
(***************************************************************************)
EXTENDS Server

VARIABLES stage,    \* the next function of New, "up" or "failed"
          mux,      \* the multiplexer: "off", "serving" or "closed"
          open,     \* the components that are set up and not closed
          shutdown, \* Agent.shutdown
          lock,     \* who holds shutdownLock
          at,       \* at[t]: where t is in Shutdown
          result    \* result[t]: what Shutdown returned to t

agentVars == <<stage, mux, open, shutdown, lock, at, result>>

vars == <<serverVars, agentVars>>

Callers == {"main", "serve", "grpc"}

Components == {"raft", "raftLog", "log", "server", "membership"}

Init ==
    /\ ServerInit
    /\ stage = "mux" /\ mux = "off" /\ open = {}
    /\ shutdown = FALSE /\ lock = "nobody"
    /\ at = [t \in Callers |-> "idle"]
    /\ result = [t \in Callers |-> "none"]

\* The process ends when main returns, from New with its error or from Shutdown.
Alive == stage # "failed" /\ at["main"] # "returned"

-----------------------------------------------------------------------------
(* New.  A step that fails makes New return; what is open stays open.       *)

Setup(from, next, opens) ==
    /\ stage = from
    /\ stage' = next
    /\ open' = open \cup opens
    /\ UNCHANGED <<serverVars, shutdown, lock, at, result>>

\* setupLogger and setupMux.
SetupMux ==
    /\ Setup("mux", "log", {}) \/ Setup("mux", "failed", {})
    /\ UNCHANGED mux

\* NewDistributedLog opens the log, then Raft's log, then starts Raft; an error
\* leaves what came before.
NewDistributedLogFails ==
    \E opens \in {{}, {"log"}, {"log", "raftLog"}} : Setup("log", "failed", opens)

\* The bootstrapping server sees no leader within three seconds.
WaitForLeaderFails == Setup("log", "failed", {"log", "raftLog", "raft"})

SetupLog ==
    /\ \/ Setup("log", "server", {"log", "raftLog", "raft"})
       \/ NewDistributedLogFails
       \/ WaitForLeaderFails
    /\ UNCHANGED mux

\* Mutant: the multiplexer serves as soon as there is a gRPC server.
SetupServerServing ==
    /\ Setup("server", "membership", {"server"}) \/ Setup("server", "failed", {})
    /\ mux' = "serving"

\* The goroutine of grpc.Server.Serve starts, and gets no connection before the
\* multiplexer serves.
SetupServer ==
    /\ Setup("server", "membership", {"server"}) \/ Setup("server", "failed", {})
    /\ UNCHANGED mux

SetupMembership ==
    /\ Setup("membership", "serve", {"membership"}) \/ Setup("membership", "failed", {})
    /\ UNCHANGED mux

\* go agent.serve(), the last thing New does.
StartServe ==
    /\ Setup("serve", "up", {})
    /\ mux' = "serving"

-----------------------------------------------------------------------------
(* Shutdown.                                                                *)

\* The shared listener fails.
MuxFails ==
    /\ mux = "serving"
    /\ mux' = "closed"
    /\ UNCHANGED <<serverVars, stage, open, shutdown, lock, at, result>>

\* GracefulStop has been called.
Quitting == \E t \in Callers : at[t] = "drain" \/ "server" \notin open

\* Why t calls Shutdown.  Serve returns nil, and its goroutine does not call,
\* when GracefulStop had been called before its listener failed.
Reason(t) ==
    CASE t = "main"  -> stage = "up"
      [] t = "serve" -> mux = "closed"
      [] t = "grpc"  -> mux = "closed" /\ ~Quitting

Call(t) ==
    /\ at[t] = "idle" /\ Reason(t)
    /\ at' = [at EXCEPT ![t] = "waiting"]
    /\ UNCHANGED <<serverVars, stage, mux, open, shutdown, lock, result>>

\* Mutant: the Unlock is not deferred, and the last return goes without it.
ReturnLocked(t, r) ==
    /\ at' = [at EXCEPT ![t] = "returned"]
    /\ result' = [result EXCEPT ![t] = r]
    /\ lock' = IF r = "error" THEN lock ELSE "nobody"

\* Shutdown returns r to t, and the deferred Unlock releases the lock.
Return(t, r) ==
    /\ at' = [at EXCEPT ![t] = "returned"]
    /\ result' = [result EXCEPT ![t] = r]
    /\ lock' = "nobody"

\* Mutant: the flag is looked at without the lock.
EnterUnlocked(t) ==
    /\ at[t] = "waiting"
    /\ IF shutdown
       THEN /\ at' = [at EXCEPT ![t] = "returned"]
            /\ result' = [result EXCEPT ![t] = "nil"]
            /\ UNCHANGED <<lock, shutdown>>
       ELSE /\ shutdown' = TRUE
            /\ lock' = t
            /\ at' = [at EXCEPT ![t] = "leave"]
            /\ UNCHANGED result
    /\ UNCHANGED <<serverVars, stage, mux, open>>

\* Lock, and the flag that makes a second call return at once.
Enter(t) ==
    /\ at[t] = "waiting" /\ lock = "nobody"
    /\ IF shutdown
       THEN Return(t, "nil") /\ UNCHANGED shutdown
       ELSE /\ shutdown' = TRUE
            /\ lock' = t
            /\ at' = [at EXCEPT ![t] = "leave"]
            /\ UNCHANGED result
    /\ UNCHANGED <<serverVars, stage, mux, open>>

\* A function of the list: from one place to the next, closing closes; or, where
\* it can fail, Shutdown returns its error.
Step(t, from, next, closes) ==
    /\ at[t] = from
    /\ at' = [at EXCEPT ![t] = next]
    /\ open' = open \ closes
    /\ UNCHANGED <<lock, result, stage, shutdown>>

StepFails(t, from) ==
    /\ at[t] = from
    /\ Return(t, "error")
    /\ UNCHANGED <<serverVars, open, stage, shutdown, mux>>

LeaveMembership(t) ==
    \/ Step(t, "leave", "stop", {"membership"}) /\ UNCHANGED <<serverVars, mux>>
    \/ StepFails(t, "leave")

\* GracefulStop closes the listener ...
StopListening(t) ==
    /\ Step(t, "stop", "drain", {})
    /\ mux' = "closed"
    /\ UNCHANGED serverVars

\* Mutant: Stop in place of GracefulStop, without the wait for the handlers.
DrainAtOnce(t) ==
    /\ Step(t, "drain", "close", {"server"})
    /\ UNCHANGED <<serverVars, mux>>

\* ... and waits for the handlers.
Drain(t) ==
    /\ \A s \in Clients : ~Running(s)
    /\ Step(t, "drain", "close", {"server"})
    /\ UNCHANGED <<serverVars, mux>>

\* DistributedLog.Close: Raft is stopped, which answers whoever waits for it
\* with an error and applies nothing more.
CloseRaft(t) ==
    /\ Step(t, "close", "closeRaftLog", {"raft"})
    /\ pending' = {}
    /\ call' = [s \in Clients |->
                   IF call[s].at = "applying" THEN NoCall ELSE call[s]]
    /\ UNCHANGED <<log, calls, mux>>

CloseRaftLog(t) ==
    \/ Step(t, "closeRaftLog", "closeLog", {"raftLog"}) /\ UNCHANGED <<serverVars, mux>>
    \/ StepFails(t, "closeRaftLog")

\* Log.Close closes segment after segment and returns at the first error.
CloseLog(t) ==
    /\ at[t] = "closeLog"
    /\ \E n \in 0 .. Len(log.segments) :
          /\ log' = ClosedLog(log, n)
          /\ IF n = Len(log.segments)
             THEN Return(t, "nil") /\ open' = open \ {"log"}
             ELSE Return(t, "error") /\ UNCHANGED open
    /\ UNCHANGED <<call, pending, calls, stage, shutdown, mux>>

ShutdownStep(t) ==
    \/ Enter(t) \/ LeaveMembership(t) \/ StopListening(t) \/ Drain(t)
    \/ CloseRaft(t) \/ CloseRaftLog(t) \/ CloseLog(t)

-----------------------------------------------------------------------------

SetupStep ==
    SetupMux \/ SetupLog \/ SetupServer \/ SetupMembership \/ StartServe

\* Calls come over connections, which were made while the multiplexer served;
\* the server takes new calls on them until its last connection is closed.
Accepting == mux # "off" /\ "server" \in open

Arrival == Accepting /\ \E s \in Clients : Open(s)

Request == \E p \in Producers, len \in RecordLens : ProduceRecv(p, len)

Handler(s) == Alive /\ UNCHANGED agentVars /\ HandlerStep(s)

Raft(p) == Alive /\ "raft" \in open /\ UNCHANGED agentVars /\ RaftAnswers(p)

Caller(t) == Alive /\ ShutdownStep(t)

Next ==
    \/ Alive /\ (SetupStep \/ MuxFails \/ \E t \in Callers : Call(t))
    \/ Alive /\ UNCHANGED agentVars
             /\ (Arrival \/ Request \/ \E s \in Clients : ClientGoes(s))
    \/ Alive /\ "raft" \in open /\ UNCHANGED agentVars
             /\ \E r \in pending : RaftApplies(r)
    \/ \E s \in Clients : Handler(s)
    \/ \E p \in Producers : Raft(p)
    \/ \E t \in Callers : Caller(t)

\* Goroutines that can run do, and Raft answers what it was given.  Nothing is
\* assumed of clients, signals, the listener or the set-up.
Fairness ==
    /\ \A s \in Clients : WF_vars(Handler(s))
    /\ \A p \in Producers : WF_vars(Raft(p))
    /\ WF_vars(\E t \in Callers : Caller(t))

Spec == Init /\ [][Next]_vars /\ Fairness

-----------------------------------------------------------------------------
(* Properties.                                                              *)

\* Every goroutine is at one of its places, and holds the lock while it is
\* between Lock and Unlock.
TypeOK ==
    /\ ServerTypeOK
    /\ stage \in {"mux", "log", "server", "membership", "serve", "up", "failed"}
    /\ mux \in {"off", "serving", "closed"}
    /\ open \subseteq Components
    /\ shutdown \in BOOLEAN
    /\ at \in [Callers -> {"idle", "waiting", "leave", "stop", "drain", "close",
                           "closeRaftLog", "closeLog", "returned"}]
    /\ result \in [Callers -> {"none", "nil", "error"}]
    /\ \A t \in Callers : at[t] \notin {"idle", "waiting", "returned"} <=> lock = t

\* No goroutine is inside a handler once Raft or one of the logs is closed, so
\* that no request meets a closed file; the order of Shutdown and the wait in
\* GracefulStop give it, for every order of the three callers and the clients
\* (agent.go Shutdown, distributed.go Close).
NoUseAfterClose ==
    stage = "up" /\ ~({"raft", "raftLog", "log"} \subseteq open) =>
        \A s \in Clients : ~Running(s)

\* Shutdown never meets a component that New has not set up, although the
\* goroutine that may call it starts before the membership exists (agent.go
\* New, setupServer).
ShutdownFindsAll ==
    \A t \in Callers : at[t] # "idle" => stage = "up"

\* Whoever is told nil by Shutdown finds everything closed, also when it only
\* waited for another caller, and every record the log ever got in a file, though
\* appends only buffer and only some reads have flushed; unless that caller was
\* told of an error: then a later one hears nothing of it (agent.go Shutdown,
\* distributed.go Close, store.go Close).
NilMeansClosed ==
    \A t \in Callers : result[t] = "nil" =>
        \/ \E u \in Callers : result[u] = "error"
        \/ /\ open = {}
           /\ \A s \in Range(log.segments) :
                  Len(log.files[s.base].store) = s.next - s.base

\* A consumer is sent every record of the log from the offset it asked for on,
\* as long as its client stays, unless the run has a record that Read refuses:
\* then ConsumeStream asks for that one for ever (server.go ConsumeStream).
ConsumerCatchesUp ==
    \A c \in Consumers : Behind(c) ~> (~Behind(c) \/ ~Alive)

\* A signal ends the process, in whatever state the agent is and whoever else is
\* inside Shutdown, if the clients go in the end: GracefulStop waits for every
\* stream, and a stream that only reads ends when its client goes (agent.go
\* Shutdown, server.go ConsumeStream).
SignalEndsProcess ==
    <>[](\A s \in Clients : Running(s) => ~call[s].there) =>
        (at["main"] = "waiting" ~> at["main"] = "returned")
=============================================================================
