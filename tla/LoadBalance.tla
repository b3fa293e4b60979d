---------------------------- MODULE LoadBalance ----------------------------
(***************************************************************************)
(* The client side: the Resolver asks a server for all servers             *)
(* (GetServers in internal/log/distributed.go), gRPC keeps a connection to *)
(* each of them, and the Picker chooses one for every call                 *)
(* (internal/loadbalance).                                                 *)
(*                                                                         *)
(* Both are registered once for the process, so that all its clients share *)
(* one Resolver and one Picker.                                            *)
(*                                                                         *)
(* gRPC is a library, modelled by what its base balancer does for this     *)
(* code: a connection is known by its address with the attribute           *)
(* is_leader, so that a server which gains or loses the leadership is      *)
(* connected to anew; and Build is called whenever the list of a client's  *)
(* servers is updated or one of its connections becomes ready or ceases to *)
(* be.                                                                     *)
(***************************************************************************)
EXTENDS Integers, Sequences, SequencesExt

CONSTANTS Servers,
          Clients,         \* the client connections a process may open
          None,            \* no server, client or connection
          CounterSize,     \* size of Picker.current, 2^64 in the code
          MaxElections,    \* bound: elections, and losses of a leader
          MaxResolutions   \* bound: calls of GetServers

ASSUME LoadBalanceAssumption ==
    /\ IsFiniteSet(Servers) /\ IsFiniteSet(Clients)
    /\ None \notin Servers \cup Clients
    /\ CounterSize \in Nat \ {0}
    /\ MaxElections \in Nat /\ MaxResolutions \in Nat

VARIABLES leader,       \* the leader, as the server that is asked knows it, or None
          status,       \* status[c]: "new", "open" or "closed"
          resolver,     \* the shared Resolver
          call,         \* the call of GetServers in progress
          conns,        \* the connections (gRPC: SubConns) of all clients
          ready,        \* those of them that are ready
          serving,      \* serving[c]: gRPC asks the Picker, not one of its own
          picker,       \* the shared Picker
          elections, resolutions,   \* counters
          builder,      \* history: the client of the last Build
          resolvedAt,   \* history: elections when c's servers were asked for
          turns         \* history: the last picks of followers since Build

vars == <<leader, status, resolver, call, conns, ready, serving, picker,
          elections, resolutions, builder, resolvedAt, turns>>

SubConn == [client : Clients, server : Servers, leader : BOOLEAN]

\* A call, or none: what it has answered so far for some of the servers.
NoCall == [busy |-> FALSE, began |-> 0, answer |-> <<>>]

Init ==
    /\ leader \in Servers
    /\ status = [c \in Clients |-> "new"]
    /\ resolver = [clientConn |-> None, open |-> FALSE]
    /\ call = NoCall
    /\ conns = {} /\ ready = {}
    /\ serving = [c \in Clients |-> FALSE]
    /\ picker = [leader |-> None, followers |-> <<>>, current |-> 0]
    /\ elections = 0 /\ resolutions = 0
    /\ builder = None
    /\ resolvedAt = [c \in Clients |-> -1]
    /\ turns = <<>>

\* Raft elects another leader, or is without one.
Elect(l) ==
    /\ l # leader
    /\ elections < MaxElections
    /\ leader' = l
    /\ elections' = elections + 1
    /\ UNCHANGED <<status, resolver, call, conns, ready, serving, picker,
                   resolutions, builder, resolvedAt, turns>>

-----------------------------------------------------------------------------
(* The Picker.                                                              *)

Flagged(scs) == {sc \in scs : sc.leader}

\* Without a leader among the connections the old one stays.
NewLeader(p, scs) == IF Flagged(scs) = {} THEN {p.leader} ELSE Flagged(scs)

\* Mutant: a connection to the leader is among the followers too.
BuiltLeaderToo(p, scs) ==
    [leader : NewLeader(p, scs), followers : SetToSeqs(scs), current : {p.current}]

\* Mutant: a leader, once known, stays.
BuiltFirstLeader(p, scs) ==
    [leader    : IF p.leader = None THEN NewLeader(p, scs) ELSE {p.leader},
     followers : SetToSeqs(scs \ Flagged(scs)),
     current   : {p.current}]

\* Mutant: followers are appended to those of the last Build.
BuiltAppending(p, scs) ==
    [leader    : NewLeader(p, scs),
     followers : {p.followers \o f :
                     f \in SetToSeqs((scs \ Flagged(scs)) \ Range(p.followers))},
     current   : {p.current}]

\* What Build, called with the ready connections scs in the order of a map,
\* that is in any, may make of Picker p.
Built(p, scs) ==
    [leader    : NewLeader(p, scs),
     followers : SetToSeqs(scs \ Flagged(scs)),
     current   : {p.current}]

\* gRPC's reaction to a change of the connections of client c, of which scs are
\* ready now.  If none is and one has failed, gRPC serves c with a picker of its
\* own.
Rebuild(c, scs) ==
    \/ /\ picker' \in Built(picker, scs)
       /\ serving' = [serving EXCEPT ![c] = TRUE]
       /\ builder' = c
       /\ turns' = <<>>
    \/ /\ scs = {}
       /\ serving' = [serving EXCEPT ![c] = FALSE]
       /\ UNCHANGED <<picker, builder, turns>>

\* Mutant: the counter is taken modulo one follower less.
NextFollowerOffByOne(p, cur) ==
    p.followers[1 + (cur % Max({Len(p.followers) - 1, 1}))]

\* The follower for the value cur of the counter.
NextFollower(p, cur) == p.followers[1 + (cur % Len(p.followers))]

\* Pick for a method "Consume" when there are followers; Pick holds the lock for
\* reading, and concurrent calls meet in the atomic counter only.  (For a method
\* "Produce", or without followers, Pick returns the leader and changes
\* nothing.)
PickFollower(c) ==
    LET cur   == (picker.current + 1) % CounterSize
        sc    == NextFollower(picker, cur)
        known == IF cur = 0 THEN <<>> ELSE turns
    IN  /\ serving[c]
        /\ picker.followers # <<>>
        /\ picker' = [picker EXCEPT !.current = cur]
        /\ turns' = IF Len(known) = Len(picker.followers)
                    THEN Append(Tail(known), sc) ELSE Append(known, sc)
        /\ UNCHANGED <<leader, status, resolver, call, conns, ready, serving,
                       elections, resolutions, builder, resolvedAt>>

-----------------------------------------------------------------------------
(* The Resolver.                                                            *)

\* A client is created: Build of the Resolver takes over clientConn and
\* resolverConn from the client before, and calls ResolveNow.
Dial(c) ==
    /\ status[c] = "new"
    /\ status' = [status EXCEPT ![c] = "open"]
    /\ resolver' = [clientConn |-> c, open |-> TRUE]
    /\ UNCHANGED <<leader, call, conns, ready, serving, picker, elections,
                   resolutions, builder, resolvedAt, turns>>

\* ResolveNow, which gRPC calls whenever a connection is lost, takes the lock and
\* calls GetServers.
ResolveNow ==
    /\ resolver.open
    /\ ~call.busy
    /\ resolutions < MaxResolutions
    /\ resolutions' = resolutions + 1
    /\ call' = [busy |-> TRUE, began |-> elections, answer |-> <<>>]
    /\ UNCHANGED <<leader, status, resolver, conns, ready, serving, picker,
                   elections, builder, resolvedAt, turns>>

\* One turn of the loop of GetServers, which asks for the leader every time.
GetServer(s) ==
    /\ call.busy
    /\ s \notin DOMAIN call.answer
    /\ call' = [call EXCEPT !.answer =
                   [v \in DOMAIN @ \cup {s} |-> IF v = s THEN leader = s ELSE @[v]]]
    /\ UNCHANGED <<leader, status, resolver, conns, ready, serving, picker,
                   elections, resolutions, builder, resolvedAt, turns>>

\* The call fails; ResolveNow logs that and returns.
ResolveFails ==
    /\ call.busy
    /\ call' = NoCall
    /\ UNCHANGED <<leader, status, resolver, conns, ready, serving, picker,
                   elections, resolutions, builder, resolvedAt, turns>>

Of(c, scs) == {sc \in scs : sc.client = c}

\* The answer is complete: UpdateState of the client that the Resolver has now.
\* gRPC closes the connections that are not in the list any more.
UpdateState ==
    LET c    == resolver.clientConn
        list == {[client |-> c, server |-> s, leader |-> call.answer[s]] : s \in Servers}
        kept == list \cap ready
    IN  /\ call.busy /\ DOMAIN call.answer = Servers
        /\ call' = NoCall
        /\ IF status[c] = "closed"
           THEN UNCHANGED <<conns, ready, serving, picker, builder, resolvedAt, turns>>
           ELSE /\ conns' = (conns \ Of(c, conns)) \cup list
                /\ ready' = (ready \ Of(c, ready)) \cup kept
                /\ resolvedAt' = [resolvedAt EXCEPT ![c] = call.began]
                /\ Rebuild(c, kept)
        /\ UNCHANGED <<leader, status, resolver, elections, resolutions>>

-----------------------------------------------------------------------------
(* Connections.                                                             *)

BecomeReady(sc) ==
    /\ sc \in conns \ ready
    /\ ready' = ready \cup {sc}
    /\ Rebuild(sc.client, Of(sc.client, ready'))
    /\ UNCHANGED <<leader, status, resolver, call, conns, elections, resolutions,
                   resolvedAt>>

Lose(sc) ==
    /\ sc \in ready
    /\ ready' = ready \ {sc}
    /\ Rebuild(sc.client, Of(sc.client, ready'))
    /\ UNCHANGED <<leader, status, resolver, call, conns, elections, resolutions,
                   resolvedAt>>

\* A client is closed, without a further Build.  Close of the Resolver closes
\* resolverConn, whoever's it is by now.
Close(c) ==
    /\ status[c] = "open"
    /\ status' = [status EXCEPT ![c] = "closed"]
    /\ resolver' = [resolver EXCEPT !.open = FALSE]
    /\ conns' = conns \ Of(c, conns)
    /\ ready' = ready \ Of(c, ready)
    /\ serving' = [serving EXCEPT ![c] = FALSE]
    /\ UNCHANGED <<leader, call, picker, elections, resolutions, builder,
                   resolvedAt, turns>>

Next ==
    \/ \E l \in Servers \cup {None} : Elect(l)
    \/ \E c \in Clients : Dial(c) \/ Close(c) \/ PickFollower(c)
    \/ ResolveNow \/ ResolveFails \/ UpdateState
    \/ \E s \in Servers : GetServer(s)
    \/ \E sc \in SubConn : BecomeReady(sc) \/ Lose(sc)

Spec == Init /\ [][Next]_vars

-----------------------------------------------------------------------------
(* Properties.                                                              *)

\* The followers of the Picker are distinct connections that were not known as
\* the leader's, its leader is one that was (picker.go Build), and every client
\* has at most one connection to each server.
TypeOK ==
    /\ leader \in Servers \cup {None}
    /\ status \in [Clients -> {"new", "open", "closed"}]
    /\ resolver \in [clientConn : Clients \cup {None}, open : BOOLEAN]
    /\ ready \subseteq conns /\ conns \subseteq SubConn
    /\ \A a, b \in conns : a.client = b.client /\ a.server = b.server => a = b
    /\ serving \in [Clients -> BOOLEAN]
    /\ picker.leader \in Flagged(SubConn) \cup {None}
    /\ picker.followers \in Seq(SubConn \ Flagged(SubConn))
    /\ IsInjective(picker.followers)
    /\ picker.current \in 0 .. CounterSize - 1
    /\ elections \in 0 .. MaxElections /\ resolutions \in 0 .. MaxResolutions
    /\ builder \in Clients \cup {None}
    /\ resolvedAt \in [Clients -> -1 .. MaxElections]
    /\ turns \in Seq(SubConn)

Serves(c) == builder = c /\ serving[c]

\* As long as no other client has built the Picker since, a client's calls are
\* spread over exactly its ready followers, and a call to produce goes to a ready
\* connection of its own if any of them is known as the leader's: through lost
\* connections, new resolutions and answers of GetServers with several leaders
\* (picker.go Build).
LastBuilderServed ==
    \A c \in Clients :
        Serves(c) =>
            LET own == Of(c, ready)
            IN  /\ Range(picker.followers) = own \ Flagged(own)
                /\ Flagged(own) # {} => picker.leader \in Flagged(own)

\* Once the servers have been asked for since the last election, all connections
\* are up, and no other client interfered, calls to produce go to the leader and
\* calls to consume to all others, whatever GetServers answered before
\* (distributed.go GetServers, resolver.go ResolveNow, picker.go Build and Pick).
FreshPicks ==
    \A c \in Clients :
        Serves(c) /\ resolvedAt[c] = elections /\ leader # None
          /\ Of(c, conns) \subseteq ready =>
            /\ picker.leader = [client |-> c, server |-> leader, leader |-> TRUE]
            /\ {sc.server : sc \in Range(picker.followers)} = Servers \ {leader}

\* Between two Builds the followers are picked in turn, each once in as many
\* picks as there are followers, unless the counter wraps around meanwhile
\* (picker.go nextFollower).
ConsumeInTurn == IsInjective(turns)
=============================================================================
