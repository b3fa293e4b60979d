----------------------------- MODULE Membership -----------------------------
(***************************************************************************)
(* How the members that Serf discovers become voters of Raft and cease to  *)
(* be (internal/discovery/membership.go, and Join and Leave in             *)
(* internal/log/distributed.go).                                           *)
(*                                                                         *)
(* Serf tells every server of every member that joins, leaves or fails,    *)
(* once, and the eventHandler goroutine of each server passes that on to   *)
(* Join or Leave of its DistributedLog.  Raft refuses both on a server     *)
(* that is not the leader; the error is logged and the event is gone.      *)
(*                                                                         *)
(* Serf and Raft are libraries, modelled by what they do for this code:    *)
(* Serf's news of one member reach a server in order, those of different   *)
(* members in any; Raft has at most one leader and one configuration at a  *)
(* time.  The leader works with a changed configuration from the moment it *)
(* is asked for the change, and the change is committed when a majority of *)
(* the new configuration has it; a change that is not may be undone when   *)
(* another leader is elected.                                              *)
(***************************************************************************)
EXTENDS Integers, Sequences, FiniteSets, Functions

CONSTANTS Servers,
          Bootstrap,    \* the server whose Config.Bootstrap is set
          Founders,     \* the servers that have joined when the model begins
          Nobody,       \* no server
          Addresses,    \* the values of the tag rpc_addr
          MaxStarts,    \* bound: starts of servers, besides the founders'
          MaxDepartures, \* bound: servers that leave or fail
          MaxTerms      \* bound: leaders elected, with the first

ASSUME MembershipAssumption ==
    /\ Founders \subseteq Servers /\ Bootstrap \in Founders
    /\ Nobody \notin Servers
    /\ Injection(Founders, Addresses) # {}
    /\ MaxStarts \in Nat /\ MaxDepartures \in Nat /\ MaxTerms \in Nat \ {0}

VARIABLES state,    \* state[s]: "down", "up", or "leaving": out of Serf, Raft still runs
          addr,     \* addr[s]: the address s was last started with
          expelled, \* the servers that run without Raft, which shut itself down
          news,     \* news[s][m]: what s has not yet handled of m, in order
          handler,  \* handler[s]: what the eventHandler of s is doing
          voters,   \* Raft's configuration: a function from voters to addresses
          settled,  \* the last configuration that was committed
          leader,   \* the leader or Nobody
          term,     \* how many leaders there have been
          tenants,  \* history: tenants[a]: the servers ever started at address a
          starts,   \* how many servers were started
          departures \* how many left or failed

vars == <<state, addr, expelled, news, handler, voters, settled, leader, term,
          tenants, starts, departures>>

Event == [kind : {"join"}, addr : Addresses] \cup [kind : {"leave", "failed"}]

\* The handler waits for an event, is inside a call of RemoveServer or AddVoter
\* about a member, has such a call's error to return, or has returned itself.
Idle == [do |-> "wait"]

Refused == [do |-> "refused"]

Returned == [do |-> "returned"]

InCall(s) == handler[s].do \in {"add", "remove", "drop"}

Running(s) == state[s] # "down" /\ s \notin expelled

FoundedAt == CHOOSE f \in Injection(Founders, Addresses) : TRUE

\* The bootstrapped server leads, and the other founders, if any, have joined.
Init ==
    /\ state = [s \in Servers |-> IF s \in Founders THEN "up" ELSE "down"]
    /\ addr = [s \in Servers |-> FoundedAt[IF s \in Founders THEN s ELSE Bootstrap]]
    /\ expelled = {}
    /\ news = [s \in Servers |-> [m \in Servers |-> <<>>]]
    /\ handler = [s \in Servers |-> Idle]
    /\ voters = FoundedAt
    /\ settled = voters
    /\ leader = Bootstrap
    /\ term = 1
    /\ tenants = [a \in Addresses |-> {s \in Founders : FoundedAt[s] = a}]
    /\ starts = 0
    /\ departures = 0

-----------------------------------------------------------------------------
(* Raft.                                                                    *)

\* The handlers once s has ceased to lead: its future fails.
Deposed(s) ==
    [t \in Servers |-> IF t = s /\ InCall(t) THEN Refused ELSE handler[t]]

Without(c, m) == [v \in DOMAIN c \ {m} |-> c[v]]

With(c, m, a) == [v \in DOMAIN c \cup {m} |-> IF v = m THEN a ELSE c[v]]

\* Server s reaches a majority of the voters of c: some server runs at the address
\* given there.
Majority(s, c) ==
    LET reached == {v \in DOMAIN c :
                       v = s \/ \E u \in Servers : Running(u) /\ addr[u] = c[v]}
    IN  2 * Cardinality(reached) > Cardinality(DOMAIN c)

\* The new leader has the last configuration or only the one before it.
Elect(s) ==
    /\ leader = Nobody
    /\ term < MaxTerms
    /\ Running(s)
    /\ \E c \in {voters, settled} :
          /\ s \in DOMAIN c /\ Majority(s, c)
          /\ voters' = c /\ settled' = c
    /\ leader' = s
    /\ term' = term + 1
    /\ UNCHANGED <<state, addr, expelled, news, handler, tenants, starts, departures>>

\* A leader lease that ends or, as long as there can be another leader, an
\* election timeout elsewhere.
StepDown ==
    /\ leader # Nobody
    /\ term < MaxTerms \/ ~Majority(leader, voters)
    /\ leader' = Nobody
    /\ handler' = Deposed(leader)
    /\ UNCHANGED <<state, addr, expelled, news, voters, settled, term, tenants, starts,
                   departures>>

-----------------------------------------------------------------------------
(* Serf.                                                                    *)

\* All servers that listen, but m, are told e about m.
Told(m, e) ==
    [s \in Servers |->
        IF s # m /\ state[s] = "up" THEN [news[s] EXCEPT ![m] = Append(@, e)]
        ELSE news[s]]

\* A server starts, perhaps under another address than before, which may have been
\* that of a server that runs no more, and joins (setupSerf): the others hear of it,
\* and it hears of them.
Start(m, a) ==
    /\ state[m] = "down"
    /\ \A v \in Servers : state[v] # "down" => addr[v] # a
    /\ starts < MaxStarts
    /\ starts' = starts + 1
    /\ state' = [state EXCEPT ![m] = "up"]
    /\ addr' = [addr EXCEPT ![m] = a]
    /\ handler' = [handler EXCEPT ![m] = Idle]
    /\ news' = [Told(m, [kind |-> "join", addr |-> a]) EXCEPT ![m] =
                   [v \in Servers |->
                       IF v # m /\ state[v] = "up"
                       THEN <<[kind |-> "join", addr |-> addr[v]]>> ELSE <<>>]]
    /\ tenants' = [tenants EXCEPT ![a] = @ \cup {m}]
    /\ UNCHANGED <<expelled, voters, settled, leader, term, departures>>

\* What is left of a server whose process ends.
Ended(m) ==
    /\ state' = [state EXCEPT ![m] = "down"]
    /\ expelled' = expelled \ {m}
    /\ handler' = [handler EXCEPT ![m] = Idle]
    /\ leader' = IF leader = m THEN Nobody ELSE leader

\* A server crashes, and Serf finds out.
Fail(m) ==
    /\ state[m] = "up"
    /\ departures < MaxDepartures
    /\ departures' = departures + 1
    /\ Ended(m)
    /\ news' = [Told(m, [kind |-> "failed"]) EXCEPT ![m] = [v \in Servers |-> <<>>]]
    /\ UNCHANGED <<addr, voters, settled, term, tenants, starts>>

\* Membership.Leave, the first step of Agent.Shutdown.  The leaving server gets
\* the event too, as its last.
Leave(m) ==
    /\ state[m] = "up"
    /\ departures < MaxDepartures
    /\ departures' = departures + 1
    /\ state' = [state EXCEPT ![m] = "leaving"]
    /\ news' = [Told(m, [kind |-> "leave"]) EXCEPT ![m] =
                   [news[m] EXCEPT ![m] = <<[kind |-> "leave"]>>]]
    /\ UNCHANGED <<addr, expelled, handler, voters, settled, leader, term, tenants,
                   starts>>

\* The last step of Agent.Shutdown closes Raft.
Stop(m) ==
    /\ state[m] = "leaving"
    /\ Ended(m)
    /\ news' = [news EXCEPT ![m] = [v \in Servers |-> <<>>]]
    /\ UNCHANGED <<addr, voters, settled, term, tenants, starts, departures>>

-----------------------------------------------------------------------------
(* The event handler of server s.                                           *)

\* What the leader makes of an event: the call that the handler is then in, and the
\* configuration the leader works with from now on.  Raft refuses to remove the only
\* voter.
Removal(call, v) ==
    IF DOMAIN voters = {v} THEN [call |-> Refused, voters |-> voters]
    ELSE [call |-> call, voters |-> Without(voters, v)]

Addition(m, a) == [call |-> [do |-> "add", member |-> m], voters |-> With(voters, m, a)]

NoCall == [call |-> Idle, voters |-> voters]

Dropping(m) == Removal([do |-> "drop", member |-> m], m)

\* Join still has to remove the voters in left, one after the other, before it
\* adds m.
Rejoining(m, a, left) ==
    IF left = {} THEN {Addition(m, a)}
    ELSE {Removal([do |-> "remove", member |-> m, addr |-> a, left |-> left \ {v}], v) :
             v \in left}

\* Mutant: Join looks at the ID alone.
ConflictingByID(m, a) == {v \in DOMAIN voters : v = m}

\* The voters that have the ID or the address of m.
Conflicting(m, a) == {v \in DOMAIN voters : v = m \/ voters[v] = a}

\* Mutant: a member whose ID is known has joined.
JoinCallByID(m, a) ==
    IF m \in DOMAIN voters THEN {NoCall} ELSE Rejoining(m, a, Conflicting(m, a))

\* Join: nothing is to be done for a voter with both the ID and the address; voters
\* with one of the two are removed first.  (No two voters have one address, so the
\* loop in Join removes nobody before it returns early.)
JoinCall(m, a) ==
    IF m \in DOMAIN voters /\ voters[m] = a THEN {NoCall}
    ELSE Rejoining(m, a, Conflicting(m, a))

\* The handler of s takes its first event about m and passes it on; on a server
\* that does not lead the call fails at once.
Handle(s, m, call) ==
    /\ state[s] # "down" /\ handler[s] = Idle
    /\ handler' = [handler EXCEPT ![s] = IF leader = s THEN call.call ELSE Idle]
    /\ voters' = IF leader = s THEN call.voters ELSE voters
    /\ news' = [news EXCEPT ![s][m] = Tail(@)]
    /\ UNCHANGED <<state, addr, expelled, settled, leader, term, tenants, starts,
                   departures>>

HandleJoin(s, m) ==
    /\ s # m /\ news[s][m] # <<>>
    /\ Head(news[s][m]).kind = "join"
    /\ \E call \in JoinCall(m, Head(news[s][m]).addr) : Handle(s, m, call)

\* Mutant: a member that failed is not told to Leave.
HandleLeaveOnly(s, m) ==
    /\ s # m /\ news[s][m] # <<>>
    /\ Head(news[s][m]).kind # "join"
    /\ Handle(s, m, IF Head(news[s][m]).kind = "leave"
                    THEN Dropping(m) ELSE NoCall)

\* Leave of the DistributedLog calls RemoveServer.
HandleLeave(s, m) ==
    /\ s # m /\ news[s][m] # <<>>
    /\ Head(news[s][m]).kind \in {"leave", "failed"}
    /\ Handle(s, m, Dropping(m))

\* The local member leaves: eventHandler returns, whatever else is to be handled.
HandleOwnLeave(s) ==
    /\ handler[s] = Idle
    /\ news[s][s] # <<>>
    /\ handler' = [handler EXCEPT ![s] = Returned]
    /\ news' = [news EXCEPT ![s][s] = Tail(@)]
    /\ UNCHANGED <<state, addr, expelled, voters, settled, leader, term, tenants, starts,
                   departures>>

\* The future of RemoveServer or AddVoter succeeds.  After a removal Join asks for
\* the next one or for the addition.
Committed(s) ==
    LET h == handler[s]
    IN  /\ InCall(s) /\ leader = s /\ s \in DOMAIN voters
        /\ Majority(s, voters)
        /\ settled' = voters
        /\ \E next \in IF h.do = "remove" THEN Rejoining(h.member, h.addr, h.left)
                       ELSE {NoCall} :
               /\ handler' = [handler EXCEPT ![s] = next.call]
               /\ voters' = next.voters
        /\ UNCHANGED <<state, addr, expelled, news, leader, term, tenants, starts,
                       departures>>

\* A leader that was started at another address than the configuration has for it
\* may have to remove itself, for a member that is now at that address.  When this
\* is committed its Raft shuts down, and refuses what Join asks for next.
RemovesItself(s) ==
    /\ InCall(s) /\ leader = s /\ s \notin DOMAIN voters
    /\ Majority(s, voters)
    /\ settled' = voters
    /\ leader' = Nobody
    /\ expelled' = expelled \cup {s}
    /\ handler' = Deposed(s)
    /\ UNCHANGED <<state, addr, news, voters, term, tenants, starts, departures>>

\* It has failed, since the server ceased to lead: Join or Leave returns the
\* error, also between a removal and the addition.
CallFailed(s) ==
    /\ handler[s] = Refused
    /\ handler' = [handler EXCEPT ![s] = Idle]
    /\ UNCHANGED <<state, addr, expelled, news, voters, settled, leader, term, tenants,
                   starts, departures>>

HandlerStep(s) ==
    \/ \E m \in Servers : HandleJoin(s, m) \/ HandleLeave(s, m)
    \/ HandleOwnLeave(s)
    \/ Committed(s) \/ RemovesItself(s)
    \/ CallFailed(s)

Next ==
    \/ \E s \in Servers : Elect(s) \/ Fail(s) \/ Leave(s) \/ Stop(s)
    \/ StepDown
    \/ \E s \in Servers, a \in Addresses : Start(s, a)
    \/ \E s \in Servers : HandlerStep(s)

\* The handler is a goroutine that loops over its channel, and a call to Raft is
\* answered in time; a leader that reaches no majority steps down (its lease).
Fairness ==
    /\ \A s \in Servers : WF_vars(HandlerStep(s))
    /\ WF_vars(StepDown /\ ~Majority(leader, voters))

Spec == Init /\ [][Next]_vars /\ Fairness

-----------------------------------------------------------------------------
(* Properties.                                                              *)

\* The configuration has voters, no two of them at one address, which is what Raft
\* insists on and Join relies on; the leader is one of them unless it is just removing
\* itself; a handler that returned belongs to a server that is leaving (membership.go
\* eventHandler, isLocal, distributed.go Join).
TypeOK ==
    /\ state \in [Servers -> {"down", "up", "leaving"}]
    /\ addr \in [Servers -> Addresses]
    /\ expelled \subseteq Servers
    /\ news \in [Servers -> [Servers -> Seq(Event)]]
    /\ \A c \in {voters, settled} :
          /\ DOMAIN c \in (SUBSET Servers) \ {{}}
          /\ c \in Injection(DOMAIN c, Addresses)
    /\ leader \in Servers \cup {Nobody}
    /\ leader \in Servers \ DOMAIN voters => handler[leader].do = "remove"
    /\ \A s \in Servers : handler[s] = Returned => state[s] = "leaving"
    /\ tenants \in [Addresses -> SUBSET Servers]
    /\ term \in 1 .. MaxTerms /\ starts \in 0 .. MaxStarts /\ departures \in 0 .. MaxDepartures

\* No other server was ever started at the address that m has.
Alone(m) == tenants[addr[m]] \subseteq {m}

\* Server m is a voter at its address if it runs, and none if it does not.
Settled(m) ==
    CASE state[m] = "up"   -> m \in DOMAIN voters /\ voters[m] = addr[m]
      [] state[m] = "down" -> m \notin DOMAIN voters
      [] OTHER             -> TRUE

\* Server s has still something to do about m.
Pending(s, m) ==
    \/ news[s][m] # <<>>
    \/ InCall(s) /\ handler[s].member = m

FirstLeader == leader = Bootstrap /\ term = 1 /\ state[Bootstrap] = "up"

\* While the first leader stays in office the configuration is out of date about
\* a member only as long as that leader has news of it to handle: it never
\* handles its last event about a member without effect, in whatever order
\* restarts, departures and changes of address arrive.  The exception is a running
\* member at an address that another member has had too: an old join of that one,
\* handled late, removes it, and nothing brings it back (distributed.go Join).
FirstLeaderMissesNothing ==
    FirstLeader =>
        \A m \in Servers \ {Bootstrap} :
            \/ Settled(m) \/ Pending(Bootstrap, m)
            \/ state[m] = "up" /\ ~Alone(m)

\* A member that a leader has still news of becomes a voter at its address,
\* whatever the configuration was left in by earlier leaders, for instance with
\* the member at an older address or another one at its address, unless the leader
\* is deposed or one of the two ends first; or the configuration has the leader
\* itself at that address, where it was before it was started again: then it removes
\* itself, or cannot, being the only voter (membership.go eventHandler,
\* distributed.go Join).
JoinsTakeEffect ==
    \A m \in Servers :
        (/\ leader \notin {Nobody, m} /\ state[leader] = "up" /\ state[m] = "up"
         /\ news[leader][m] # <<>>)
            ~> \/ m \in DOMAIN voters /\ voters[m] = addr[m]
               \/ leader = Nobody \/ state[leader] # "up" \/ state[m] # "up"
               \/ leader \in DOMAIN voters /\ voters[leader] = addr[m]
=============================================================================
