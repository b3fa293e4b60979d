--------------------------- MODULE MembershipProofs ---------------------------
(***************************************************************************)
(* Theorems about Membership, for all sets of servers and addresses and    *)
(* all bounds.                                                             *)
(***************************************************************************)
EXTENDS Membership, SequenceTheorems, TLAPS

-----------------------------------------------------------------------------
(* The invariant.  That the first leader misses nothing needs more than its *)
(* statement: the last event it has about a member has to say what became   *)
(* of that member, and what it does without an event left has to be right.  *)

Rejoins == [do : {"remove"}, member : Servers, addr : Addresses, left : SUBSET Servers]

Calls == Rejoins \cup [do : {"add", "drop"}, member : Servers]

Handlers == {Idle, Refused, Returned} \cup Calls

\* No two voters of a configuration are at one address, and each was started at its
\* address, by the history T of the tenants.
IsConfiguration(c, T) ==
    /\ DOMAIN c \in (SUBSET Servers) \ {{}}
    /\ c \in [DOMAIN c -> Addresses]
    /\ \A v, w \in DOMAIN c : c[v] = c[w] => v = w
    /\ \A v \in DOMAIN c : v \in T[c[v]]

\* Events about m: it was started at the addresses that they name.
IsQueue(q, m, T) ==
    q \in Seq(Event) /\ \A i \in 1 .. Len(q) : q[i].kind = "join" => m \in T[q[i].addr]

\* What a server hears of another and of itself.
IsNews(n, T) ==
    /\ n \in [Servers -> [Servers -> Seq(Event)]]
    /\ \A s, m \in Servers : IsQueue(n[s][m], m, T)

ConflictsIn(c, m, a) == {v \in DOMAIN c : v = m \/ c[v] = a}

\* A Join that is to go on has still to remove the voters that conflict.
Resumable(h, c, T) ==
    h.do = "remove" => /\ h.member \in T[h.addr]
                       /\ h.left = ConflictsIn(c, h.member, h.addr)

Calling(h) == h.do \in {"add", "remove", "drop"}

\* Only the leader is inside a call.
AreHandlers(H, c, T, l) ==
    /\ H \in [Servers -> Handlers]
    /\ \A s \in Servers : Calling(H[s]) => l = s
    /\ \A s \in Servers : Resumable(H[s], c, T)

\* A leader runs, and is a voter unless it is just removing itself.
Leads(l, H, c, st) ==
    l # Nobody => /\ l \in Servers /\ st[l] # "down"
                  /\ l \in DOMAIN c \/ H[l].do = "remove"

\* Servers that are not down are tenants of their addresses; only those that are
\* leaving have their own leave to handle or have handled it.
Lives(st, ad, n, H, T) ==
    /\ st \in [Servers -> {"down", "up", "leaving"}]
    /\ ad \in [Servers -> Addresses]
    /\ T \in [Addresses -> SUBSET Servers]
    /\ \A s \in Servers : st[s] # "down" => s \in T[ad[s]]
    /\ \A s \in Servers : H[s] = Returned \/ n[s][s] # <<>> => st[s] = "leaving"

Counted == /\ expelled \subseteq Servers
           /\ term \in 1 .. MaxTerms /\ starts \in 0 .. MaxStarts
           /\ departures \in 0 .. MaxDepartures

Typed ==
    /\ IsNews(news, tenants)
    /\ AreHandlers(handler, voters, tenants, leader)
    /\ IsConfiguration(voters, tenants) /\ IsConfiguration(settled, tenants)
    /\ Leads(leader, handler, voters, state)
    /\ Lives(state, addr, news, handler, tenants)
    /\ Counted

Final(q) == q[Len(q)]

\* Event e says what is the case with server m.
Says(e, m) == IF state[m] = "up" THEN e.kind = "join" /\ e.addr = addr[m]
              ELSE e.kind # "join"

\* The configuration c has server m as it is: a server on its way down is none of it.
Due(c, m) == IF state[m] = "up" THEN m \in DOMAIN c /\ c[m] = addr[m]
             ELSE m \notin DOMAIN c

\* Handler h removes voters in order to add m.
Replacing(h, m) == h.do = "remove" /\ h.member = m

\* With nothing left to handle about m: handler h is at it, or the configuration c is
\* right, or m shares its address with another.
Answered(h, c, m) ==
    IF Replacing(h, m) THEN state[m] = "up" /\ h.addr = addr[m]
    ELSE Due(c, m) \/ (state[m] = "up" /\ ~Alone(m))

Informed(m) ==
    IF news[Bootstrap][m] # <<>> THEN Says(Final(news[Bootstrap][m]), m)
    ELSE Answered(handler[Bootstrap], voters, m)

AllInformed == FirstLeader => \A m \in Servers \ {Bootstrap} : Informed(m)

MInv == Typed /\ AllInformed
-----------------------------------------------------------------------------
(* Queues of events.                                                        *)

\* A queue with one more event at its end.
LEMMA QueueAppend ==
    ASSUME NEW m, NEW T, NEW q, IsQueue(q, m, T), NEW e \in Event,
           e.kind = "join" => m \in T[e.addr]
    PROVE  /\ IsQueue(Append(q, e), m, T) /\ Append(q, e) # <<>>
           /\ Final(Append(q, e)) = e
<1>1. q \in Seq(Event) /\ \A i \in 1 .. Len(q) : q[i].kind = "join" => m \in T[q[i].addr]
  BY DEF IsQueue
<1>2. /\ Append(q, e) \in Seq(Event) /\ Append(q, e) # <<>>
      /\ Len(Append(q, e)) = Len(q) + 1 /\ Len(q) \in Nat
      /\ \A i \in 1 .. Len(q) : Append(q, e)[i] = q[i]
      /\ Append(q, e)[Len(q) + 1] = e
  BY <1>1, AppendProperties
<1>3. \A i \in 1 .. Len(Append(q, e)) : i \in 1 .. Len(q) \/ i = Len(q) + 1
  BY <1>2
<1>. QED
  BY <1>1, <1>2, <1>3 DEF IsQueue, Final

\* A queue without its first event.
LEMMA QueueTail ==
    ASSUME NEW m, NEW T, NEW q, IsQueue(q, m, T), q # <<>>
    PROVE  /\ Head(q) \in Event
           /\ Head(q).kind = "join" => m \in T[Head(q).addr]
           /\ IsQueue(Tail(q), m, T)
           /\ Tail(q) = <<>> => Final(q) = Head(q)
           /\ Tail(q) # <<>> => Final(Tail(q)) = Final(q)
<1>0. q \in Seq(Event) /\ \A i \in 1 .. Len(q) : q[i].kind = "join" => m \in T[q[i].addr]
  BY DEF IsQueue
<1>1. /\ Head(q) \in Event /\ Tail(q) \in Seq(Event)
      /\ Len(Tail(q)) = Len(q) - 1
      /\ \A i \in 1 .. Len(Tail(q)) : Tail(q)[i] = q[i + 1]
      /\ Head(q) = q[1]
  BY <1>0, HeadTailProperties
<1>2. Len(q) \in Nat /\ Len(Tail(q)) \in Nat /\ Len(q) # 0
  BY <1>0, <1>1, LenProperties, EmptySeq
<1>3. ASSUME Tail(q) = <<>> PROVE Final(q) = Head(q)
  <2>1. Len(q) = 1
    BY <1>1, <1>2, <1>3, EmptySeq
  <2>. QED
    BY <1>1, <2>1 DEF Final
<1>4. ASSUME Tail(q) # <<>> PROVE Final(Tail(q)) = Final(q)
  <2>1. Len(Tail(q)) # 0
    BY <1>1, <1>4, EmptySeq
  <2>2. Len(Tail(q)) \in 1 .. Len(Tail(q)) /\ Len(Tail(q)) + 1 = Len(q)
    BY <1>1, <1>2, <2>1
  <2>. QED
    BY <1>1, <2>2 DEF Final
<1>5. IsQueue(Tail(q), m, T)
  <2>1. \A i \in 1 .. Len(Tail(q)) : i + 1 \in 1 .. Len(q) /\ Tail(q)[i] = q[i + 1]
    BY <1>1, <1>2
  <2>. QED
    BY <1>0, <1>1, <2>1 DEF IsQueue
<1>6. Head(q).kind = "join" => m \in T[Head(q).addr]
  <2>1. 1 \in 1 .. Len(q)
    BY <1>2
  <2>. QED
    BY <1>0, <1>1, <2>1
<1>. QED
  BY <1>1, <1>3, <1>4, <1>5, <1>6

\* An empty queue, and one with a single event.
LEMMA ShortQueues ==
    ASSUME NEW m, NEW T
    PROVE  /\ IsQueue(<<>>, m, T)
           /\ \A e \in Event : (e.kind = "join" => m \in T[e.addr]) => IsQueue(<<e>>, m, T)
<1>1. IsQueue(<<>>, m, T)
  BY EmptySeq DEF IsQueue
<1>2. ASSUME NEW e \in Event, e.kind = "join" => m \in T[e.addr] PROVE IsQueue(<<e>>, m, T)
  <2>1. <<e>> \in Seq(Event) /\ Len(<<e>>) = 1 /\ <<e>>[1] = e
    OBVIOUS
  <2>. QED
    BY <1>2, <2>1 DEF IsQueue
<1>. QED
  BY <1>1, <1>2

\* There can be more tenants.
Grows(T, U) == \A a \in Addresses : T[a] \subseteq U[a]

LEMMA QueueGrows ==
    ASSUME NEW m, NEW T, NEW U, Grows(T, U), NEW q, IsQueue(q, m, T)
    PROVE  IsQueue(q, m, U)
<1>1. q \in Seq(Event) /\ \A i \in 1 .. Len(q) : q[i].kind = "join" => m \in T[q[i].addr]
  BY DEF IsQueue
<1>2. ASSUME NEW i \in 1 .. Len(q), q[i].kind = "join" PROVE q[i].addr \in Addresses
  <2>1. q[i] \in Event
    BY <1>1, ElementOfSeq
  <2>. QED
    BY <1>2, <2>1 DEF Event
<1>. QED
  BY <1>1, <1>2 DEF IsQueue, Grows

-----------------------------------------------------------------------------
(* Handlers and configurations.                                             *)

\* The places of an event handler.
LEMMA HandlerKinds ==
    /\ Idle \in Handlers /\ Refused \in Handlers /\ Returned \in Handlers
    /\ Idle.do = "wait" /\ Refused.do = "refused" /\ Returned.do = "returned"
    /\ Idle # Returned /\ Refused # Returned /\ Idle # Refused
    /\ \A h \in Handlers : Calling(h) => h \in Calls
    /\ \A h \in Calls : /\ h \in Handlers /\ Calling(h) /\ h.member \in Servers
                        /\ h # Idle /\ h # Refused /\ h # Returned
                        /\ h.do = "remove" => h \in Rejoins /\ h.addr \in Addresses
    /\ \A h : h.do = "remove" => Calling(h)
<1>1. Idle.do = "wait" /\ Refused.do = "refused" /\ Returned.do = "returned"
  BY DEF Idle, Refused, Returned
<1>2. Idle # Returned /\ Refused # Returned /\ Idle # Refused
  BY <1>1
<1>3. \A h \in Calls : h.do \in {"add", "remove", "drop"} /\ h.member \in Servers
  BY DEF Calls, Rejoins
<1>4. \A h \in Calls : h.do = "remove" => h \in Rejoins /\ h.addr \in Addresses
  BY DEF Calls, Rejoins
<1>. QED
  BY <1>1, <1>2, <1>3, <1>4 DEF Handlers, Calling

\* More tenants contradict nothing.
LEMMA ConfigurationGrows ==
    ASSUME NEW c, NEW T, NEW U, Grows(T, U), IsConfiguration(c, T)
    PROVE  IsConfiguration(c, U)
<1>1. \A v \in DOMAIN c : c[v] \in Addresses
  BY DEF IsConfiguration
<1>. QED
  BY <1>1 DEF IsConfiguration, Grows

\* A configuration after a removal that Raft accepts.
LEMMA ConfigurationWithout ==
    ASSUME NEW c, NEW T, IsConfiguration(c, T), NEW m, DOMAIN c # {m}
    PROVE  /\ IsConfiguration(Without(c, m), T)
           /\ DOMAIN Without(c, m) = DOMAIN c \ {m}
           /\ \A v \in DOMAIN Without(c, m) : Without(c, m)[v] = c[v]
<1> DEFINE d == Without(c, m)
<1>1. DOMAIN d = DOMAIN c \ {m} /\ \A v \in DOMAIN d : d[v] = c[v]
  BY DEF Without
<1>2. d = [v \in DOMAIN d |-> d[v]]
  BY DEF Without
<1> HIDE DEF d
<1>3. DOMAIN d \in (SUBSET Servers) \ {{}}
  BY <1>1 DEF IsConfiguration
<1>4. \A v \in DOMAIN d : v \in DOMAIN c /\ c[v] \in Addresses /\ v \in T[c[v]]
  BY <1>1 DEF IsConfiguration
<1>5. d \in [DOMAIN d -> Addresses]
  BY <1>1, <1>2, <1>4
<1>6. \A v, w \in DOMAIN d : d[v] = d[w] => v = w
  BY <1>1, <1>4 DEF IsConfiguration
<1>. QED
  BY <1>1, <1>3, <1>4, <1>5, <1>6 DEF IsConfiguration, d

\* A configuration after an addition for which nobody was left to remove.
LEMMA ConfigurationWith ==
    ASSUME NEW c, NEW T, IsConfiguration(c, T), NEW m \in Servers, NEW a \in Addresses,
           m \in T[a], ConflictsIn(c, m, a) = {}
    PROVE  /\ IsConfiguration(With(c, m, a), T)
           /\ DOMAIN With(c, m, a) = DOMAIN c \cup {m}
           /\ With(c, m, a)[m] = a
           /\ \A v \in DOMAIN c : With(c, m, a)[v] = c[v]
<1> DEFINE d == With(c, m, a)
<1>1. /\ DOMAIN d = DOMAIN c \cup {m}
      /\ \A v \in DOMAIN d : d[v] = IF v = m THEN a ELSE c[v]
  BY DEF With
<1>2. d = [v \in DOMAIN d |-> d[v]]
  BY DEF With
<1> HIDE DEF d
<1>3. DOMAIN c \in SUBSET Servers
      /\ \A v \in DOMAIN c : c[v] \in Addresses /\ v \in T[c[v]] /\ v # m /\ c[v] # a
  BY DEF IsConfiguration, ConflictsIn
<1>4. \A v \in DOMAIN d : d[v] \in Addresses /\ v \in T[d[v]]
  BY <1>1, <1>3
<1>5. d \in [DOMAIN d -> Addresses]
  BY <1>2, <1>4
<1>6. m \in DOMAIN d /\ d[m] = a /\ \A v \in DOMAIN c : d[v] = c[v]
  BY <1>1, <1>3
<1>7. DOMAIN d \in (SUBSET Servers) \ {{}}
  BY <1>1, <1>3, <1>6
<1>8. \A v, w \in DOMAIN d : d[v] = d[w] => v = w
  <2>1. \A v, w \in DOMAIN c : c[v] = c[w] => v = w
    BY DEF IsConfiguration
  <2>. QED
    BY <1>1, <1>3, <1>6, <2>1
<1>. QED
  BY <1>1, <1>4, <1>5, <1>6, <1>7, <1>8 DEF IsConfiguration, d

-----------------------------------------------------------------------------
(* What a handler asks of Raft.                                             *)

\* Voter v has stayed as it was, or had an address that m was started at.
Spared(v, c, d, m, T) ==
    IF v \in DOMAIN d THEN v \in DOMAIN c /\ d[v] = c[v]
    ELSE v \in DOMAIN c => m \in T[c[v]]

\* What server s does about member m, as the leader with configuration c: it stays a
\* voter or is to go on, and spares the voters that are not in m's way.
GoodCall(r, s, m, c, T) ==
    /\ r.call \in {Idle, Refused} \cup Calls
    /\ r.call \in Calls => r.call.member = m
    /\ IsConfiguration(r.voters, T)
    /\ s \in DOMAIN r.voters \/ r.call.do = "remove"
    /\ Resumable(r.call, r.voters, T)
    /\ \A v \in Servers \ {m} : Spared(v, c, r.voters, m, T)

\* To do nothing is good.
LEMMA NoCallGood ==
    ASSUME IsConfiguration(voters, tenants), NEW s \in DOMAIN voters, NEW m
    PROVE  GoodCall(NoCall, s, m, voters, tenants)
BY HandlerKinds DEF GoodCall, NoCall, Resumable, Spared

\* A removal is refused, or leaves a configuration.
LEMMA RemovalGood ==
    ASSUME IsConfiguration(voters, tenants), NEW s \in DOMAIN voters, NEW m, NEW v,
           NEW call \in Calls, call.member = m,
           v \in DOMAIN voters => v = m \/ m \in tenants[voters[v]],
           s # v \/ call.do = "remove",
           call.do = "remove" => /\ m \in tenants[call.addr]
                                 /\ call.left = ConflictsIn(Without(voters, v), m, call.addr)
    PROVE  GoodCall(Removal(call, v), s, m, voters, tenants)
<1>1. CASE DOMAIN voters = {v}
  BY <1>1, HandlerKinds DEF GoodCall, Removal, Resumable, Spared
<1>2. CASE DOMAIN voters # {v}
  <2> DEFINE d == Without(voters, v)
  <2>1. Removal(call, v) = [call |-> call, voters |-> d]
    BY <1>2 DEF Removal
  <2>2. /\ IsConfiguration(d, tenants) /\ DOMAIN d = DOMAIN voters \ {v}
        /\ \A w \in DOMAIN d : d[w] = voters[w]
    BY <1>2, ConfigurationWithout
  <2>3. call.do = "remove" => m \in tenants[call.addr] /\ call.left = ConflictsIn(d, m, call.addr)
    OBVIOUS
  <2> HIDE DEF d
  <2>4. \A w \in Servers \ {m} : Spared(w, voters, d, m, tenants)
    BY <2>2 DEF Spared
  <2>5. Resumable(call, d, tenants)
    BY <2>3 DEF Resumable
  <2>6. s \in DOMAIN d \/ call.do = "remove"
    BY <2>2
  <2>. QED
    BY <2>1, <2>2, <2>4, <2>5, <2>6 DEF GoodCall
<1>. QED
  BY <1>1, <1>2

\* An addition leaves a configuration.
LEMMA AdditionGood ==
    ASSUME IsConfiguration(voters, tenants), NEW s \in DOMAIN voters, NEW m \in Servers,
           NEW a \in Addresses, m \in tenants[a], ConflictsIn(voters, m, a) = {}
    PROVE  GoodCall(Addition(m, a), s, m, voters, tenants)
<1> DEFINE d == With(voters, m, a)
           call == [do |-> "add", member |-> m]
<1>1. Addition(m, a) = [call |-> call, voters |-> d]
  BY DEF Addition
<1>2. /\ IsConfiguration(d, tenants) /\ DOMAIN d = DOMAIN voters \cup {m}
      /\ \A w \in DOMAIN voters : d[w] = voters[w]
  BY ConfigurationWith
<1>3. call \in Calls /\ call.member = m /\ call.do # "remove"
  BY DEF Calls
<1> HIDE DEF d, call
<1>4. \A w \in Servers \ {m} : Spared(w, voters, d, m, tenants)
  BY <1>2 DEF Spared
<1>5. Resumable(call, d, tenants)
  BY <1>3 DEF Resumable
<1>. QED
  BY <1>1, <1>2, <1>3, <1>4, <1>5 DEF GoodCall

\* Join, going on with the voters that conflict, spares all others
\* (distributed.go Join).
LEMMA RejoiningGood ==
    ASSUME IsConfiguration(voters, tenants), NEW s \in DOMAIN voters, NEW m \in Servers,
           NEW a \in Addresses, m \in tenants[a],
           NEW r \in Rejoining(m, a, ConflictsIn(voters, m, a))
    PROVE  GoodCall(r, s, m, voters, tenants)
<1> DEFINE left == ConflictsIn(voters, m, a)
<1>1. CASE left = {}
  BY <1>1, AdditionGood DEF Rejoining
<1>2. CASE left # {}
  <2>1. PICK v \in left :
            r = Removal([do |-> "remove", member |-> m, addr |-> a, left |-> left \ {v}], v)
    BY <1>2 DEF Rejoining
  <2> DEFINE call == [do |-> "remove", member |-> m, addr |-> a, left |-> left \ {v}]
  <2>2. left \subseteq Servers /\ v \in DOMAIN voters /\ (v = m \/ voters[v] = a)
    BY <2>1 DEF ConflictsIn, IsConfiguration
  <2>3. call \in Calls /\ call.member = m
    <3>1. left \ {v} \in SUBSET Servers
      BY <2>2
    <3>. QED
      BY <3>1 DEF Calls, Rejoins
  <2>4. call.left = ConflictsIn(Without(voters, v), m, a)
    BY DEF ConflictsIn, Without
  <2>5. call.do = "remove" /\ call.addr = a /\ r = Removal(call, v)
    BY <2>1
  <2> HIDE DEF call, left
  <2>. QED
    BY <2>2, <2>3, <2>4, <2>5, RemovalGood
<1>. QED
  BY <1>1, <1>2

\* Every answer of Join is good, whatever address the event names.
LEMMA JoinGood ==
    ASSUME IsConfiguration(voters, tenants), NEW s \in DOMAIN voters, NEW m \in Servers,
           NEW a \in Addresses, m \in tenants[a], NEW r \in JoinCall(m, a)
    PROVE  GoodCall(r, s, m, voters, tenants)
<1>1. CASE r = NoCall
  BY <1>1, NoCallGood
<1>2. CASE r \in Rejoining(m, a, ConflictsIn(voters, m, a))
  BY <1>2, RejoiningGood
<1>. QED
  BY <1>1, <1>2 DEF JoinCall, Conflicting, ConflictsIn

\* So is that of Leave.
LEMMA DroppingGood ==
    ASSUME IsConfiguration(voters, tenants), NEW s \in DOMAIN voters, NEW m \in Servers, s # m
    PROVE  GoodCall(Dropping(m), s, m, voters, tenants)
<1> DEFINE call == [do |-> "drop", member |-> m]
<1>1. call \in Calls /\ call.member = m /\ call.do # "remove"
  BY DEF Calls
<1>2. Dropping(m) = Removal(call, m)
  BY DEF Dropping
<1> HIDE DEF call
<1>. QED
  BY <1>1, <1>2, RemovalGood

-----------------------------------------------------------------------------
(* The types.                                                               *)

\* Telling every server of an event keeps the queues queues.
LEMMA ToldType ==
    ASSUME IsNews(news, tenants), NEW U, Grows(tenants, U),
           NEW m \in Servers, NEW e \in Event, e.kind = "join" => m \in U[e.addr]
    PROVE  /\ IsNews(Told(m, e), U)
           /\ \A s \in Servers : Told(m, e)[s][s] = news[s][s]
<1>1. news \in [Servers -> [Servers -> Seq(Event)]]
  BY DEF IsNews
<1>2. \A s, v \in Servers : IsQueue(news[s][v], v, U)
  BY QueueGrows DEF IsNews
<1>3. \A s \in Servers : IsQueue(Append(news[s][m], e), m, U)
  BY <1>2, QueueAppend
<1>4. \A s \in Servers : Append(news[s][m], e) \in Seq(Event)
  BY <1>3 DEF IsQueue
<1>5. Told(m, e) \in [Servers -> [Servers -> Seq(Event)]]
  BY <1>1, <1>4 DEF Told
<1>6. \A s, v \in Servers :
         Told(m, e)[s][v] = IF s # m /\ v = m /\ state[s] = "up"
                            THEN Append(news[s][v], e) ELSE news[s][v]
  BY <1>1 DEF Told
<1>7. \A s, v \in Servers : IsQueue(Told(m, e)[s][v], v, U)
  BY <1>2, <1>3, <1>6
<1>. QED
  BY <1>5, <1>6, <1>7 DEF IsNews

\* A server's queues can be replaced.
LEMMA NewsReplaced ==
    ASSUME NEW n, NEW T, IsNews(n, T), NEW s \in Servers,
           NEW own \in [Servers -> Seq(Event)], \A v \in Servers : IsQueue(own[v], v, T)
    PROVE  /\ IsNews([n EXCEPT ![s] = own], T)
           /\ [n EXCEPT ![s] = own][s][s] = own[s]
           /\ \A v \in Servers : v # s => [n EXCEPT ![s] = own][v][v] = n[v][v]
BY DEF IsNews

\* A queue without its first event among the others.
LEMMA NewsTail ==
    ASSUME IsNews(news, tenants), NEW s \in Servers, NEW m \in Servers, news[s][m] # <<>>,
           news' = [news EXCEPT ![s][m] = Tail(@)]
    PROVE  /\ IsNews(news', tenants)
           /\ \A v \in Servers : news'[v][v] # <<>> => news[v][v] # <<>>
<1>1. IsQueue(Tail(news[s][m]), m, tenants) /\ news \in [Servers -> [Servers -> Seq(Event)]]
  BY QueueTail DEF IsNews
<1>2. Tail(news[s][m]) \in Seq(Event)
  BY <1>1 DEF IsQueue
<1>3. news' \in [Servers -> [Servers -> Seq(Event)]]
  BY <1>1, <1>2
<1>4. \A v, w \in Servers : news'[v][w] = IF v = s /\ w = m THEN Tail(news[s][m]) ELSE news[v][w]
  BY <1>1
<1>5. \A v, w \in Servers : IsQueue(news'[v][w], w, tenants)
  BY <1>1, <1>4 DEF IsNews
<1>6. \A v \in Servers : news'[v][v] # <<>> => news[v][v] # <<>>
  BY <1>4
<1>. QED
  BY <1>3, <1>5, <1>6 DEF IsNews

\* A handler of the leader changes place, the leader's configuration with it.
LEMMA HandlerMoves ==
    ASSUME AreHandlers(handler, voters, tenants, leader), NEW s \in Servers, NEW h \in Handlers,
           NEW d, h # Returned, Calling(h) => leader = s, leader = s => Resumable(h, d, tenants),
           leader # s => d = voters, NEW H, H = [handler EXCEPT ![s] = h]
    PROVE  /\ AreHandlers(H, d, tenants, leader)
           /\ \A v \in Servers : H[v] = Returned => handler[v] = Returned
<1>1. H \in [Servers -> Handlers]
  BY DEF AreHandlers
<1>2. H[s] = h /\ \A v \in Servers : v # s => H[v] = handler[v]
  BY DEF AreHandlers
<1>3. \A v \in Servers : Calling(H[v]) => leader = v
  BY <1>2 DEF AreHandlers
<1>4. \A v \in Servers : Resumable(H[v], d, tenants)
  BY <1>2, <1>3, HandlerKinds DEF AreHandlers, Resumable
<1>. QED
  BY <1>1, <1>2, <1>3, <1>4 DEF AreHandlers

\* A leader that ceases to lead is in no call any more.
LEMMA DeposedType ==
    ASSUME AreHandlers(handler, voters, tenants, leader), NEW s \in Servers, leader = s,
           NEW H, H = Deposed(s)
    PROVE  /\ AreHandlers(H, voters, tenants, Nobody)
           /\ \A v \in Servers : H[v] = Returned => handler[v] = Returned
<1>1. \A v \in Servers : H[v] = IF v = s /\ Calling(handler[v]) THEN Refused ELSE handler[v]
  BY DEF Deposed, InCall, Calling
<1>2. H \in [Servers -> Handlers]
  BY HandlerKinds DEF Deposed, AreHandlers
<1>3. \A v \in Servers : ~Calling(H[v])
  BY <1>1, HandlerKinds DEF AreHandlers, Calling
<1>4. \A v \in Servers : Resumable(H[v], voters, tenants)
  BY <1>3, HandlerKinds DEF Resumable
<1>. QED
  BY <1>1, <1>2, <1>3, <1>4, HandlerKinds DEF AreHandlers

\* The handler of a server that starts or ends is reset.
LEMMA ResetType ==
    ASSUME AreHandlers(handler, voters, tenants, leader), NEW s \in Servers,
           NEW H, H = [handler EXCEPT ![s] = Idle],
           NEW U, Grows(tenants, U), NEW l, l = leader \/ leader = s
    PROVE  /\ AreHandlers(H, voters, U, l)
           /\ H[s] # Returned
           /\ \A v \in Servers : v # s => H[v] = handler[v]
<1>1. H \in [Servers -> Handlers]
  BY HandlerKinds DEF AreHandlers
<1>2. H[s] = Idle /\ \A v \in Servers : v # s => H[v] = handler[v]
  BY DEF AreHandlers
<1>3. ~Calling(Idle)
  BY HandlerKinds DEF Calling
<1>4. \A v \in Servers : Calling(H[v]) => l = v
  BY <1>2, <1>3 DEF AreHandlers
<1>5. ASSUME NEW v \in Servers PROVE Resumable(H[v], voters, U)
  <2>1. CASE H[v].do = "remove"
    <3>1. v # s /\ H[v] = handler[v]
      BY <1>2, <2>1, HandlerKinds
    <3>2. handler[v].addr \in Addresses
      BY <2>1, <3>1, HandlerKinds DEF AreHandlers
    <3>3. Resumable(handler[v], voters, tenants)
      BY DEF AreHandlers
    <3>. QED
      BY <3>1, <3>2, <3>3 DEF Resumable, Grows
  <2>2. CASE H[v].do # "remove"
    BY <2>2 DEF Resumable
  <2>. QED
    BY <2>1, <2>2
<1>. QED
  BY <1>1, <1>2, <1>4, <1>5, HandlerKinds DEF AreHandlers

\* The founders' addresses differ.
LEMMA FoundedAtType ==
    /\ FoundedAt \in [Founders -> Addresses]
    /\ \A v, w \in Founders : FoundedAt[v] = FoundedAt[w] => v = w
<1>1. FoundedAt \in Injection(Founders, Addresses)
  BY MembershipAssumption DEF MembershipAssumption, FoundedAt
<1>. QED
  BY <1>1 DEF Injection, IsInjective

\* The types hold at first.
LEMMA InitTyped == Init => Typed
<1> SUFFICES ASSUME Init PROVE Typed
  OBVIOUS
<1> USE MembershipAssumption DEF MembershipAssumption
<1>0. /\ FoundedAt \in [Founders -> Addresses]
      /\ \A v, w \in Founders : FoundedAt[v] = FoundedAt[w] => v = w
  BY FoundedAtType
<1>1. tenants \in [Addresses -> SUBSET Servers] /\ \A s \in Founders : s \in tenants[FoundedAt[s]]
  BY <1>0 DEF Init
<1>2. AreHandlers(handler, voters, tenants, leader) /\ \A s \in Servers : handler[s] # Returned
  BY HandlerKinds DEF Init, AreHandlers, Calling, Resumable
<1>3. IsNews(news, tenants) /\ \A s \in Servers : news[s][s] = <<>>
  BY EmptySeq, ShortQueues DEF Init, IsNews
<1>4. IsConfiguration(voters, tenants) /\ IsConfiguration(settled, tenants)
  BY <1>0, <1>1 DEF Init, IsConfiguration
<1>5. Leads(leader, handler, voters, state)
  BY <1>0 DEF Init, Leads
<1>6. Lives(state, addr, news, handler, tenants)
  <2>1. /\ state \in [Servers -> {"down", "up", "leaving"}]
        /\ \A s \in Servers : state[s] # "down" => s \in Founders
    BY DEF Init
  <2>2. addr \in [Servers -> Addresses] /\ \A s \in Founders : addr[s] = FoundedAt[s]
    BY <1>0 DEF Init
  <2>. QED
    BY <1>1, <1>2, <1>3, <2>1, <2>2 DEF Lives
<1>7. Counted
  BY DEF Init, Counted
<1>. QED
  BY <1>2, <1>3, <1>4, <1>5, <1>6, <1>7 DEF Typed

\* An election: the new leader is a voter of the configuration that it has.
LEMMA ElectTyped == ASSUME Typed, NEW s \in Servers, Elect(s) PROVE Typed'
<1>1. PICK c \in {voters, settled} : s \in DOMAIN c /\ voters' = c /\ settled' = c
  BY DEF Elect
<1>2. IsConfiguration(c, tenants)
  BY DEF Typed
<1>3. \A v \in Servers : ~Calling(handler[v])
  BY MembershipAssumption DEF Typed, AreHandlers, Elect, MembershipAssumption
<1>4. AreHandlers(handler, c, tenants, s)
  BY <1>3, HandlerKinds DEF Typed, AreHandlers, Resumable
<1>5. Leads(s, handler, c, state)
  BY <1>1 DEF Leads, Elect, Running
<1>6. term' \in 1 .. MaxTerms /\ leader' = s
  BY MembershipAssumption DEF Elect, Typed, Counted, MembershipAssumption
<1>7. UNCHANGED <<state, addr, expelled, news, handler, tenants, starts, departures>>
  BY DEF Elect
<1>. QED
  BY <1>1, <1>2, <1>4, <1>5, <1>6, <1>7 DEF Typed, Counted

\* A leader that steps down.
LEMMA StepDownTyped == ASSUME Typed, StepDown PROVE Typed'
<1>1. leader \in Servers /\ leader' = Nobody /\ handler' = Deposed(leader)
  BY DEF StepDown, Typed, Leads
<1>2. /\ AreHandlers(handler', voters, tenants, Nobody)
      /\ \A v \in Servers : handler'[v] = Returned => handler[v] = Returned
  BY <1>1, DeposedType DEF Typed
<1>3. UNCHANGED <<state, addr, expelled, news, voters, settled, term, tenants, starts,
                  departures>>
  BY DEF StepDown
<1>4. Leads(leader', handler', voters, state)
  BY <1>1 DEF Leads
<1>5. Lives(state, addr, news, handler', tenants)
  BY <1>2 DEF Typed, Lives
<1>. QED
  BY <1>1, <1>2, <1>3, <1>4, <1>5 DEF Typed, Counted

\* A start adds a tenant, whom the others hear of.
LEMMA StartTyped == ASSUME Typed, NEW m \in Servers, NEW a \in Addresses, Start(m, a) PROVE Typed'
<1> DEFINE e == [kind |-> "join", addr |-> a]
           own == [v \in Servers |-> IF v # m /\ state[v] = "up"
                                     THEN <<[kind |-> "join", addr |-> addr[v]]>> ELSE <<>>]
<1>1. /\ state[m] = "down" /\ state' = [state EXCEPT ![m] = "up"]
      /\ addr' = [addr EXCEPT ![m] = a] /\ handler' = [handler EXCEPT ![m] = Idle]
      /\ news' = [Told(m, e) EXCEPT ![m] = own]
      /\ tenants' = [tenants EXCEPT ![a] = @ \cup {m}]
      /\ starts < MaxStarts /\ starts' = starts + 1
      /\ UNCHANGED <<expelled, voters, settled, leader, term, departures>>
  BY DEF Start
<1>2. Lives(state, addr, news, handler, tenants)
  BY DEF Typed
<1>3. /\ tenants \in [Addresses -> SUBSET Servers] /\ tenants' \in [Addresses -> SUBSET Servers]
      /\ m \in tenants'[a] /\ \A b \in Addresses : tenants[b] \subseteq tenants'[b]
  BY <1>1, <1>2 DEF Lives
<1>4. Grows(tenants, tenants')
  BY <1>3 DEF Grows
<1>5. IsNews(Told(m, e), tenants') /\ \A s \in Servers : Told(m, e)[s][s] = news[s][s]
  <2>1. e \in Event /\ e.addr = a
    BY DEF Event
  <2> HIDE DEF e
  <2>2. IsNews(news, tenants)
    BY DEF Typed
  <2>. QED
    BY <1>3, <1>4, <2>1, <2>2, ToldType
<1>6. own \in [Servers -> Seq(Event)] /\ own[m] = <<>>
      /\ \A v \in Servers : IsQueue(own[v], v, tenants')
  <2>1. ASSUME NEW v \in Servers, v # m, state[v] = "up"
        PROVE  IsQueue(<<[kind |-> "join", addr |-> addr[v]]>>, v, tenants')
    <3> DEFINE j == [kind |-> "join", addr |-> addr[v]]
    <3>1. j \in Event /\ j.addr = addr[v] /\ v \in tenants'[addr[v]]
      BY <1>2, <1>3, <2>1 DEF Event, Lives
    <3> HIDE DEF j
    <3>2. IsQueue(<<j>>, v, tenants')
      BY <3>1, ShortQueues
    <3>. QED
      BY <3>2 DEF j
  <2>2. \A v \in Servers : IsQueue(<<>>, v, tenants')
    BY ShortQueues
  <2>3. own[m] = <<>> /\ \A v \in Servers : IsQueue(own[v], v, tenants')
    BY <2>1, <2>2
  <2>4. \A v \in Servers : own[v] \in Seq(Event)
    BY <2>3 DEF IsQueue
  <2>. QED
    BY <2>3, <2>4
<1> HIDE DEF e, own
<1>7. IsNews(news', tenants') /\ news'[m][m] = <<>>
      /\ \A s \in Servers : s # m => news'[s][s] = news[s][s]
  <2> DEFINE t == Told(m, e)
  <2>1. IsNews(t, tenants') /\ \A s \in Servers : t[s][s] = news[s][s]
    BY <1>5
  <2>2. news' = [t EXCEPT ![m] = own]
    BY <1>1
  <2> HIDE DEF t
  <2>3. /\ IsNews([t EXCEPT ![m] = own], tenants')
        /\ [t EXCEPT ![m] = own][m][m] = own[m]
        /\ \A v \in Servers : v # m => [t EXCEPT ![m] = own][v][v] = t[v][v]
    BY <1>6, <2>1, NewsReplaced
  <2>. QED
    BY <1>6, <2>1, <2>2, <2>3
<1>8. AreHandlers(handler', voters, tenants', leader) /\ handler'[m] # Returned
      /\ \A s \in Servers : s # m => handler'[s] = handler[s]
  BY <1>1, <1>4, ResetType DEF Typed
<1>9. IsConfiguration(voters, tenants') /\ IsConfiguration(settled, tenants')
  BY <1>4, ConfigurationGrows DEF Typed
<1>10. /\ state' \in [Servers -> {"down", "up", "leaving"}] /\ state'[m] = "up"
       /\ \A s \in Servers : s # m => state'[s] = state[s]
       /\ addr' \in [Servers -> Addresses] /\ addr'[m] = a
       /\ \A s \in Servers : s # m => addr'[s] = addr[s] /\ addr[s] \in Addresses
  BY <1>1, <1>2 DEF Lives
<1>11. Lives(state', addr', news', handler', tenants')
  BY <1>2, <1>3, <1>7, <1>8, <1>10 DEF Lives
<1>12. Leads(leader, handler', voters, state')
  <2>1. leader # m
    BY <1>1, MembershipAssumption DEF Typed, Leads, MembershipAssumption
  <2>. QED
    BY <1>8, <1>10, <2>1 DEF Typed, Leads
<1>13. Counted'
  BY <1>1, MembershipAssumption DEF Typed, Counted, MembershipAssumption
<1>. QED
  BY <1>1, <1>7, <1>8, <1>9, <1>11, <1>12, <1>13 DEF Typed

\* A server that goes takes its handler, its queues and its leadership with it.
LEMMA EndedTyped ==
    ASSUME Typed, NEW m \in Servers, Ended(m), NEW n, IsNews(n, tenants),
           \A s \in Servers : n[s][s] = news[s][s],
           news' = [n EXCEPT ![m] = [v \in Servers |-> <<>>]],
           UNCHANGED <<addr, voters, settled, term, tenants, starts>>,
           departures' \in 0 .. MaxDepartures
    PROVE  Typed'
<1> DEFINE own == [v \in Servers |-> <<>>]
<1>1. /\ state' = [state EXCEPT ![m] = "down"] /\ expelled' \subseteq Servers
      /\ handler' = [handler EXCEPT ![m] = Idle]
      /\ leader' = IF leader = m THEN Nobody ELSE leader
  BY DEF Ended, Typed, Counted
<1>2. own \in [Servers -> Seq(Event)] /\ own[m] = <<>>
      /\ \A v \in Servers : IsQueue(own[v], v, tenants)
  BY EmptySeq, ShortQueues
<1> HIDE DEF own
<1>3. IsNews(news', tenants) /\ news'[m][m] = <<>>
      /\ \A s \in Servers : s # m => news'[s][s] = news[s][s]
  <2>1. news' = [n EXCEPT ![m] = own]
    BY DEF own
  <2>2. /\ IsNews([n EXCEPT ![m] = own], tenants)
        /\ [n EXCEPT ![m] = own][m][m] = own[m]
        /\ \A v \in Servers : v # m => [n EXCEPT ![m] = own][v][v] = n[v][v]
    <3>1. IsNews(n, tenants)
      OBVIOUS
    <3>. QED
      BY ONLY m \in Servers, <1>2, <3>1, NewsReplaced
  <2>. QED
    BY <1>2, <2>1, <2>2
<1>4. AreHandlers(handler', voters, tenants, leader') /\ handler'[m] # Returned
      /\ \A s \in Servers : s # m => handler'[s] = handler[s]
  <2>1. Grows(tenants, tenants) /\ (leader' = leader \/ leader = m)
    BY <1>1 DEF Grows
  <2>2. AreHandlers(handler, voters, tenants, leader) /\ handler' = [handler EXCEPT ![m] = Idle]
    BY <1>1 DEF Typed
  <2>. QED
    BY ONLY m \in Servers, <2>1, <2>2, ResetType
<1>5. state' \in [Servers -> {"down", "up", "leaving"}] /\ state'[m] = "down"
      /\ \A s \in Servers : s # m => state'[s] = state[s]
  BY <1>1 DEF Typed, Lives
<1>6. Lives(state', addr, news', handler', tenants)
  BY <1>3, <1>4, <1>5 DEF Typed, Lives
<1>7. Leads(leader', handler', voters, state')
  BY <1>1, <1>4, <1>5 DEF Typed, Leads
<1>8. Counted'
  BY <1>1 DEF Typed, Counted
<1>. QED
  BY <1>3, <1>4, <1>6, <1>7, <1>8 DEF Typed

\* A server that crashes or stops.
LEMMA FailTyped == ASSUME Typed, NEW m \in Servers, Fail(m) \/ Stop(m) PROVE Typed'
<1>1. IsNews(news, tenants) /\ departures \in 0 .. MaxDepartures
  BY DEF Typed, Counted
<1>2. CASE Fail(m)
  <2> DEFINE e == [kind |-> "failed"]
             n == Told(m, e)
  <2>1. IsNews(n, tenants) /\ \A s \in Servers : n[s][s] = news[s][s]
    <3>1. e \in Event /\ e.kind # "join" /\ Grows(tenants, tenants)
      BY DEF Event, Grows
    <3> HIDE DEF e
    <3>. QED
      BY <1>1, <3>1, ToldType
  <2>2. /\ Ended(m) /\ news' = [n EXCEPT ![m] = [v \in Servers |-> <<>>]]
        /\ UNCHANGED <<addr, voters, settled, term, tenants, starts>>
        /\ departures' \in 0 .. MaxDepartures
    BY <1>1, <1>2, MembershipAssumption DEF Fail, MembershipAssumption
  <2> HIDE DEF n
  <2>. QED
    BY <2>1, <2>2, EndedTyped
<1>3. CASE Stop(m)
  <2>1. /\ Ended(m) /\ news' = [news EXCEPT ![m] = [v \in Servers |-> <<>>]]
        /\ UNCHANGED <<addr, voters, settled, term, tenants, starts>>
        /\ departures' \in 0 .. MaxDepartures
    BY <1>1, <1>3 DEF Stop
  <2>2. \A s \in Servers : news[s][s] = news[s][s]
    OBVIOUS
  <2>. QED
    BY <1>1, <2>1, <2>2, EndedTyped
<1>. QED
  BY <1>2, <1>3

\* A server that leaves.
LEMMA LeaveTyped == ASSUME Typed, NEW m \in Servers, Leave(m) PROVE Typed'
<1> DEFINE e == [kind |-> "leave"]
           n == Told(m, e)
           own == [news[m] EXCEPT ![m] = <<e>>]
<1>1. /\ state' = [state EXCEPT ![m] = "leaving"] /\ news' = [n EXCEPT ![m] = own]
      /\ departures < MaxDepartures /\ departures' = departures + 1
      /\ UNCHANGED <<addr, expelled, handler, voters, settled, leader, term, tenants, starts>>
  BY DEF Leave
<1>2. e \in Event /\ e.kind # "join" /\ Grows(tenants, tenants)
  BY DEF Event, Grows
<1> HIDE DEF e
<1>3. IsNews(n, tenants) /\ \A s \in Servers : n[s][s] = news[s][s]
  BY <1>2, ToldType DEF Typed
<1>4. own \in [Servers -> Seq(Event)] /\ \A v \in Servers : IsQueue(own[v], v, tenants)
  <2>1. IsQueue(<<e>>, m, tenants) /\ <<e>> \in Seq(Event)
    <3>1. IsQueue(<<e>>, m, tenants)
      BY <1>2, ShortQueues
    <3>. QED
      BY <3>1 DEF IsQueue
  <2>2. news[m] \in [Servers -> Seq(Event)] /\ \A v \in Servers : IsQueue(news[m][v], v, tenants)
    BY DEF Typed, IsNews
  <2>. QED
    BY <2>1, <2>2
<1> HIDE DEF n, own
<1>5. /\ IsNews(news', tenants)
      /\ \A s \in Servers : s # m => news'[s][s] = news[s][s]
  <2>1. /\ IsNews([n EXCEPT ![m] = own], tenants)
        /\ [n EXCEPT ![m] = own][m][m] = own[m]
        /\ \A v \in Servers : v # m => [n EXCEPT ![m] = own][v][v] = n[v][v]
    BY ONLY m \in Servers, <1>3, <1>4, NewsReplaced
  <2>. QED
    BY <1>1, <1>3, <2>1
<1>6. state' \in [Servers -> {"down", "up", "leaving"}] /\ state'[m] = "leaving"
      /\ \A s \in Servers : s # m => state'[s] = state[s]
  BY <1>1 DEF Typed, Lives
<1>7. state[m] = "up"
  BY DEF Leave
<1>8. Lives(state', addr, news', handler, tenants)
  BY <1>5, <1>6, <1>7 DEF Typed, Lives
<1>9. Leads(leader, handler, voters, state')
  BY <1>6 DEF Typed, Leads
<1>10. Counted'
  BY <1>1, MembershipAssumption DEF Typed, Counted, MembershipAssumption
<1>. QED
  BY <1>1, <1>5, <1>8, <1>9, <1>10 DEF Typed

\* A leader that waits is a voter.
LEMMA WaitingLeader ==
    ASSUME Typed, NEW s \in Servers, leader = s, handler[s] \in {Idle, Refused}
    PROVE  s \in DOMAIN voters /\ IsConfiguration(voters, tenants)
BY HandlerKinds, MembershipAssumption DEF Typed, Leads, MembershipAssumption

\* The leader's handler moves on with a good answer.
LEMMA GoodCallTyped ==
    ASSUME Typed, NEW s \in Servers, NEW m, NEW r, leader = s => GoodCall(r, s, m, voters, tenants),
           handler' = [handler EXCEPT ![s] = IF leader = s THEN r.call ELSE Idle],
           voters' = IF leader = s THEN r.voters ELSE voters,
           IsNews(news', tenants), \A v \in Servers : news'[v][v] # <<>> => news[v][v] # <<>>,
           settled' \in {settled, voters},
           UNCHANGED <<state, addr, expelled, leader, term, tenants, starts, departures>>
    PROVE  Typed'
<1> DEFINE h == IF leader = s THEN r.call ELSE Idle
<1>1. /\ h \in Handlers /\ h # Returned
      /\ Calling(h) => leader = s
      /\ leader = s => Resumable(h, voters', tenants)
  BY HandlerKinds DEF GoodCall, Handlers, Calling
<1>2. handler' = [handler EXCEPT ![s] = h]
  OBVIOUS
<1>3. leader = s => handler'[s] = r.call
  BY DEF Typed, AreHandlers
<1> HIDE DEF h
<1>4. /\ AreHandlers(handler', voters', tenants, leader)
      /\ \A v \in Servers : handler'[v] = Returned => handler[v] = Returned
  <2>1. AreHandlers(handler, voters, tenants, leader) /\ (leader # s => voters' = voters)
    BY DEF Typed
  <2>. QED
    BY ONLY s \in Servers, <1>1, <1>2, <2>1, HandlerMoves
<1>5. IsConfiguration(voters', tenants) /\ IsConfiguration(settled', tenants)
  BY DEF Typed, GoodCall
<1>6. Leads(leader, handler', voters', state)
  <2>1. CASE leader = s
    BY <1>3, <2>1 DEF Leads, GoodCall, Typed
  <2>2. CASE leader # s
    <3>1. \A v \in Servers : v # s => handler'[v] = handler[v]
      BY DEF Typed, AreHandlers
    <3>. QED
      BY <2>2, <3>1 DEF Leads, Typed
  <2>. QED
    BY <2>1, <2>2
<1>7. Lives(state, addr, news', handler', tenants)
  BY <1>4 DEF Typed, Lives
<1>8. Counted'
  BY DEF Typed, Counted
<1>9. UNCHANGED <<state, addr, leader, tenants>> /\ IsNews(news', tenants)
  OBVIOUS
<1>. QED
  BY ONLY <1>4, <1>5, <1>6, <1>7, <1>8, <1>9 DEF Typed

\* An event is passed on to Join or Leave.
LEMMA HandleTyped ==
    ASSUME Typed, NEW s \in Servers, NEW m \in Servers, news[s][m] # <<>>, NEW r,
           leader = s => GoodCall(r, s, m, voters, tenants), Handle(s, m, r)
    PROVE  Typed'
<1>1. /\ handler' = [handler EXCEPT ![s] = IF leader = s THEN r.call ELSE Idle]
      /\ voters' = IF leader = s THEN r.voters ELSE voters
      /\ news' = [news EXCEPT ![s][m] = Tail(@)] /\ settled' = settled
      /\ UNCHANGED <<state, addr, expelled, leader, term, tenants, starts, departures>>
  BY DEF Handle
<1>2. IsNews(news', tenants) /\ \A v \in Servers : news'[v][v] # <<>> => news[v][v] # <<>>
  BY <1>1, NewsTail DEF Typed
<1>. QED
  BY <1>1, <1>2, GoodCallTyped

\* What an event about m asks of the leader is good.
LEMMA JoinHandled ==
    ASSUME Typed, NEW s \in Servers, NEW m \in Servers, HandleJoin(s, m)
    PROVE  /\ s # m /\ news[s][m] # <<>> /\ Head(news[s][m]).addr \in Addresses
           /\ \E r \in JoinCall(m, Head(news[s][m]).addr) :
                 Handle(s, m, r) /\ (leader = s => GoodCall(r, s, m, voters, tenants))
<1>1. s # m /\ news[s][m] # <<>> /\ Head(news[s][m]).kind = "join"
  BY DEF HandleJoin
<1>2. Head(news[s][m]) \in Event /\ m \in tenants[Head(news[s][m]).addr]
  <2>1. IsQueue(news[s][m], m, tenants)
    BY DEF Typed, IsNews
  <2>. QED
    BY ONLY <1>1, <2>1, QueueTail
<1>3. Head(news[s][m]).addr \in Addresses
  BY <1>1, <1>2 DEF Event
<1>4. PICK r \in JoinCall(m, Head(news[s][m]).addr) : Handle(s, m, r)
  BY DEF HandleJoin
<1>5. leader = s => s \in DOMAIN voters /\ IsConfiguration(voters, tenants)
  BY <1>4, WaitingLeader DEF Handle
<1>6. leader = s => GoodCall(r, s, m, voters, tenants)
  BY <1>2, <1>3, <1>5, JoinGood
<1>. QED
  BY <1>1, <1>3, <1>4, <1>6

LEMMA LeaveHandled ==
    ASSUME Typed, NEW s \in Servers, NEW m \in Servers, HandleLeave(s, m)
    PROVE  /\ s # m /\ news[s][m] # <<>> /\ Handle(s, m, Dropping(m))
           /\ leader = s => GoodCall(Dropping(m), s, m, voters, tenants)
<1>1. s # m /\ news[s][m] # <<>> /\ Handle(s, m, Dropping(m))
  BY DEF HandleLeave
<1>2. leader = s => s \in DOMAIN voters /\ IsConfiguration(voters, tenants)
  BY <1>1, WaitingLeader DEF Handle
<1>. QED
  BY <1>1, <1>2, DroppingGood

\* What Join goes on with is good.
LEMMA CommittedGood ==
    ASSUME Typed, NEW s \in Servers, Committed(s)
    PROVE  LET h == handler[s]
               nexts == IF h.do = "remove" THEN Rejoining(h.member, h.addr, h.left) ELSE {NoCall}
           IN  /\ h \in Calls /\ leader = s /\ s \in DOMAIN voters
               /\ \E r \in nexts : /\ handler' = [handler EXCEPT ![s] = r.call] /\ voters' = r.voters
                                   /\ GoodCall(r, s, h.member, voters, tenants)
<1> DEFINE h == handler[s]
           nexts == IF h.do = "remove" THEN Rejoining(h.member, h.addr, h.left) ELSE {NoCall}
<1>1. h \in Calls /\ leader = s /\ s \in DOMAIN voters
  BY HandlerKinds DEF Committed, InCall, Calling, Typed, AreHandlers
<1>2. PICK r \in nexts : handler' = [handler EXCEPT ![s] = r.call] /\ voters' = r.voters
  BY DEF Committed
<1>3. IsConfiguration(voters, tenants) /\ Resumable(h, voters, tenants)
  BY DEF Typed, AreHandlers
<1> HIDE DEF h
<1>4. GoodCall(r, s, h.member, voters, tenants)
  <2>1. CASE h.do = "remove"
    <3>1. /\ h.member \in Servers /\ h.addr \in Addresses /\ h.member \in tenants[h.addr]
          /\ h.left = ConflictsIn(voters, h.member, h.addr)
      BY <1>1, <1>3, <2>1, HandlerKinds DEF Resumable
    <3>2. r \in Rejoining(h.member, h.addr, ConflictsIn(voters, h.member, h.addr))
      BY <1>2, <2>1, <3>1
    <3>. QED
      BY <1>1, <1>3, <3>1, <3>2, RejoiningGood
  <2>2. CASE h.do # "remove"
    <3>1. r = NoCall
      BY <1>2, <2>2
    <3>. QED
      BY <1>1, <1>3, <3>1, NoCallGood
  <2>. QED
    BY <2>1, <2>2
<1>. QED
  BY <1>1, <1>2, <1>4 DEF h

\* A change that is committed, and what Join asks for next.
LEMMA CommittedTyped == ASSUME Typed, NEW s \in Servers, Committed(s) PROVE Typed'
<1>1. PICK r : /\ handler' = [handler EXCEPT ![s] = r.call] /\ voters' = r.voters
               /\ GoodCall(r, s, handler[s].member, voters, tenants)
  BY CommittedGood
<1>2. /\ leader = s /\ settled' = voters
      /\ UNCHANGED <<state, addr, expelled, news, leader, term, tenants, starts, departures>>
  BY DEF Committed
<1>3. IsNews(news', tenants)
  BY <1>2 DEF Typed
<1>. QED
  BY <1>1, <1>2, <1>3, GoodCallTyped

\* A leader that has removed itself leads no more.
LEMMA RemovesItselfTyped == ASSUME Typed, NEW s \in Servers, RemovesItself(s) PROVE Typed'
<1>1. /\ leader = s /\ settled' = voters /\ leader' = Nobody
      /\ expelled' = expelled \cup {s} /\ handler' = Deposed(s)
      /\ UNCHANGED <<state, addr, news, voters, term, tenants, starts, departures>>
  BY DEF RemovesItself
<1>2. /\ AreHandlers(handler', voters, tenants, Nobody)
      /\ \A v \in Servers : handler'[v] = Returned => handler[v] = Returned
  BY <1>1, DeposedType DEF Typed
<1>3. Leads(leader', handler', voters, state)
  BY <1>1 DEF Leads
<1>4. Lives(state, addr, news, handler', tenants)
  BY <1>2 DEF Typed, Lives
<1>5. Counted'
  BY <1>1 DEF Typed, Counted
<1>. QED
  BY <1>1, <1>2, <1>3, <1>4, <1>5 DEF Typed

\* An eventHandler that returns, on a server that leaves.
LEMMA OwnLeaveTyped == ASSUME Typed, NEW s \in Servers, HandleOwnLeave(s) PROVE Typed'
<1>1. /\ handler[s] = Idle /\ news[s][s] # <<>>
      /\ handler' = [handler EXCEPT ![s] = Returned]
      /\ news' = [news EXCEPT ![s][s] = Tail(@)]
      /\ UNCHANGED <<state, addr, expelled, voters, settled, leader, term, tenants, starts, departures>>
  BY DEF HandleOwnLeave
<1>2. IsNews(news', tenants) /\ \A v \in Servers : news'[v][v] # <<>> => news[v][v] # <<>>
  BY <1>1, NewsTail DEF Typed
<1>3. handler'[s] = Returned /\ \A v \in Servers : v # s => handler'[v] = handler[v]
  BY <1>1 DEF Typed, AreHandlers
<1>4. AreHandlers(handler', voters, tenants, leader)
  <2>1. handler' \in [Servers -> Handlers]
    BY <1>1, HandlerKinds DEF Typed, AreHandlers
  <2>2. ~Calling(Returned) /\ Returned.do # "remove"
    BY HandlerKinds DEF Calling
  <2>. QED
    BY <1>3, <2>1, <2>2 DEF Typed, AreHandlers, Resumable
<1>5. Leads(leader, handler', voters, state)
  BY <1>1, <1>3, HandlerKinds DEF Typed, Leads
<1>6. Lives(state, addr, news', handler', tenants)
  BY <1>1, <1>2, <1>3 DEF Typed, Lives
<1>7. Counted'
  BY <1>1 DEF Typed, Counted
<1>. QED
  BY <1>1, <1>2, <1>4, <1>5, <1>6, <1>7 DEF Typed

\* A call's error is logged.
LEMMA CallFailedTyped == ASSUME Typed, NEW s \in Servers, CallFailed(s) PROVE Typed'
<1> DEFINE r == NoCall
<1>1. /\ handler' = [handler EXCEPT ![s] = Idle] /\ handler[s] = Refused
      /\ UNCHANGED <<state, addr, expelled, news, voters, settled, leader, term, tenants, starts, departures>>
  BY DEF CallFailed
<1>2. leader = s => GoodCall(r, s, s, voters, tenants)
  BY <1>1, WaitingLeader, NoCallGood
<1>3. r.call = Idle /\ r.voters = voters
  BY DEF NoCall
<1>4. IsNews(news', tenants)
  BY <1>1 DEF Typed
<1> HIDE DEF r
<1>. QED
  BY <1>1, <1>2, <1>3, <1>4, GoodCallTyped

\* One step per action.
LEMMA StepTyped == Typed /\ [Next]_vars => Typed'
<1> SUFFICES ASSUME Typed, [Next]_vars PROVE Typed'
  OBVIOUS
<1>1. ASSUME NEW s \in Servers, NEW m \in Servers, HandleJoin(s, m) PROVE Typed'
  BY <1>1, JoinHandled, HandleTyped
<1>2. ASSUME NEW s \in Servers, NEW m \in Servers, HandleLeave(s, m) PROVE Typed'
  BY <1>2, LeaveHandled, HandleTyped
<1>3. ASSUME NEW s \in Servers, HandlerStep(s) PROVE Typed'
  BY <1>1, <1>2, <1>3, OwnLeaveTyped, CommittedTyped, RemovesItselfTyped, CallFailedTyped
     DEF HandlerStep
<1>4. CASE UNCHANGED vars
  BY <1>4 DEF vars, Typed, Counted
<1>. QED
  BY <1>3, <1>4, ElectTyped, StepDownTyped, StartTyped, FailTyped, LeaveTyped DEF Next

\* The types used below are those that TypeOK asks for.
LEMMA TypedMeans == Typed => TypeOK
<1> SUFFICES ASSUME Typed PROVE TypeOK
  OBVIOUS
<1>1. ASSUME NEW c, IsConfiguration(c, tenants)
      PROVE  DOMAIN c \in (SUBSET Servers) \ {{}} /\ c \in Injection(DOMAIN c, Addresses)
  BY <1>1 DEF IsConfiguration, Injection, IsInjective
<1>2. /\ leader \in Servers \cup {Nobody}
      /\ leader \in Servers \ DOMAIN voters => handler[leader].do = "remove"
  BY MembershipAssumption DEF Typed, Leads, MembershipAssumption
<1>. QED
  BY <1>1, <1>2 DEF Typed, TypeOK, IsNews, Lives, Counted

\* TypeOK holds however members come and go and whoever handles that: no two
\* voters of a configuration have one address and it is never empty, a leader is
\* one of its own voters unless it is just removing itself, and an eventHandler
\* returns only on a server that leaves.
THEOREM TypeCorrect == Spec => []TypeOK
<1>1. Init => Typed
  BY InitTyped
<1>2. Typed /\ [Next]_vars => Typed'
  BY StepTyped
<1>3. Typed => TypeOK
  BY TypedMeans
<1>. QED
  BY <1>1, <1>2, <1>3, PTL DEF Spec

-----------------------------------------------------------------------------
(* The first leader misses nothing.                                         *)

\* The invariant holds once the cluster is formed.
LEMMA InitMInv == Init => MInv
<1> SUFFICES ASSUME Init PROVE MInv
  OBVIOUS
<1> USE MembershipAssumption DEF MembershipAssumption
<1>1. ASSUME NEW m \in Servers PROVE Informed(m)
  <2>1. news[Bootstrap][m] = <<>> /\ handler[Bootstrap].do = "wait"
    BY HandlerKinds DEF Init
  <2>2. Due(voters, m)
    BY FoundedAtType DEF Init, Due
  <2>. QED
    BY <2>1, <2>2 DEF Informed, Answered, Replacing
<1>. QED
  BY <1>1, InitTyped DEF MInv, AllInformed

\* Nothing happens to m, and the leader hears nothing of it.
Same(m) == /\ state'[m] = state[m] /\ addr'[m] = addr[m]
           /\ news'[Bootstrap][m] = news[Bootstrap][m]

\* A server that shares its address goes on sharing it.
LEMMA SharedStays ==
    ASSUME Typed, NEW v \in Servers, addr'[v] = addr[v], Grows(tenants, tenants'), ~Alone(v)
    PROVE  ~Alone(v)'
<1>1. addr[v] \in Addresses
  BY DEF Typed, Lives
<1>. QED
  BY <1>1 DEF Alone, Grows

\* A step that spares a member and does not touch it keeps the leader informed
\* about it.
LEMMA UntouchedInformed ==
    ASSUME Typed, NEW v \in Servers, NEW m, m # v, Informed(v), Same(v),
           Grows(tenants, tenants'), Spared(v, voters, voters', m, tenants),
           Replacing(handler'[Bootstrap], v) <=> Replacing(handler[Bootstrap], v),
           Replacing(handler[Bootstrap], v) => handler'[Bootstrap] = handler[Bootstrap]
    PROVE  Informed(v)'
<1>1. CASE news[Bootstrap][v] # <<>>
  <2>1. Final(news[Bootstrap][v])' = Final(news[Bootstrap][v])
    BY DEF Same, Final
  <2>2. Says(Final(news[Bootstrap][v]), v) => Says(Final(news[Bootstrap][v]), v)'
    BY <2>1 DEF Same, Says
  <2>. QED
    BY <1>1, <2>2 DEF Same, Informed
<1>2. CASE news[Bootstrap][v] = <<>> /\ Replacing(handler[Bootstrap], v)
  BY <1>2 DEF Same, Informed, Answered
<1>3. CASE news[Bootstrap][v] = <<>> /\ ~Replacing(handler[Bootstrap], v)
  <2>1. Due(voters, v) \/ (state[v] = "up" /\ ~Alone(v))
    BY <1>3 DEF Informed, Answered
  <2>2. CASE state[v] = "up" /\ ~Alone(v)
    BY <1>3, <2>2, SharedStays DEF Same, Informed, Answered
  <2>3. CASE state[v] = "up" /\ Due(voters, v)
    <3>1. v \in DOMAIN voters /\ voters[v] = addr[v]
      BY <2>3 DEF Due
    <3>2. CASE v \in DOMAIN voters'
      <4>1. Due(voters, v)'
        BY <2>3, <3>1, <3>2 DEF Same, Due, Spared
      <4>. QED
        BY <1>3, <4>1 DEF Same, Informed, Answered
    <3>3. CASE v \notin DOMAIN voters'
      <4>1. ~Alone(v)
        BY <3>1, <3>3 DEF Spared, Alone
      <4>. QED
        BY <1>3, <2>3, <4>1, SharedStays DEF Same, Informed, Answered
    <3>. QED
      BY <3>2, <3>3
  <2>4. CASE state[v] # "up" /\ Due(voters, v)
    <3>1. Due(voters, v)'
      BY <2>4 DEF Same, Due, Spared
    <3>. QED
      BY <1>3, <3>1 DEF Same, Informed, Answered
  <2>. QED
    BY <2>1, <2>2, <2>3, <2>4
<1>. QED
  BY <1>1, <1>2, <1>3

Known == \A v \in Servers \ {Bootstrap} : Informed(v)

\* A step that concerns neither the leader's configuration nor its handler.
LEMMA QuietInformed ==
    ASSUME Typed, NEW v \in Servers \ {Bootstrap}, Informed(v), Same(v),
           Grows(tenants, tenants'), voters' = voters,
           handler'[Bootstrap] = handler[Bootstrap]
    PROVE  Informed(v)'
<1>1. Spared(v, voters, voters', Bootstrap, tenants)
  BY DEF Spared
<1>. QED
  BY <1>1, UntouchedInformed

\* What Serf tells of m is the truth and the last of its queue.
LEMMA ToldInformed ==
    ASSUME Typed, Known, state[Bootstrap] = "up",
           NEW m \in Servers, m # Bootstrap, NEW e \in Event,
           news'[Bootstrap] = Told(m, e)[Bootstrap], Says(e, m)',
           \A v \in Servers \ {m} : state'[v] = state[v] /\ addr'[v] = addr[v],
           Grows(tenants, tenants'), voters' = voters,
           handler'[Bootstrap] = handler[Bootstrap]
    PROVE  Known'
<1> USE MembershipAssumption DEF MembershipAssumption
<1>1. /\ news'[Bootstrap][m] = Append(news[Bootstrap][m], e)
      /\ \A v \in Servers \ {m} : news'[Bootstrap][v] = news[Bootstrap][v]
  <2>1. news \in [Servers -> [Servers -> Seq(Event)]]
    BY DEF Typed, IsNews
  <2>2. Told(m, e)[Bootstrap] = [news[Bootstrap] EXCEPT ![m] = Append(@, e)]
    BY <2>1 DEF Told
  <2>. QED
    BY <2>1, <2>2
<1>2. Informed(m)'
  <2>1. news'[Bootstrap][m] # <<>> /\ Final(news'[Bootstrap][m]) = e
    <3>1. news[Bootstrap][m] \in Seq(Event)
      BY DEF Typed, IsNews
    <3>. QED
      BY <1>1, <3>1, AppendProperties DEF Final
  <2>2. Says(Final(news[Bootstrap][m]), m)'
    BY <2>1 DEF Says
  <2>. QED
    BY <2>1, <2>2 DEF Informed
<1>3. ASSUME NEW v \in Servers \ {Bootstrap}, v # m PROVE Informed(v)'
  <2>1. Informed(v) /\ Same(v)
    BY <1>1, <1>3 DEF Same, Known
  <2>. QED
    BY <2>1, QuietInformed
<1>. QED
  BY <1>2, <1>3 DEF Known

\* The leader's handler moves on about m: it is informed about the others.
LEMMA MovesInformed ==
    ASSUME Typed, Known, NEW m, NEW r, GoodCall(r, Bootstrap, m, voters, tenants),
           handler'[Bootstrap] = r.call, voters' = r.voters, UNCHANGED <<state, addr, tenants>>,
           \A v \in Servers \ {m} : news'[Bootstrap][v] = news[Bootstrap][v],
           handler[Bootstrap].do = "remove" => handler[Bootstrap].member = m,
           m \in Servers \ {Bootstrap} => Informed(m)'
    PROVE  Known'
<1>1. ASSUME NEW v \in Servers \ {Bootstrap}, v # m PROVE Informed(v)'
  <2>1. Informed(v) /\ Same(v) /\ Grows(tenants, tenants')
    BY <1>1 DEF Known, Same, Grows
  <2>2. Spared(v, voters, voters', m, tenants)
    BY <1>1 DEF GoodCall
  <2>3. ~Replacing(handler[Bootstrap], v) /\ ~Replacing(handler'[Bootstrap], v)
    BY <1>1, HandlerKinds DEF Replacing, GoodCall
  <2>. QED
    BY <1>1, <2>1, <2>2, <2>3, UntouchedInformed
<1>. QED
  BY <1>1 DEF Known

\* Join does what it has to about a member that runs at the address a, or another
\* one has been there too.
LEMMA RejoiningAnswers ==
    ASSUME Typed, Bootstrap \in DOMAIN voters, NEW m \in Servers \ {Bootstrap},
           state[m] = "up", NEW a, a = addr[m],
           NEW r \in Rejoining(m, a, ConflictsIn(voters, m, a))
    PROVE  Answered(r.call, r.voters, m)
<1> DEFINE left == ConflictsIn(voters, m, a)
<1>1. CASE left = {}
  <2>1. r = Addition(m, a)
    BY <1>1 DEF Rejoining
  <2>2. r.call.do = "add" /\ r.voters = With(voters, m, a)
    BY <2>1 DEF Addition
  <2>3. m \in DOMAIN r.voters /\ r.voters[m] = a
    BY <2>2 DEF With
  <2>. QED
    BY <2>2, <2>3 DEF Answered, Replacing, Due
<1>2. CASE left # {}
  <2>1. PICK v \in left :
            r = Removal([do |-> "remove", member |-> m, addr |-> a, left |-> left \ {v}], v)
    BY <1>2 DEF Rejoining
  <2>2. CASE DOMAIN voters = {v}
    <3>1. r.call = Refused
      BY <2>1, <2>2 DEF Removal
    <3>2. v = Bootstrap /\ voters[Bootstrap] = a
      BY <2>1, <2>2 DEF ConflictsIn
    <3>3. Bootstrap \in tenants[a]
      BY <3>2 DEF Typed, IsConfiguration
    <3>4. ~Alone(m)
      BY <3>3 DEF Alone
    <3>. QED
      BY <3>1, <3>4, HandlerKinds DEF Answered, Replacing
  <2>3. CASE DOMAIN voters # {v}
    BY <2>1, <2>3 DEF Removal, Answered, Replacing
  <2>. QED
    BY <2>2, <2>3
<1>. QED
  BY <1>1, <1>2

LEMMA JoinAnswers ==
    ASSUME Typed, Bootstrap \in DOMAIN voters, NEW m \in Servers \ {Bootstrap},
           state[m] = "up", NEW a, a = addr[m], NEW r \in JoinCall(m, a)
    PROVE  Answered(r.call, r.voters, m)
<1>1. CASE m \in DOMAIN voters /\ voters[m] = a
  BY <1>1, HandlerKinds DEF JoinCall, NoCall, Answered, Replacing, Due
<1>2. CASE ~(m \in DOMAIN voters /\ voters[m] = a)
  BY <1>2, RejoiningAnswers DEF JoinCall, Conflicting, ConflictsIn
<1>. QED
  BY <1>1, <1>2

\* Leave does about one that does not run.
LEMMA DroppingAnswers ==
    ASSUME Bootstrap \in DOMAIN voters, NEW m \in Servers \ {Bootstrap}, state[m] # "up"
    PROVE  Answered(Dropping(m).call, Dropping(m).voters, m)
<1>1. DOMAIN voters # {m}
  OBVIOUS
<1>2. Dropping(m).call.do = "drop" /\ Dropping(m).voters = Without(voters, m)
  BY <1>1 DEF Dropping, Removal
<1>3. m \notin DOMAIN Dropping(m).voters
  BY <1>2 DEF Without
<1>. QED
  BY <1>2, <1>3 DEF Answered, Replacing, Due

\* An event goes from its queue together with the change it asks for.
LEMMA HandledInformed ==
    ASSUME Typed, Known, leader = Bootstrap, NEW m \in Servers \ {Bootstrap},
           news[Bootstrap][m] # <<>>,
           NEW r, GoodCall(r, Bootstrap, m, voters, tenants), Handle(Bootstrap, m, r),
           Says(Head(news[Bootstrap][m]), m) => Answered(r.call, r.voters, m)
    PROVE  Known'
<1> USE MembershipAssumption DEF MembershipAssumption
<1>1. IsQueue(news[Bootstrap][m], m, tenants)
  BY DEF Typed, IsNews
<1>2. /\ handler'[Bootstrap] = r.call /\ voters' = r.voters
      /\ handler[Bootstrap].do = "wait"
      /\ news'[Bootstrap][m] = Tail(news[Bootstrap][m])
      /\ \A v \in Servers \ {m} : news'[Bootstrap][v] = news[Bootstrap][v]
      /\ UNCHANGED <<state, addr, tenants>>
  BY HandlerKinds DEF Handle, Typed, AreHandlers, IsNews
<1>3. Informed(m)'
  <2>1. CASE Tail(news[Bootstrap][m]) # <<>>
    <3>1. Final(news'[Bootstrap][m]) = Final(news[Bootstrap][m])
      BY <1>1, <1>2, <2>1, QueueTail
    <3>2. Says(Final(news[Bootstrap][m]), m)
      BY DEF Informed, Known
    <3>3. Says(Final(news[Bootstrap][m]), m)'
      BY <1>2, <3>1, <3>2 DEF Says
    <3>. QED
      BY <1>2, <2>1, <3>3 DEF Informed
  <2>2. CASE Tail(news[Bootstrap][m]) = <<>>
    <3>1. Final(news[Bootstrap][m]) = Head(news[Bootstrap][m])
      BY <1>1, <2>2, QueueTail
    <3>2. Says(Head(news[Bootstrap][m]), m)
      BY <3>1 DEF Informed, Known
    <3>3. Answered(r.call, r.voters, m)
      BY <3>2
    <3>4. Answered(handler[Bootstrap], voters, m)'
      BY <1>2, <3>3 DEF Answered, Due, Alone
    <3>. QED
      BY <1>2, <2>2, <3>4 DEF Informed
  <2>. QED
    BY <2>1, <2>2
<1>. QED
  BY <1>2, <1>3, MovesInformed

\* A change of the leader is committed: Join has asked for the next one.
LEMMA CommittedInformed ==
    ASSUME Typed, Known, Committed(Bootstrap)
    PROVE  Known'
<1> USE MembershipAssumption DEF MembershipAssumption
<1> DEFINE h == handler[Bootstrap]
           nexts == IF h.do = "remove" THEN Rejoining(h.member, h.addr, h.left) ELSE {NoCall}
<1>1. /\ h \in Calls /\ Bootstrap \in DOMAIN voters
      /\ \E r \in nexts :
            /\ handler' = [handler EXCEPT ![Bootstrap] = r.call] /\ voters' = r.voters
            /\ GoodCall(r, Bootstrap, h.member, voters, tenants)
  BY CommittedGood
<1>2. PICK r \in nexts : /\ handler' = [handler EXCEPT ![Bootstrap] = r.call] /\ voters' = r.voters
                         /\ GoodCall(r, Bootstrap, h.member, voters, tenants)
  BY <1>1
<1>3. handler'[Bootstrap] = r.call /\ h.member \in Servers
  BY <1>1, <1>2, HandlerKinds DEF Typed, AreHandlers
<1>4. UNCHANGED <<state, addr, news, tenants>>
  BY DEF Committed
<1>m. PICK m \in Servers : m = h.member
  BY <1>3
<1>5. ASSUME m # Bootstrap PROVE Informed(m)'
  <2>1. Informed(m)
    BY <1>5 DEF Known
  <2>2. CASE news[Bootstrap][m] # <<>>
    <3>1. Final(news[Bootstrap][m])' = Final(news[Bootstrap][m])
      BY <1>4 DEF Final
    <3>2. Says(Final(news[Bootstrap][m]), m) => Says(Final(news[Bootstrap][m]), m)'
      BY <1>4, <3>1 DEF Says
    <3>. QED
      BY <1>4, <2>1, <2>2, <3>2 DEF Informed
  <2>3. CASE news[Bootstrap][m] = <<>> /\ h.do = "remove"
    <3>1. state[m] = "up" /\ h.addr = addr[m]
      BY <1>m, <2>1, <2>3 DEF Informed, Answered, Replacing
    <3>2. r \in Rejoining(m, h.addr, ConflictsIn(voters, m, h.addr))
      <4>1. Resumable(h, voters, tenants)
        BY DEF Typed, AreHandlers
      <4>. QED
        BY <1>2, <1>m, <2>3, <4>1 DEF Resumable
    <3>3. Answered(r.call, r.voters, m)
      BY <1>1, <1>3, <1>5, <3>1, <3>2, RejoiningAnswers
    <3>4. Answered(handler'[Bootstrap], voters', m)
      BY <1>2, <1>3, <3>3
    <3>5. Answered(handler[Bootstrap], voters, m)'
      BY <1>4, <3>4 DEF Answered, Due, Alone, Replacing
    <3>. QED
      BY <1>4, <2>3, <3>5 DEF Informed
  <2>4. CASE news[Bootstrap][m] = <<>> /\ h.do # "remove"
    <3>1. r.call.do # "remove" /\ voters' = voters
      BY <1>2, <2>4, HandlerKinds DEF NoCall
    <3>. QED
      BY <1>3, <1>4, <2>1, <2>4, <3>1 DEF Informed, Answered, Replacing, Due, Alone
  <2>. QED
    BY <2>2, <2>3, <2>4
<1>6. GoodCall(r, Bootstrap, m, voters, tenants) /\ h.member = m
  BY <1>2, <1>m
<1>. QED
  BY <1>2, <1>3, <1>4, <1>5, <1>6, MovesInformed

\* A step of another server's handler is of no concern to the leader.
LEMMA OthersQuiet ==
    ASSUME Typed, leader = Bootstrap, NEW s \in Servers, s # Bootstrap, HandlerStep(s)
    PROVE  /\ UNCHANGED <<state, addr, voters, tenants>>
           /\ news'[Bootstrap] = news[Bootstrap]
           /\ handler'[Bootstrap] = handler[Bootstrap]
<1> USE MembershipAssumption DEF MembershipAssumption
<1>0. handler \in [Servers -> Handlers] /\ news \in [Servers -> [Servers -> Seq(Event)]]
  BY DEF Typed, AreHandlers, IsNews
<1>1. ASSUME NEW m \in Servers, NEW r, Handle(s, m, r)
      PROVE  /\ UNCHANGED <<state, addr, voters, tenants>>
             /\ news'[Bootstrap] = news[Bootstrap]
             /\ handler'[Bootstrap] = handler[Bootstrap]
  BY <1>0, <1>1 DEF Handle
<1>2. ~Committed(s) /\ ~RemovesItself(s)
  BY DEF Committed, RemovesItself
<1>3. CASE HandleOwnLeave(s)
  BY <1>0, <1>3 DEF HandleOwnLeave
<1>4. CASE CallFailed(s)
  BY <1>0, <1>4 DEF CallFailed
<1>. QED
  BY <1>1, <1>2, <1>3, <1>4 DEF HandlerStep, HandleJoin, HandleLeave

\* In the first term the bootstrapped server leads until it does no more.
LEMMA LedBefore == Typed /\ [Next]_vars /\ FirstLeader' => FirstLeader
<1> SUFFICES ASSUME Typed, [Next]_vars, FirstLeader' PROVE FirstLeader
  OBVIOUS
<1> USE MembershipAssumption DEF MembershipAssumption
<1>0. /\ Bootstrap \in Servers /\ Bootstrap # Nobody /\ leader' = Bootstrap /\ term' = 1
      /\ state'[Bootstrap] = "up"
      /\ state \in [Servers -> {"down", "up", "leaving"}] /\ term \in 1 .. MaxTerms
  BY DEF FirstLeader, Typed, Lives, Counted
<1>1. ASSUME NEW s \in Servers, Elect(s) PROVE FALSE
  BY <1>0, <1>1 DEF Elect
<1>2. CASE StepDown
  BY <1>0, <1>2 DEF StepDown
<1>3. ASSUME NEW m \in Servers, NEW a \in Addresses, Start(m, a) PROVE FirstLeader
  <2>1. m # Bootstrap
    BY <1>0, <1>3 DEF Start, Typed, Leads
  <2>. QED
    BY <1>0, <1>3, <2>1 DEF Start, FirstLeader
<1>4. ASSUME NEW m \in Servers, Fail(m) \/ Stop(m) PROVE FirstLeader
  <2>1. Ended(m) /\ term' = term
    BY <1>4 DEF Fail, Stop
  <2>2. leader = Bootstrap /\ m # Bootstrap
    BY <1>0, <2>1 DEF Ended
  <2>. QED
    BY <1>0, <2>1, <2>2 DEF Ended, FirstLeader
<1>5. ASSUME NEW m \in Servers, Leave(m) PROVE FirstLeader
  <2>1. m # Bootstrap
    BY <1>0, <1>5 DEF Leave
  <2>. QED
    BY <1>0, <1>5, <2>1 DEF Leave, FirstLeader
<1>6. ASSUME UNCHANGED <<state, leader, term>> PROVE FirstLeader
  BY <1>6 DEF FirstLeader
<1>7. ASSUME NEW s \in Servers, RemovesItself(s) PROVE FALSE
  BY <1>0, <1>7 DEF RemovesItself
<1>8. ASSUME NEW s \in Servers, HandlerStep(s) PROVE UNCHANGED <<state, leader, term>>
  BY <1>7, <1>8 DEF HandlerStep, HandleJoin, HandleLeave, Handle, HandleOwnLeave,
                    Committed, CallFailed
<1>. QED
  BY <1>1, <1>2, <1>3, <1>4, <1>5, <1>6, <1>8 DEF Next, vars

\* What the leader is told of one that starts, crashes, leaves or stops.
LEMMA SerfInformed ==
    ASSUME Typed, FirstLeader, Known, FirstLeader', NEW m \in Servers,
           (\E a \in Addresses : Start(m, a)) \/ Fail(m) \/ Leave(m) \/ Stop(m)
    PROVE  Known'
<1> USE MembershipAssumption DEF MembershipAssumption
<1>0. /\ Bootstrap \in Servers /\ Bootstrap # Nobody
      /\ leader' = Bootstrap /\ state[Bootstrap] = "up" /\ state'[Bootstrap] = "up"
      /\ state \in [Servers -> {"down", "up", "leaving"}] /\ addr \in [Servers -> Addresses]
      /\ tenants \in [Addresses -> SUBSET Servers] /\ handler \in [Servers -> Handlers]
      /\ news \in [Servers -> [Servers -> Seq(Event)]]
  BY DEF FirstLeader, Typed, Lives, AreHandlers, IsNews
<1>1. ASSUME NEW a \in Addresses, Start(m, a) PROVE Known'
  <2> DEFINE e == [kind |-> "join", addr |-> a]
  <2>1. e \in Event /\ m # Bootstrap
    BY <1>0, <1>1 DEF Event, Start
  <2>2. Says(e, m)'
    BY <1>0, <1>1 DEF Start, Says
  <2>3. \A v \in Servers \ {m} : state'[v] = state[v] /\ addr'[v] = addr[v]
    BY <1>0, <1>1 DEF Start
  <2>4. news'[Bootstrap] = Told(m, e)[Bootstrap]
    BY <1>0, <1>1, <2>1 DEF Start, Told
  <2>5. voters' = voters /\ handler'[Bootstrap] = handler[Bootstrap] /\ Grows(tenants, tenants')
    BY <1>0, <1>1, <2>1 DEF Start, Grows
  <2> HIDE DEF e
  <2>. QED
    BY <1>0, <2>1, <2>2, <2>3, <2>4, <2>5, ToldInformed
<1>2. ASSUME Fail(m) PROVE Known'
  <2> DEFINE e == [kind |-> "failed"]
  <2>1. e \in Event /\ m # Bootstrap
    BY <1>0, <1>2 DEF Event, Fail, Ended
  <2>2. Says(e, m)'
    BY <1>0, <1>2 DEF Fail, Ended, Says
  <2>3. \A v \in Servers \ {m} : state'[v] = state[v] /\ addr'[v] = addr[v]
    BY <1>0, <1>2 DEF Fail, Ended
  <2>4. news'[Bootstrap] = Told(m, e)[Bootstrap]
    BY <1>0, <1>2, <2>1 DEF Fail, Told
  <2>5. voters' = voters /\ handler'[Bootstrap] = handler[Bootstrap] /\ Grows(tenants, tenants')
    BY <1>0, <1>2, <2>1 DEF Fail, Ended, Grows
  <2> HIDE DEF e
  <2>. QED
    BY <1>0, <2>1, <2>2, <2>3, <2>4, <2>5, ToldInformed
<1>3. ASSUME Leave(m) PROVE Known'
  <2> DEFINE e == [kind |-> "leave"]
  <2>1. e \in Event /\ m # Bootstrap
    BY <1>0, <1>3 DEF Event, Leave
  <2>2. Says(e, m)'
    BY <1>0, <1>3 DEF Leave, Says
  <2>3. \A v \in Servers \ {m} : state'[v] = state[v] /\ addr'[v] = addr[v]
    BY <1>0, <1>3 DEF Leave
  <2>4. news'[Bootstrap] = Told(m, e)[Bootstrap]
    BY <1>0, <1>3, <2>1 DEF Leave, Told
  <2>5. voters' = voters /\ handler'[Bootstrap] = handler[Bootstrap] /\ Grows(tenants, tenants')
    BY <1>3 DEF Leave, Grows
  <2> HIDE DEF e
  <2>. QED
    BY <1>0, <2>1, <2>2, <2>3, <2>4, <2>5, ToldInformed
<1>4. ASSUME Stop(m) PROVE Known'
  <2>1. m # Bootstrap /\ state[m] = "leaving" /\ state'[m] = "down"
    BY <1>0, <1>4 DEF Stop, Ended
  <2>2. /\ \A v \in Servers \ {m} : state'[v] = state[v]
        /\ UNCHANGED <<addr, voters, tenants>> /\ Grows(tenants, tenants')
        /\ news'[Bootstrap] = news[Bootstrap]
        /\ handler'[Bootstrap] = handler[Bootstrap]
    BY <1>0, <1>4, <2>1 DEF Stop, Ended, Grows
  <2>3. Informed(m)'
    <3>1. Informed(m)
      BY <2>1 DEF Known
    <3>2. Final(news[Bootstrap][m])' = Final(news[Bootstrap][m])
      BY <2>2 DEF Final
    <3>3. Says(Final(news[Bootstrap][m]), m) => Says(Final(news[Bootstrap][m]), m)'
      BY <2>1, <3>2 DEF Says
    <3>. QED
      BY <2>1, <2>2, <3>1, <3>3 DEF Informed, Answered, Due, Replacing
  <2>4. ASSUME NEW v \in Servers \ {Bootstrap}, v # m PROVE Informed(v)'
    <3>1. Informed(v) /\ Same(v)
      BY <2>2, <2>4 DEF Known, Same
    <3>. QED
      BY <2>2, <3>1, QuietInformed
  <2>. QED
    BY <2>3, <2>4 DEF Known
<1>. QED
  BY <1>1, <1>2, <1>3, <1>4

\* What the leader's own handler does.
LEMMA HandlerInformed ==
    ASSUME Typed, FirstLeader, Known, FirstLeader', HandlerStep(Bootstrap)
    PROVE  Known'
<1> USE MembershipAssumption DEF MembershipAssumption
<1>0. /\ Bootstrap \in Servers /\ Bootstrap # Nobody
      /\ leader = Bootstrap /\ leader' = Bootstrap /\ state[Bootstrap] = "up"
  BY DEF FirstLeader
<1>1. ASSUME NEW m \in Servers, HandleJoin(Bootstrap, m) PROVE Known'
  <2> DEFINE a == Head(news[Bootstrap][m]).addr
  <2>1. PICK r \in JoinCall(m, a) :
            Handle(Bootstrap, m, r) /\ GoodCall(r, Bootstrap, m, voters, tenants)
    BY <1>0, <1>1, JoinHandled
  <2>2. m # Bootstrap /\ news[Bootstrap][m] # <<>>
    BY <1>1 DEF HandleJoin
  <2>3. Bootstrap \in DOMAIN voters
    BY <1>0, <2>1, WaitingLeader DEF Handle
  <2>4. ASSUME Says(Head(news[Bootstrap][m]), m) PROVE Answered(r.call, r.voters, m)
    <3>1. state[m] = "up" /\ a = addr[m]
      BY <1>1, <2>4 DEF HandleJoin, Says
    <3> HIDE DEF a
    <3>. QED
      BY <2>1, <2>2, <2>3, <3>1, JoinAnswers
  <2>. QED
    BY <1>0, <2>1, <2>2, <2>4, HandledInformed
<1>2. ASSUME NEW m \in Servers, HandleLeave(Bootstrap, m) PROVE Known'
  <2>1. /\ m # Bootstrap /\ news[Bootstrap][m] # <<>> /\ Handle(Bootstrap, m, Dropping(m))
        /\ GoodCall(Dropping(m), Bootstrap, m, voters, tenants)
    BY <1>0, <1>2, LeaveHandled
  <2>2. Bootstrap \in DOMAIN voters
    BY <1>0, <2>1, WaitingLeader DEF Handle
  <2>3. Says(Head(news[Bootstrap][m]), m) => state[m] # "up"
    BY <1>2 DEF HandleLeave, Says
  <2>4. state[m] # "up" => Answered(Dropping(m).call, Dropping(m).voters, m)
    BY <2>1, <2>2, DroppingAnswers
  <2>. QED
    BY <1>0, <2>1, <2>3, <2>4, HandledInformed
<1>3. ASSUME HandleOwnLeave(Bootstrap) PROVE FALSE
  BY <1>0, <1>3 DEF HandleOwnLeave, Typed, Lives
<1>4. ASSUME RemovesItself(Bootstrap) PROVE FALSE
  BY <1>0, <1>4 DEF RemovesItself
<1>5. ASSUME CallFailed(Bootstrap) PROVE Known'
  <2> DEFINE r == NoCall
  <2>1. /\ handler[Bootstrap] = Refused /\ handler' = [handler EXCEPT ![Bootstrap] = Idle]
        /\ UNCHANGED <<state, addr, news, voters, tenants>>
    BY <1>5 DEF CallFailed
  <2>2. /\ r.call = Idle /\ r.voters = voters
        /\ GoodCall(r, Bootstrap, Bootstrap, voters, tenants)
    <3>1. Bootstrap \in DOMAIN voters /\ IsConfiguration(voters, tenants)
      BY <1>0, <2>1, WaitingLeader
    <3>. QED
      BY <3>1, NoCallGood DEF NoCall
  <2>3. handler'[Bootstrap] = Idle
    BY <1>0, <2>1 DEF Typed, AreHandlers
  <2>4. handler[Bootstrap].do # "remove"
    BY <2>1, HandlerKinds
  <2> HIDE DEF r
  <2>. QED
    BY <2>1, <2>2, <2>3, <2>4, MovesInformed
<1>. QED
  BY <1>1, <1>2, <1>3, <1>4, <1>5, CommittedInformed DEF HandlerStep

\* One step per action.
LEMMA StepAllInformed == MInv /\ [Next]_vars => AllInformed'
<1> SUFFICES ASSUME MInv, [Next]_vars, FirstLeader' PROVE Known'
  BY DEF AllInformed, Known
<1> USE MembershipAssumption DEF MembershipAssumption
<1>1. Typed /\ FirstLeader /\ Known
  BY LedBefore DEF MInv, AllInformed, Known
<1>2. /\ Bootstrap # Nobody /\ leader = Bootstrap /\ leader' = Bootstrap
  BY <1>1 DEF FirstLeader
<1>3. ASSUME NEW s \in Servers, Elect(s) PROVE FALSE
  BY <1>2, <1>3 DEF Elect
<1>4. ~StepDown
  BY <1>2 DEF StepDown
<1>5. ASSUME UNCHANGED <<state, addr, voters, tenants>>, news'[Bootstrap] = news[Bootstrap],
             handler'[Bootstrap] = handler[Bootstrap]
      PROVE  Known'
  <2>1. ASSUME NEW v \in Servers \ {Bootstrap} PROVE Informed(v)'
    <3>1. Informed(v) /\ Same(v) /\ Grows(tenants, tenants')
      BY <1>1, <1>5 DEF Known, Same, Grows
    <3>. QED
      BY <1>1, <1>5, <3>1, QuietInformed
  <2>. QED
    BY <2>1 DEF Known
<1>6. ASSUME NEW s \in Servers, HandlerStep(s) PROVE Known'
  <2>1. CASE s = Bootstrap
    BY <1>1, <1>6, <2>1, HandlerInformed
  <2>2. CASE s # Bootstrap
    BY <1>1, <1>2, <1>5, <1>6, <2>2, OthersQuiet
  <2>. QED
    BY <2>1, <2>2
<1>7. CASE UNCHANGED vars
  BY <1>5, <1>7 DEF vars
<1>. QED
  BY <1>1, <1>3, <1>4, <1>6, <1>7, SerfInformed DEF Next

\* A leader that is informed misses nothing.
LEMMA InformedMissesNothing == MInv => FirstLeaderMissesNothing
<1> SUFFICES ASSUME MInv, FirstLeader, NEW m \in Servers \ {Bootstrap}
             PROVE  \/ Settled(m) \/ Pending(Bootstrap, m)
                    \/ state[m] = "up" /\ ~Alone(m)
  BY DEF FirstLeaderMissesNothing
<1>1. Informed(m)
  BY DEF MInv, AllInformed
<1>2. CASE Replacing(handler[Bootstrap], m)
  BY <1>2 DEF Replacing, Pending, InCall
<1>3. CASE ~Replacing(handler[Bootstrap], m) /\ news[Bootstrap][m] = <<>>
  <2>1. /\ Due(voters, m) \/ (state[m] = "up" /\ ~Alone(m))
        /\ state[m] \in {"up", "down", "leaving"}
    BY <1>1, <1>3 DEF Informed, Answered, MInv, Typed, Lives
  <2>. QED
    BY <2>1 DEF Due, Settled
<1>. QED
  BY <1>2, <1>3 DEF Pending

\* FirstLeaderMissesNothing: as long as the bootstrapped server leads, whatever
\* order joins, departures, restarts and changes of address come in, the
\* configuration is out of date about a member only if the leader has still to
\* handle an event about it, or the member runs at an address that another one was
\* started at too (membership.go eventHandler, distributed.go Join).
THEOREM MissesNothing == Spec => []FirstLeaderMissesNothing
<1>1. Init => MInv
  BY InitMInv
<1>2. MInv /\ [Next]_vars => MInv'
  BY StepTyped, StepAllInformed DEF MInv
<1>3. MInv => FirstLeaderMissesNothing
  BY InformedMissesNothing
<1>. QED
  BY <1>1, <1>2, <1>3, PTL DEF Spec
=============================================================================
