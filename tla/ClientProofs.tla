---------------------------- MODULE ClientProofs ----------------------------
(***************************************************************************)
(* Theorems about the two modules that clients talk through: LoadBalance,  *)
(* for all finite sets of servers and clients, all sizes of the counter    *)
(* and all bounds; and HttpServer, for every set of connections, values    *)
(* and offsets and every bound on the log.                                 *)
(***************************************************************************)
EXTENDS LoadBalance, HttpServer, FiniteSetTheorems, SequenceTheorems, TLAPS

-----------------------------------------------------------------------------
(* Lemmas on numbers and sequences.                                         *)

\* A remainder lies below its divisor.
LEMMA ModRange ==
    ASSUME NEW a \in Nat, NEW n \in Nat \ {0}
    PROVE  a % n \in 0 .. n - 1
OBVIOUS

\* A multiple by one or more is not smaller.
LEMMA Grow ==
    ASSUME NEW n \in Nat, NEW k \in Int, k >= 1
    PROVE  n * k >= n
OBVIOUS

\* A multiple by zero or less is not positive.
LEMMA Shrink ==
    ASSUME NEW n \in Nat, NEW k \in Int, k <= 0
    PROVE  n * k <= 0
OBVIOUS

\* Of n numbers in a row no two are the same modulo n.
LEMMA ModDistinct ==
    ASSUME NEW x \in Nat, NEW y \in Nat, NEW n \in Nat \ {0}, x < y, y - x < n
    PROVE  x % n # y % n
<1> SUFFICES ASSUME x % n = y % n PROVE FALSE
  OBVIOUS
<1>1. x = n * (x \div n) + (x % n) /\ y = n * (y \div n) + (y % n)
  OBVIOUS
<1>2. x \div n \in Int /\ y \div n \in Int /\ x % n \in Int
  OBVIOUS
<1> DEFINE k == (y \div n) - (x \div n)
<1>3. k \in Int /\ y - x = n * k
  BY <1>1, <1>2
<1> HIDE DEF k
<1>4. CASE k >= 1
  BY <1>3, <1>4, Grow
<1>5. CASE k <= 0
  BY <1>3, <1>5, Shrink
<1>. QED
  BY <1>3, <1>4, <1>5

\* The sequences of SetToSeqs(S) hold each element of S once.
LEMMA EnumerationsOf ==
    ASSUME NEW S, IsFiniteSet(S), NEW f \in SetToSeqs(S)
    PROVE  f \in Seq(S) /\ IsInjective(f) /\ Range(f) = S
<1> DEFINE n == Cardinality(S)
<1>1. n \in Nat
  BY FS_CardinalityType
<1>2. f \in [1 .. n -> S] /\ \A i, j \in 1 .. n : i # j => f[i] # f[j]
  BY DEF SetToSeqs
<1>3. IsInjective(f) /\ f \in Injection(1 .. n, S)
  BY <1>2 DEF IsInjective, Injection
<1>4. Cardinality(1 .. n) = n
  BY <1>1, FS_Interval
<1>5. f \in Surjection(1 .. n, S)
  BY <1>3, <1>4, FS_Injection
<1>6. Range(f) = S
  BY <1>2, <1>5 DEF Surjection, Range
<1>7. f \in Seq(S)
  BY <1>1, <1>2, SeqDef
<1>. QED
  BY <1>3, <1>6, <1>7

-----------------------------------------------------------------------------
(* The Picker.                                                              *)

Pickers ==
    [leader : Flagged(SubConn) \cup {None},
     followers : {f \in Seq(SubConn \ Flagged(SubConn)) : IsInjective(f)},
     current : 0 .. CounterSize - 1]

\* The Picker q sends calls to the connections scs, and no others.
BuiltFrom(q, scs) ==
    /\ Range(q.followers) = scs \ Flagged(scs)
    /\ Flagged(scs) # {} => q.leader \in Flagged(scs)

\* Every set of connections is finite.
LEMMA SubConnsFinite ==
    ASSUME NEW scs \in SUBSET SubConn
    PROVE  IsFiniteSet(scs)
<1> USE LoadBalanceAssumption DEF LoadBalanceAssumption
<1>1. IsFiniteSet(BOOLEAN)
  <2>1. BOOLEAN = {TRUE, FALSE}
    OBVIOUS
  <2>2. IsFiniteSet({TRUE}) /\ IsFiniteSet({FALSE})
    BY FS_Singleton
  <2>3. IsFiniteSet({TRUE} \cup {FALSE})
    BY <2>2, FS_Union
  <2>. QED
    BY <2>1, <2>3
<1>2. IsFiniteSet(Clients \X (Servers \X BOOLEAN))
  BY <1>1, FS_Product
<1> DEFINE T == Clients \X (Servers \X BOOLEAN)
           f == [t \in T |-> [client |-> t[1], server |-> t[2][1], leader |-> t[2][2]]]
<1>3. f \in Surjection(T, SubConn)
  <2>1. f \in [T -> SubConn]
    BY DEF SubConn
  <2>2. ASSUME NEW sc \in SubConn PROVE \E t \in T : f[t] = sc
    <3>1. <<sc.client, <<sc.server, sc.leader>>>> \in T
      BY DEF SubConn
    <3>2. f[<<sc.client, <<sc.server, sc.leader>>>>] = sc
      BY <3>1 DEF SubConn
    <3>. QED
      BY <3>1, <3>2
  <2>. QED
    BY <2>1, <2>2 DEF Surjection
<1> HIDE DEF T, f
<1>4. IsFiniteSet(SubConn)
  BY <1>2, <1>3, FS_Surjection DEF T
<1>. QED
  BY <1>4, FS_Subset

\* What Build makes of the ready connections (picker.go Build).
LEMMA BuildEffect ==
    ASSUME NEW p \in Pickers, NEW scs \in SUBSET SubConn, NEW q \in Built(p, scs)
    PROVE  q \in Pickers /\ BuiltFrom(q, scs) /\ q.current = p.current
<1> DEFINE l == q.leader
           f == q.followers
<1>1. l \in NewLeader(p, scs) /\ f \in SetToSeqs(scs \ Flagged(scs))
  BY DEF Built
<1>2. q = [leader |-> l, followers |-> f, current |-> p.current]
  BY DEF Built
<1> HIDE DEF l, f
<1>3. IsFiniteSet(scs \ Flagged(scs))
  BY SubConnsFinite
<1>4. f \in Seq(scs \ Flagged(scs)) /\ IsInjective(f) /\ Range(f) = scs \ Flagged(scs)
  BY <1>1, <1>3, EnumerationsOf
<1>5. scs \ Flagged(scs) \subseteq SubConn \ Flagged(SubConn)
  BY DEF Flagged
<1>6. f \in Seq(SubConn \ Flagged(SubConn))
  <2>1. DOMAIN f = 1 .. Len(f) /\ Len(f) \in Nat
    BY <1>4
  <2>2. \A i \in 1 .. Len(f) : f[i] \in SubConn \ Flagged(SubConn)
    BY <1>4, <1>5
  <2>. QED
    BY <1>4, <1>5, <2>1, <2>2
<1>7. l \in Flagged(SubConn) \cup {None} /\ (Flagged(scs) # {} => l \in Flagged(scs))
  BY <1>1 DEF NewLeader, Pickers, Flagged
<1>. QED
  BY <1>2, <1>4, <1>6, <1>7 DEF Pickers, BuiltFrom

-----------------------------------------------------------------------------
(* Types.                                                                   *)

\* A call of GetServers: what it has answered so far for some of the servers.
IsCall(k) ==
    /\ k = [busy |-> k.busy, began |-> k.began, answer |-> k.answer]
    /\ k.busy \in BOOLEAN /\ k.began \in 0 .. elections
    /\ DOMAIN k.answer \subseteq Servers
    /\ \A s \in DOMAIN k.answer : k.answer[s] \in BOOLEAN

\* Every client has at most one connection to each server.
OneEach(scs) ==
    \A a, b \in scs : a.client = b.client /\ a.server = b.server => a = b

\* TypeOK with the parts of the state it leaves out, and what a client that is
\* closed or not yet open does not have.
Typed ==
    /\ leader \in Servers \cup {None}
    /\ status \in [Clients -> {"new", "open", "closed"}]
    /\ resolver \in [clientConn : Clients \cup {None}, open : BOOLEAN]
    /\ resolver.open \/ call.busy => resolver.clientConn \in Clients
    /\ IsCall(call)
    /\ ready \subseteq conns /\ conns \subseteq SubConn /\ OneEach(conns)
    /\ serving \in [Clients -> BOOLEAN]
    /\ \A c \in Clients : status[c] = "closed" => Of(c, conns) = {} /\ ~serving[c]
    /\ picker \in Pickers
    /\ elections \in 0 .. MaxElections /\ resolutions \in 0 .. MaxResolutions
    /\ builder \in Clients \cup {None}
    /\ resolvedAt \in [Clients -> -1 .. MaxElections]
    /\ \A c \in Clients : resolvedAt[c] <= elections
    /\ turns \in Seq(SubConn)

\* The types used below are those that TypeOK asks for.
LEMMA TypedMeans == Typed => TypeOK
BY DEF Typed, TypeOK, Pickers, OneEach

\* A reaction of gRPC keeps the types of what it changes.
LEMMA RebuildTyped ==
    ASSUME picker \in Pickers, serving \in [Clients -> BOOLEAN], turns \in Seq(SubConn),
           builder \in Clients \cup {None},
           NEW c \in Clients, NEW scs \in SUBSET SubConn, Rebuild(c, scs)
    PROVE  /\ picker' \in Pickers /\ serving' \in [Clients -> BOOLEAN]
           /\ turns' \in Seq(SubConn) /\ builder' \in Clients \cup {None}
           /\ \A b \in Clients \ {c} : serving'[b] = serving[b]
<1>1. <<>> \in Seq(SubConn)
  BY EmptySeq
<1>. QED
  BY <1>1, BuildEffect DEF Rebuild

\* A connection of client c becomes ready or ceases to be.
LEMMA ReactionTyped ==
    ASSUME Typed, NEW c \in Clients, status[c] # "closed",
           ready' \in SUBSET conns, Rebuild(c, Of(c, ready')),
           UNCHANGED <<leader, status, resolver, call, conns, elections, resolutions,
                       resolvedAt>>
    PROVE  Typed'
<1>1. Of(c, ready') \in SUBSET SubConn
  BY DEF Typed, Of
<1>2. /\ picker' \in Pickers /\ serving' \in [Clients -> BOOLEAN]
      /\ turns' \in Seq(SubConn) /\ builder' \in Clients \cup {None}
      /\ \A b \in Clients \ {c} : serving'[b] = serving[b]
  BY <1>1, RebuildTyped DEF Typed
<1>3. IsCall(call)'
  BY DEF Typed, IsCall
<1>4. \A b \in Clients : status'[b] = "closed" => Of(b, conns') = {} /\ ~serving'[b]
  BY <1>2 DEF Typed
<1>5. OneEach(conns')
  BY DEF Typed, OneEach
<1>. QED
  BY <1>2, <1>3, <1>4, <1>5 DEF Typed, Pickers, SubConn

\* The types hold at first.
LEMMA InitTyped == Init => Typed
<1> SUFFICES ASSUME Init PROVE Typed
  OBVIOUS
<1> USE LoadBalanceAssumption DEF LoadBalanceAssumption
<1>1. picker \in Pickers
  <2>1. <<>> \in Seq(SubConn \ Flagged(SubConn)) /\ IsInjective(<<>>)
    BY EmptySeq DEF IsInjective
  <2>. QED
    BY <2>1 DEF Init, Pickers
<1>2. turns \in Seq(SubConn)
  BY EmptySeq DEF Init
<1>3. IsCall(call)
  BY DEF Init, NoCall, IsCall
<1>4. ready \subseteq conns /\ conns \subseteq SubConn /\ OneEach(conns)
  BY DEF Init, OneEach
<1>5. resolver \in [clientConn : Clients \cup {None}, open : BOOLEAN]
      /\ ~resolver.open /\ ~call.busy
  BY DEF Init, NoCall
<1>. QED
  BY <1>1, <1>2, <1>3, <1>4, <1>5 DEF Init, Typed

\* One turn of the loop in GetServers adds one server to the answer
\* (distributed.go).
LEMMA AnswerType ==
    ASSUME Typed, NEW s \in Servers, GetServer(s)
    PROVE  IsCall(call') /\ DOMAIN call'.answer = DOMAIN call.answer \cup {s}
           /\ call'.busy = call.busy /\ call'.began = call.began
           /\ call'.answer[s] = (leader = s)
           /\ \A v \in DOMAIN call.answer : call'.answer[v] = call.answer[v]
<1> DEFINE a == [v \in DOMAIN call.answer \cup {s} |->
                     IF v = s THEN leader = s ELSE call.answer[v]]
<1>1. call' = [busy |-> call.busy, began |-> call.began, answer |-> a]
  BY DEF GetServer, Typed, IsCall
<1>2. /\ DOMAIN a = DOMAIN call.answer \cup {s}
      /\ a[s] = (leader = s)
      /\ \A v \in DOMAIN call.answer : v # s => a[v] = call.answer[v]
  OBVIOUS
<1>3. s \notin DOMAIN call.answer
  BY DEF GetServer
<1> HIDE DEF a
<1>. QED
  BY <1>1, <1>2, <1>3 DEF Typed, IsCall

\* The list that UpdateState hands over, and those of it that are ready already.
Listed(c) == {[client |-> c, server |-> s, leader |-> call.answer[s]] : s \in Servers}

\* The addresses in an answer make a set of connections.
LEMMA ListedType ==
    ASSUME Typed, call.busy, DOMAIN call.answer = Servers, NEW c \in Clients
    PROVE  /\ Listed(c) \subseteq SubConn
           /\ OneEach((conns \ Of(c, conns)) \cup Listed(c))
           /\ Of(c, (conns \ Of(c, conns)) \cup Listed(c)) = Listed(c)
           /\ Of(c, (ready \ Of(c, ready)) \cup (Listed(c) \cap ready)) = Listed(c) \cap ready
           /\ \A b \in Clients \ {c} :
                 /\ Of(b, (conns \ Of(c, conns)) \cup Listed(c)) = Of(b, conns)
                 /\ Of(b, (ready \ Of(c, ready)) \cup (Listed(c) \cap ready)) = Of(b, ready)
<1>1. Listed(c) \subseteq SubConn
  BY DEF Typed, IsCall, Listed, SubConn
<1>2. \A sc \in Listed(c) : sc.client = c
  BY DEF Listed
<1>3. OneEach(Listed(c))
  BY DEF OneEach, Listed
<1>4. \A sc \in conns \ Of(c, conns) : sc.client # c
  BY DEF Of
<1>5. OneEach(conns)
  BY DEF Typed
<1>6. OneEach((conns \ Of(c, conns)) \cup Listed(c))
  BY <1>2, <1>3, <1>4, <1>5 DEF OneEach
<1> HIDE DEF Listed
<1>. QED
  BY <1>1, <1>2, <1>6 DEF Of

\* What UpdateState does, in the terms of Listed.
LEMMA UpdateEffect ==
    ASSUME UpdateState
    PROVE  /\ call.busy /\ DOMAIN call.answer = Servers /\ call' = NoCall
           /\ UNCHANGED <<leader, status, resolver, elections, resolutions>>
           /\ status[resolver.clientConn] = "closed" =>
                 UNCHANGED <<conns, ready, serving, picker, builder, resolvedAt, turns>>
           /\ status[resolver.clientConn] # "closed" =>
                 LET c == resolver.clientConn
                 IN  /\ conns' = (conns \ Of(c, conns)) \cup Listed(c)
                     /\ ready' = (ready \ Of(c, ready)) \cup (Listed(c) \cap ready)
                     /\ resolvedAt' = [resolvedAt EXCEPT ![c] = call.began]
                     /\ Rebuild(c, Listed(c) \cap ready)
BY DEF UpdateState, Listed

\* UpdateState of the Resolver keeps the types.
LEMMA UpdateTyped == Typed /\ UpdateState => Typed'
<1> SUFFICES ASSUME Typed, UpdateState PROVE Typed'
  OBVIOUS
<1> DEFINE c == resolver.clientConn
<1>1. c \in Clients /\ call.busy /\ DOMAIN call.answer = Servers
  BY UpdateEffect DEF Typed
<1>2. IsCall(call)' /\ ~call'.busy
  <2>1. call' = NoCall /\ elections' = elections
    BY UpdateEffect
  <2>. QED
    BY <2>1 DEF Typed, IsCall, NoCall
<1>3. CASE status[c] = "closed"
  <2>1. UNCHANGED <<leader, status, resolver, elections, resolutions,
                    conns, ready, serving, picker, builder, resolvedAt, turns>>
    BY <1>3, UpdateEffect
  <2>2. OneEach(conns')
    BY <2>1 DEF Typed
  <2>. QED
    BY <1>2, <2>1, <2>2 DEF Typed, Pickers, SubConn
<1>4. CASE status[c] # "closed"
  <2>1. /\ conns' = (conns \ Of(c, conns)) \cup Listed(c)
        /\ ready' = (ready \ Of(c, ready)) \cup (Listed(c) \cap ready)
        /\ resolvedAt' = [resolvedAt EXCEPT ![c] = call.began]
        /\ Rebuild(c, Listed(c) \cap ready)
        /\ UNCHANGED <<leader, status, resolver, elections, resolutions>>
    BY <1>4, UpdateEffect
  <2> HIDE DEF c
  <2>2. /\ conns' \subseteq SubConn /\ OneEach(conns') /\ ready' \subseteq conns'
        /\ \A b \in Clients \ {c} : Of(b, conns') = Of(b, conns)
        /\ Listed(c) \cap ready \in SUBSET SubConn
    <3>1. Listed(c) \subseteq SubConn
      BY <1>1, ListedType
    <3>2. ready' \subseteq conns'
      BY <2>1 DEF Typed, Of
    <3>. QED
      BY <1>1, <2>1, <3>1, <3>2, ListedType DEF Typed
  <2>3. /\ picker' \in Pickers /\ serving' \in [Clients -> BOOLEAN]
        /\ turns' \in Seq(SubConn) /\ builder' \in Clients \cup {None}
        /\ \A b \in Clients \ {c} : serving'[b] = serving[b]
    BY <1>1, <2>1, <2>2, RebuildTyped DEF Typed
  <2>4. /\ resolvedAt' \in [Clients -> -1 .. MaxElections]
        /\ \A b \in Clients : resolvedAt'[b] <= elections'
    BY <1>1, <2>1, LoadBalanceAssumption DEF LoadBalanceAssumption, Typed, IsCall
  <2>5. \A b \in Clients : status'[b] = "closed" => Of(b, conns') = {} /\ ~serving'[b]
    BY <1>4, <2>1, <2>2, <2>3 DEF Typed, c
  <2>. QED
    BY <1>2, <2>1, <2>2, <2>3, <2>4, <2>5 DEF Typed, Pickers, SubConn
<1>. QED
  BY <1>3, <1>4

\* The pick of a counter value is a follower.
LEMMA PickedType ==
    ASSUME Typed, picker.followers # <<>>, NEW n \in Nat
    PROVE  /\ Len(picker.followers) \in Nat \ {0}
           /\ 1 + (n % Len(picker.followers)) \in DOMAIN picker.followers
           /\ NextFollower(picker, n) \in SubConn
<1>1. picker.followers \in Seq(SubConn \ Flagged(SubConn))
  BY DEF Typed, Pickers
<1>2. Len(picker.followers) \in Nat \ {0} /\ DOMAIN picker.followers = 1 .. Len(picker.followers)
  BY <1>1, EmptySeq
<1> DEFINE L == Len(picker.followers)
           r == n % L
<1>3. r \in 0 .. L - 1
  BY <1>2, ModRange
<1> HIDE DEF r
<1>4. 1 + r \in 1 .. L
  BY <1>2, <1>3
<1>5. picker.followers[1 + r] \in SubConn
  BY <1>1, <1>2, <1>4
<1>. QED
  BY <1>2, <1>4, <1>5 DEF NextFollower, r

\* What PickFollower does.
Counted == (picker.current + 1) % CounterSize

Known == IF Counted = 0 THEN <<>> ELSE turns

\* What Pick does to the picks made since Build (picker.go Pick).
LEMMA PickEffect ==
    ASSUME Typed, NEW c \in Clients, PickFollower(c)
    PROVE  /\ Counted \in 0 .. CounterSize - 1
           /\ Counted = picker.current + 1 \/ Counted = 0
           /\ picker' = [leader |-> picker.leader, followers |-> picker.followers,
                         current |-> Counted]
           /\ picker.followers # <<>>
           /\ turns' = IF Len(Known) = Len(picker.followers)
                       THEN Append(Tail(Known), NextFollower(picker, Counted))
                       ELSE Append(Known, NextFollower(picker, Counted))
           /\ UNCHANGED <<leader, status, resolver, call, conns, ready, serving,
                          elections, resolutions, builder, resolvedAt>>
<1> USE LoadBalanceAssumption DEF LoadBalanceAssumption
<1>1. picker.current \in 0 .. CounterSize - 1
  BY DEF Typed, Pickers
<1>2. Counted \in 0 .. CounterSize - 1
  BY <1>1, ModRange DEF Counted
<1>3. CASE picker.current + 1 < CounterSize
  <2>1. Counted = picker.current + 1
    BY <1>1, <1>3 DEF Counted
  <2>. QED
    BY <1>2, <2>1 DEF PickFollower, Counted, Known, Typed, Pickers
<1>4. CASE picker.current + 1 = CounterSize
  <2>1. Counted = 0
    BY <1>1, <1>4 DEF Counted
  <2>. QED
    BY <1>2, <2>1 DEF PickFollower, Counted, Known, Typed, Pickers
<1>. QED
  BY <1>1, <1>3, <1>4

\* Pick keeps the types.
LEMMA PickTyped ==
    ASSUME Typed, NEW c \in Clients, PickFollower(c)
    PROVE  Typed'
<1>1. picker' \in Pickers
  BY PickEffect DEF Typed, Pickers
<1>2. Known \in Seq(SubConn) /\ picker.followers # <<>>
  BY PickEffect, EmptySeq DEF Known, Typed
<1>3. NextFollower(picker, Counted) \in SubConn
  <2>1. Counted \in Nat
    BY PickEffect, LoadBalanceAssumption DEF LoadBalanceAssumption
  <2>. QED
    BY <1>2, <2>1, PickedType
<1>4. turns' \in Seq(SubConn)
  <2>1. CASE Known = <<>>
    <3>1. Len(Known) # Len(picker.followers)
      BY <1>2, <2>1, PickedType, EmptySeq
    <3>2. turns' = Append(Known, NextFollower(picker, Counted))
      BY <3>1, PickEffect
    <3>. QED
      BY <1>2, <1>3, <3>2
  <2>2. CASE Known # <<>>
    <3>1. Tail(Known) \in Seq(SubConn)
      BY <1>2, <2>2
    <3>2. /\ Append(Tail(Known), NextFollower(picker, Counted)) \in Seq(SubConn)
          /\ Append(Known, NextFollower(picker, Counted)) \in Seq(SubConn)
      BY <1>2, <1>3, <3>1, AppendProperties
    <3>. QED
      BY <3>2, PickEffect
  <2>. QED
    BY <2>1, <2>2
<1>5. UNCHANGED <<leader, status, resolver, call, conns, ready, serving,
                  elections, resolutions, builder, resolvedAt>>
  BY PickEffect
<1>6. IsCall(call)' /\ OneEach(conns')
  BY <1>5 DEF Typed, IsCall, OneEach
<1>. QED
  BY <1>1, <1>4, <1>5, <1>6 DEF Typed, SubConn, Of

\* One step per action.
LEMMA StepTyped == Typed /\ [Next]_vars => Typed'
<1> SUFFICES ASSUME Typed, [Next]_vars PROVE Typed'
  OBVIOUS
<1> USE LoadBalanceAssumption DEF LoadBalanceAssumption
<1>1. ASSUME NEW l \in Servers \cup {None}, Elect(l) PROVE Typed'
  <2>1. IsCall(call)' /\ OneEach(conns')
    BY <1>1 DEF Elect, Typed, IsCall, OneEach
  <2>. QED
    BY <1>1, <2>1 DEF Elect, Typed, Pickers, SubConn
<1>2. ASSUME NEW c \in Clients, Dial(c) PROVE Typed'
  <2>1. IsCall(call)' /\ OneEach(conns')
    BY <1>2 DEF Dial, Typed, IsCall, OneEach
  <2>. QED
    BY <1>2, <2>1 DEF Dial, Typed, Pickers, SubConn
<1>3. ASSUME NEW c \in Clients, Close(c) PROVE Typed'
  <2>1. IsCall(call)' /\ OneEach(conns')
    BY <1>3 DEF Close, Typed, IsCall, OneEach
  <2>2. /\ ready' \subseteq conns' /\ conns' \subseteq SubConn
        /\ \A b \in Clients : status'[b] = "closed" => Of(b, conns') = {} /\ ~serving'[b]
    BY <1>3 DEF Close, Typed, Of
  <2>3. resolver' \in [clientConn : Clients \cup {None}, open : BOOLEAN]
        /\ resolver'.clientConn = resolver.clientConn /\ ~resolver'.open
    BY <1>3 DEF Close, Typed
  <2>. QED
    BY <1>3, <2>1, <2>2, <2>3 DEF Close, Typed, Pickers, SubConn
<1>4. ASSUME NEW c \in Clients, PickFollower(c) PROVE Typed'
  BY <1>4, PickTyped
<1>5. CASE ResolveNow
  <2>1. IsCall(call)' /\ OneEach(conns')
    BY <1>5 DEF ResolveNow, Typed, IsCall, OneEach
  <2>. QED
    BY <1>5, <2>1 DEF ResolveNow, Typed, Pickers, SubConn
<1>6. CASE ResolveFails
  <2>1. IsCall(call)' /\ OneEach(conns') /\ ~call'.busy
    BY <1>6 DEF ResolveFails, Typed, IsCall, OneEach, NoCall
  <2>. QED
    BY <1>6, <2>1 DEF ResolveFails, Typed, Pickers, SubConn
<1>7. CASE UpdateState
  BY <1>7, UpdateTyped
<1>8. ASSUME NEW s \in Servers, GetServer(s) PROVE Typed'
  <2>1. IsCall(call)' /\ call'.busy = call.busy
    <3>1. IsCall(call') /\ call'.busy = call.busy
      BY <1>8, AnswerType
    <3>. QED
      BY <1>8, <3>1 DEF GetServer, IsCall
  <2>2. OneEach(conns')
    BY <1>8 DEF GetServer, Typed, OneEach
  <2>. QED
    BY <1>8, <2>1, <2>2 DEF GetServer, Typed, Pickers, SubConn
<1>9. ASSUME NEW sc \in SubConn, BecomeReady(sc) \/ Lose(sc) PROVE Typed'
  <2>1. sc \in conns /\ ready' \in SUBSET conns
    BY <1>9 DEF BecomeReady, Lose, Typed
  <2>2. sc.client \in Clients /\ status[sc.client] # "closed"
    BY <2>1 DEF Typed, SubConn, Of
  <2>. QED
    BY <1>9, <2>1, <2>2, ReactionTyped DEF BecomeReady, Lose
<1>10. CASE UNCHANGED vars
  <2>1. IsCall(call)' /\ OneEach(conns')
    BY <1>10 DEF vars, Typed, IsCall, OneEach
  <2>. QED
    BY <1>10, <2>1 DEF vars, Typed, Pickers, SubConn
<1>. QED
  BY <1>1, <1>2, <1>3, <1>4, <1>5, <1>6, <1>7, <1>8, <1>9, <1>10 DEF Next

\* TypeOK: above all, that the followers of the Picker are distinct and none of
\* them is a connection to a leader, through every Build, and that a client has one
\* connection to each server through every resolution (picker.go Build).
THEOREM TypeCorrect == Spec => []TypeOK
<1>1. Init => Typed
  BY InitTyped
<1>2. Typed /\ [Next]_vars => Typed'
  BY StepTyped
<1>3. Typed => TypeOK
  BY TypedMeans
<1>. QED
  BY <1>1, <1>2, <1>3, PTL DEF Spec

-----------------------------------------------------------------------------
(* LastBuilderServed: what a client that built last is served from.         *)

\* The Picker is made of the ready connections of the client that built last.
Served == \A c \in Clients : Serves(c) => BuiltFrom(picker, Of(c, ready))

\* A client's reaction to its own connections leaves nobody else served.
LEMMA RebuildServes ==
    ASSUME Served, picker \in Pickers, serving \in [Clients -> BOOLEAN],
           NEW c \in Clients, NEW scs \in SUBSET SubConn, Rebuild(c, scs),
           Of(c, ready') = scs,
           \A b \in Clients \ {c} : Of(b, ready') = Of(b, ready)
    PROVE  Served'
<1>1. CASE /\ picker' \in Built(picker, scs)
           /\ serving' = [serving EXCEPT ![c] = TRUE]
           /\ builder' = c
  <2>1. BuiltFrom(picker', scs)
    BY <1>1, BuildEffect
  <2>2. \A b \in Clients : Serves(b)' => b = c
    BY <1>1 DEF Serves
  <2>. QED
    BY <2>1, <2>2 DEF Served, BuiltFrom
<1>2. CASE /\ serving' = [serving EXCEPT ![c] = FALSE]
           /\ UNCHANGED <<picker, builder, turns>>
  <2>1. \A b \in Clients : Serves(b)' => b # c /\ Serves(b)
    BY <1>2 DEF Serves
  <2>. QED
    BY <1>2, <2>1 DEF Served, BuiltFrom
<1>. QED
  BY <1>1, <1>2 DEF Rebuild

\* Every step keeps the Picker in line with the connections of its last builder.
LEMMA StepServed == Typed /\ Served /\ [Next]_vars => Served'
<1> SUFFICES ASSUME Typed, Served, [Next]_vars PROVE Served'
  OBVIOUS
<1>1. ASSUME UNCHANGED <<ready, serving, builder>>,
             picker'.leader = picker.leader, picker'.followers = picker.followers
      PROVE  Served'
  BY <1>1 DEF Served, Serves, BuiltFrom
<1>2. ASSUME NEW c \in Clients, PickFollower(c) PROVE Served'
  BY <1>1, <1>2, PickEffect
<1>3. ASSUME NEW c \in Clients, Close(c) PROVE Served'
  <2>1. \A b \in Clients : Serves(b)' => b # c /\ Serves(b)
    BY <1>3 DEF Close, Serves, Typed
  <2>2. \A b \in Clients \ {c} : Of(b, ready') = Of(b, ready)
    BY <1>3 DEF Close, Of
  <2>3. picker' = picker
    BY <1>3 DEF Close
  <2>. QED
    BY <2>1, <2>2, <2>3 DEF Served, BuiltFrom
<1>4. CASE UpdateState
  <2> DEFINE c == resolver.clientConn
  <2>1. c \in Clients /\ call.busy /\ DOMAIN call.answer = Servers
    BY <1>4, UpdateEffect DEF Typed
  <2>2. CASE status[c] = "closed"
    <3>1. UNCHANGED <<ready, serving, picker, builder>>
      BY <1>4, <2>2, UpdateEffect
    <3>. QED
      BY <1>1, <3>1
  <2>3. CASE status[c] # "closed"
    <3>1. /\ ready' = (ready \ Of(c, ready)) \cup (Listed(c) \cap ready)
          /\ Rebuild(c, Listed(c) \cap ready)
      BY <1>4, <2>3, UpdateEffect
    <3> HIDE DEF c
    <3>2. /\ Listed(c) \cap ready \in SUBSET SubConn
          /\ Of(c, ready') = Listed(c) \cap ready
          /\ \A b \in Clients \ {c} : Of(b, ready') = Of(b, ready)
      <4>1. Listed(c) \subseteq SubConn
        BY <2>1, ListedType
      <4>. QED
        BY <2>1, <3>1, <4>1, ListedType
    <3>. QED
      BY <2>1, <3>1, <3>2, RebuildServes DEF Typed
  <2>. QED
    BY <2>2, <2>3
<1>5. ASSUME NEW sc \in SubConn, BecomeReady(sc) \/ Lose(sc) PROVE Served'
  <2>1. sc.client \in Clients /\ Of(sc.client, ready') \in SUBSET SubConn
    BY <1>5 DEF BecomeReady, Lose, Typed, SubConn, Of
  <2>2. \A b \in Clients \ {sc.client} : Of(b, ready') = Of(b, ready)
    BY <1>5 DEF BecomeReady, Lose, Of
  <2>3. Rebuild(sc.client, Of(sc.client, ready'))
    BY <1>5 DEF BecomeReady, Lose
  <2>. QED
    BY <2>1, <2>2, <2>3, RebuildServes DEF Typed
<1>6. ASSUME UNCHANGED <<ready, serving, builder, picker>> PROVE Served'
  BY <1>1, <1>6
<1>7. ASSUME NEW l \in Servers \cup {None}, Elect(l) PROVE Served'
  BY <1>6, <1>7 DEF Elect
<1>8. ASSUME NEW c \in Clients, Dial(c) PROVE Served'
  BY <1>6, <1>8 DEF Dial
<1>9. ASSUME NEW s \in Servers, GetServer(s) PROVE Served'
  BY <1>6, <1>9 DEF GetServer
<1>10. CASE ResolveNow \/ ResolveFails \/ UNCHANGED vars
  BY <1>6, <1>10 DEF ResolveNow, ResolveFails, vars
<1>. QED
  BY <1>2, <1>3, <1>4, <1>5, <1>7, <1>8, <1>9, <1>10 DEF Next

\* At first the Picker has no builder.
LEMMA InitServed == Init => Served
BY LoadBalanceAssumption DEF LoadBalanceAssumption, Init, Served, Serves

-----------------------------------------------------------------------------
(* FreshPicks: what a client knows when its servers were asked for since    *)
(* the last election.                                                       *)

\* An answer begun since the last election is right, and so are the connections of
\* a client that has it.
AnswersRight ==
    call.busy /\ call.began = elections =>
        \A s \in DOMAIN call.answer : call.answer[s] = (leader = s)

Conn(c, s, flag) == [client |-> c, server |-> s, leader |-> flag]

\* The fields of a connection.
LEMMA ConnFields ==
    ASSUME NEW c, NEW s, NEW flag
    PROVE  Conn(c, s, flag).client = c /\ Conn(c, s, flag).server = s /\ Conn(c, s, flag).leader = flag
BY DEF Conn

Right(c) == {Conn(c, s, leader = s) : s \in Servers}

ListsRight ==
    \A c \in Clients :
        status[c] # "closed" /\ resolvedAt[c] = elections => Of(c, conns) = Right(c)

Informed == AnswersRight /\ ListsRight

\* Every step keeps what was asked for since the last election right.
LEMMA StepInformed == Typed /\ Informed /\ [Next]_vars => Informed'
<1> SUFFICES ASSUME Typed, Informed, [Next]_vars PROVE Informed'
  OBVIOUS
<1> USE LoadBalanceAssumption DEF LoadBalanceAssumption
<1>1. ASSUME UNCHANGED <<leader, status, call, conns, elections, resolvedAt>>
      PROVE  Informed'
  BY <1>1 DEF Informed, AnswersRight, ListsRight, Right
<1>2. ASSUME NEW l \in Servers \cup {None}, Elect(l) PROVE Informed'
  <2>1. elections' = elections + 1 /\ UNCHANGED <<call, resolvedAt>>
    BY <1>2 DEF Elect
  <2>2. call'.began # elections' /\ \A c \in Clients : resolvedAt'[c] # elections'
    BY <2>1 DEF Typed, IsCall
  <2>. QED
    BY <2>2 DEF Informed, AnswersRight, ListsRight
<1>3. ASSUME NEW c \in Clients, Dial(c) PROVE Informed'
  BY <1>3 DEF Dial, Typed, Informed, AnswersRight, ListsRight, Right
<1>4. ASSUME NEW c \in Clients, Close(c) PROVE Informed'
  <2>1. status'[c] = "closed" /\ UNCHANGED <<leader, call, elections, resolvedAt>>
    BY <1>4 DEF Close, Typed
  <2>2. \A b \in Clients \ {c} : status'[b] = status[b] /\ Of(b, conns') = Of(b, conns)
    BY <1>4 DEF Close, Typed, Of
  <2>. QED
    BY <2>1, <2>2 DEF Informed, AnswersRight, ListsRight, Right
<1>5. CASE ResolveNow
  <2>1. DOMAIN call'.answer = {}
    BY <1>5 DEF ResolveNow
  <2>2. UNCHANGED <<leader, status, conns, elections, resolvedAt>>
    BY <1>5 DEF ResolveNow
  <2>. QED
    BY <2>1, <2>2 DEF Informed, AnswersRight, ListsRight, Right
<1>6. CASE ResolveFails
  <2>1. ~call'.busy
    BY <1>6 DEF ResolveFails, NoCall
  <2>2. UNCHANGED <<leader, status, conns, elections, resolvedAt>>
    BY <1>6 DEF ResolveFails
  <2>. QED
    BY <2>1, <2>2 DEF Informed, AnswersRight, ListsRight, Right
<1>7. ASSUME NEW s \in Servers, GetServer(s) PROVE Informed'
  <2>1. UNCHANGED <<leader, status, conns, elections, resolvedAt>>
    BY <1>7 DEF GetServer
  <2>2. /\ DOMAIN call'.answer = DOMAIN call.answer \cup {s}
        /\ call'.busy = call.busy /\ call'.began = call.began
        /\ call'.answer[s] = (leader = s)
        /\ \A v \in DOMAIN call.answer : call'.answer[v] = call.answer[v]
    BY <1>7, AnswerType
  <2>3. AnswersRight'
    BY <2>1, <2>2 DEF Informed, AnswersRight
  <2>. QED
    BY <2>1, <2>3 DEF Informed, ListsRight, Right
<1>8. CASE UpdateState
  <2> DEFINE c == resolver.clientConn
  <2>1. c \in Clients /\ call.busy /\ DOMAIN call.answer = Servers /\ call' = NoCall
    BY <1>8, UpdateEffect DEF Typed
  <2>2. UNCHANGED <<leader, status, elections>> /\ ~call'.busy
    BY <1>8, <2>1, UpdateEffect DEF NoCall
  <2>3. CASE status[c] = "closed"
    <3>1. UNCHANGED <<conns, resolvedAt>>
      BY <1>8, <2>3, UpdateEffect
    <3>. QED
      BY <2>2, <3>1 DEF Informed, AnswersRight, ListsRight, Right
  <2>4. CASE status[c] # "closed"
    <3>1. /\ conns' = (conns \ Of(c, conns)) \cup Listed(c)
          /\ resolvedAt' = [resolvedAt EXCEPT ![c] = call.began]
      BY <1>8, <2>4, UpdateEffect
    <3> HIDE DEF c
    <3>2. /\ Of(c, conns') = Listed(c)
          /\ \A b \in Clients \ {c} : Of(b, conns') = Of(b, conns)
      BY <2>1, <3>1, ListedType
    <3>3. call.began = elections => Listed(c) = Right(c)
      BY <2>1 DEF Informed, AnswersRight, Listed, Right, Conn
    <3>4. ASSUME NEW b \in Clients, status'[b] # "closed", resolvedAt'[b] = elections'
          PROVE  Of(b, conns') = Right(b)'
      <4>1. Right(b)' = Right(b)
        BY <2>2 DEF Right
      <4>2. CASE b = c
        <5>1. call.began = elections
          BY <2>1, <2>2, <3>1, <3>4, <4>2 DEF Typed
        <5>. QED
          BY <3>2, <3>3, <4>1, <4>2, <5>1
      <4>3. CASE b # c
        <5>1. status[b] # "closed" /\ resolvedAt[b] = elections
          BY <2>1, <2>2, <3>1, <3>4, <4>3 DEF Typed
        <5>2. Of(b, conns) = Right(b)
          BY <5>1 DEF Informed, ListsRight
        <5>. QED
          BY <3>2, <4>1, <4>3, <5>2
      <4>. QED
        BY <4>2, <4>3
    <3>5. ListsRight'
      BY <3>4 DEF ListsRight
    <3>. QED
      BY <2>2, <3>5 DEF Informed, AnswersRight
  <2>. QED
    BY <2>3, <2>4
<1>9. ASSUME NEW c \in Clients, PickFollower(c) PROVE Informed'
  BY <1>1, <1>9 DEF PickFollower
<1>10. ASSUME NEW sc \in SubConn, BecomeReady(sc) \/ Lose(sc) PROVE Informed'
  BY <1>1, <1>10 DEF BecomeReady, Lose
<1>11. CASE UNCHANGED vars
  BY <1>1, <1>11 DEF vars
<1>. QED
  BY <1>2, <1>3, <1>4, <1>5, <1>6, <1>7, <1>8, <1>9, <1>10, <1>11 DEF Next

\* At first nothing was asked for.
LEMMA InitInformed == Init => Informed
BY DEF Init, Informed, AnswersRight, ListsRight, NoCall

\* A Picker built from what is right is right.
LEMMA InformedPicks == Typed /\ Served /\ Informed => FreshPicks
<1> SUFFICES ASSUME Typed, Served, Informed, NEW c \in Clients, Serves(c),
                    resolvedAt[c] = elections, leader # None, Of(c, conns) \subseteq ready
             PROVE  /\ picker.leader = [client |-> c, server |-> leader, leader |-> TRUE]
                    /\ {sc.server : sc \in Range(picker.followers)} = Servers \ {leader}
  BY DEF FreshPicks
<1>1. leader \in Servers
  BY DEF Typed
<1>2. Of(c, ready) = Right(c)
  <2>1. status[c] # "closed"
    BY DEF Typed, Serves
  <2>2. Of(c, conns) = Right(c)
    BY <2>1 DEF Informed, ListsRight
  <2>3. Of(c, ready) = Of(c, conns)
    BY DEF Typed, Of
  <2>. QED
    BY <2>2, <2>3
<1>3. \A s \in Servers : /\ Conn(c, s, leader = s) \in Right(c)
                         /\ Conn(c, s, leader = s).leader <=> leader = s
                         /\ Conn(c, s, leader = s).server = s
  <2> SUFFICES ASSUME NEW s \in Servers
               PROVE  /\ Conn(c, s, leader = s) \in Right(c)
                      /\ Conn(c, s, leader = s).leader <=> leader = s
                      /\ Conn(c, s, leader = s).server = s
    OBVIOUS
  <2>1. Conn(c, s, leader = s) \in Right(c)
    BY DEF Right
  <2> DEFINE flag == leader = s
  <2>2. flag <=> leader = s
    OBVIOUS
  <2> HIDE DEF flag
  <2>3. Conn(c, s, flag).leader = flag /\ Conn(c, s, flag).server = s
    BY ConnFields
  <2>4. Conn(c, s, leader = s).leader = flag /\ Conn(c, s, leader = s).server = s
    BY <2>3 DEF flag
  <2>. QED
    BY <2>1, <2>2, <2>4
<1>4. \A x \in Right(c) : /\ x \in Flagged(Right(c)) <=> x.server = leader
                          /\ x.server \in Servers
                          /\ x = Conn(c, x.server, leader = x.server)
  <2> SUFFICES ASSUME NEW x \in Right(c)
               PROVE  /\ x \in Flagged(Right(c)) <=> x.server = leader
                      /\ x.server \in Servers
                      /\ x = Conn(c, x.server, leader = x.server)
    OBVIOUS
  <2>1. PICK s \in Servers : x = Conn(c, s, leader = s)
    BY DEF Right
  <2>2. x.server = s /\ (x.leader <=> leader = s)
    BY <1>3, <2>1
  <2>. QED
    BY <2>1, <2>2 DEF Flagged
<1>5. picker.leader = [client |-> c, server |-> leader, leader |-> TRUE]
  <2>1. Flagged(Right(c)) # {}
    BY <1>1, <1>3, <1>4
  <2>2. picker.leader \in Flagged(Right(c))
    BY <1>2, <2>1 DEF Served, BuiltFrom
  <2>3. picker.leader \in Right(c) /\ picker.leader.server = leader
    BY <1>4, <2>2 DEF Flagged
  <2>4. picker.leader = Conn(c, leader, leader = leader)
    BY <1>4, <2>3
  <2>5. (leader = leader) = TRUE
    OBVIOUS
  <2>. QED
    BY <2>4, <2>5 DEF Conn
<1>6. Range(picker.followers) = Right(c) \ Flagged(Right(c))
  BY <1>2 DEF Served, BuiltFrom
<1>7. {sc.server : sc \in Right(c) \ Flagged(Right(c))} = Servers \ {leader}
  <2>1. \A sc \in Right(c) \ Flagged(Right(c)) : sc.server \in Servers \ {leader}
    BY <1>4
  <2>2. \A s \in Servers \ {leader} :
           \E sc \in Right(c) \ Flagged(Right(c)) : sc.server = s
    BY <1>3, <1>4
  <2> DEFINE rest == Right(c) \ Flagged(Right(c))
  <2> HIDE DEF rest
  <2>3. /\ \A sc \in rest : sc.server \in Servers \ {leader}
        /\ \A s \in Servers \ {leader} : \E sc \in rest : sc.server = s
    BY <2>1, <2>2 DEF rest
  <2>4. {sc.server : sc \in rest} = Servers \ {leader}
    BY <2>3
  <2>. QED
    BY <2>4 DEF rest
<1>. QED
  BY <1>5, <1>6, <1>7

-----------------------------------------------------------------------------
(* ConsumeInTurn: the picks since the last Build are those of consecutive   *)
(* values of the counter, no more of them than there are followers.         *)

PicksInTurn(p, picks) ==
    /\ Len(picks) <= Len(p.followers) /\ Len(picks) <= p.current + 1
    /\ \A i \in 1 .. Len(picks) :
          picks[i] = NextFollower(p, p.current - Len(picks) + i)

InTurn == PicksInTurn(picker, turns)

\* Consecutive counter values pick different followers.
LEMMA InTurnInjective == Typed /\ InTurn => ConsumeInTurn
<1> SUFFICES ASSUME Typed, InTurn, NEW i \in 1 .. Len(turns), NEW j \in 1 .. Len(turns),
                    i < j
             PROVE  turns[i] # turns[j]
  <2>1. DOMAIN turns = 1 .. Len(turns) /\ Len(turns) \in Nat
    BY DEF Typed
  <2>. QED
    BY <2>1 DEF ConsumeInTurn, IsInjective
<1> USE LoadBalanceAssumption DEF LoadBalanceAssumption
<1> DEFINE L == Len(picker.followers)
           x == picker.current - Len(turns) + i
           y == picker.current - Len(turns) + j
<1>1. Len(turns) \in Nat /\ picker.current \in Nat /\ picker.followers \in Seq(SubConn)
      /\ IsInjective(picker.followers)
  BY DEF Typed, Pickers
<1>2. L \in Nat \ {0} /\ picker.followers # <<>>
  BY <1>1, EmptySeq DEF InTurn, PicksInTurn
<1>3. x \in Nat /\ y \in Nat /\ x < y /\ y - x < L
  <2> DEFINE n == Len(turns)
             top == picker.current
  <2>1. n <= L /\ n <= top + 1
    BY DEF InTurn, PicksInTurn
  <2>2. i \in 1 .. n /\ j \in 1 .. n /\ i < j /\ n \in Nat /\ top \in Nat
    BY <1>1
  <2> HIDE DEF n, top, L
  <2>3. L \in Nat
    BY <1>2
  <2>4. /\ top - n + i \in Nat /\ top - n + j \in Nat
        /\ top - n + i < top - n + j /\ (top - n + j) - (top - n + i) < L
    BY <2>1, <2>2, <2>3
  <2>. QED
    BY <2>4 DEF n, top
<1>4. turns[i] = NextFollower(picker, x) /\ turns[j] = NextFollower(picker, y)
  BY DEF InTurn, PicksInTurn
<1> HIDE DEF x, y
<1>5. x % L # y % L /\ x % L \in Nat /\ y % L \in Nat
  <2> HIDE DEF L
  <2>1. x % L # y % L
    BY <1>2, <1>3, ModDistinct
  <2>2. x % L \in 0 .. L - 1 /\ y % L \in 0 .. L - 1
    BY <1>2, <1>3, ModRange
  <2>. QED
    BY <1>2, <2>1, <2>2
<1>6. 1 + (x % L) \in DOMAIN picker.followers /\ 1 + (y % L) \in DOMAIN picker.followers
  BY <1>2, <1>3, PickedType
<1>7. 1 + (x % L) # 1 + (y % L)
  BY <1>5
<1>. QED
  BY <1>1, <1>4, <1>6, <1>7 DEF IsInjective, NextFollower

\* Another pick goes on where the last one was.
LEMMA PickInTurn ==
    ASSUME Typed, InTurn, NEW c \in Clients, PickFollower(c)
    PROVE  InTurn'
<1> USE LoadBalanceAssumption DEF LoadBalanceAssumption
<1> DEFINE L == Len(picker.followers)
           sc == NextFollower(picker, Counted)
<1>1. /\ L \in Nat \ {0} /\ picker.current \in Nat /\ Counted \in Nat
      /\ turns \in Seq(SubConn) /\ Len(turns) \in Nat
  <2>1. picker.followers \in Seq(SubConn) /\ picker.followers # <<>>
    BY PickEffect DEF Typed, Pickers
  <2>. QED
    BY <2>1, PickEffect, EmptySeq DEF Typed, Pickers
<1>2. /\ picker'.current = Counted /\ Len(picker'.followers) = L
      /\ \A n : NextFollower(picker', n) = NextFollower(picker, n)
  BY PickEffect DEF NextFollower
<1>3. sc \in SubConn
  BY <1>1, PickEffect, PickedType
<1> HIDE DEF sc, L
<1>4. CASE Counted = 0
  <2>1. turns' = Append(<<>>, sc)
    BY <1>1, <1>4, PickEffect, EmptySeq DEF Known, sc, L
  <2>2. Len(turns') = 1 /\ turns'[1] = sc
    BY <2>1
  <2>. QED
    BY <1>1, <1>2, <1>4, <2>2 DEF InTurn, PicksInTurn, sc
<1>5. CASE Counted = picker.current + 1 /\ Counted # 0 /\ Len(turns) = L
  <2>1. turns' = Append(Tail(turns), sc) /\ turns # <<>>
    BY <1>1, <1>5, PickEffect, EmptySeq DEF Known, sc, L
  <2>2. Len(turns') = L /\ turns'[L] = sc /\ \A i \in 1 .. L - 1 : turns'[i] = turns[i + 1]
    BY <1>1, <1>3, <1>5, <2>1
  <2>3. L <= picker.current + 1
        /\ \A i \in 1 .. L : turns[i] = NextFollower(picker, picker.current - L + i)
    BY <1>5 DEF InTurn, PicksInTurn
  <2>4. ASSUME NEW i \in 1 .. L PROVE turns'[i] = NextFollower(picker, Counted - L + i)
    <3>1. CASE i = L
      BY <1>1, <2>2, <3>1 DEF sc
    <3>2. CASE i # L
      <4>1. i + 1 \in 1 .. L /\ picker.current - L + (i + 1) = Counted - L + i
            /\ i \in 1 .. L - 1
        BY <1>1, <1>5, <3>2
      <4>. QED
        BY <2>2, <2>3, <4>1
    <3>. QED
      BY <3>1, <3>2
  <2>5. L <= L /\ L <= Counted + 1
    BY <1>1, <1>5, <2>3
  <2>. QED
    BY <1>2, <2>2, <2>4, <2>5 DEF InTurn, PicksInTurn
<1>6. CASE Counted = picker.current + 1 /\ Counted # 0 /\ Len(turns) # L
  <2> DEFINE n == Len(turns)
  <2>1. turns' = Append(turns, sc)
    BY <1>1, <1>6, PickEffect DEF Known, sc, L
  <2>2. Len(turns') = n + 1 /\ turns'[n + 1] = sc /\ \A i \in 1 .. n : turns'[i] = turns[i]
    BY <1>1, <1>3, <2>1
  <2>3. n <= L /\ n <= picker.current + 1
        /\ \A i \in 1 .. n : turns[i] = NextFollower(picker, picker.current - n + i)
    BY DEF InTurn, PicksInTurn, L
  <2> HIDE DEF n
  <2>4. n \in Nat /\ n # L
    BY <1>1, <1>6 DEF n
  <2>5. ASSUME NEW i \in 1 .. n + 1 PROVE turns'[i] = NextFollower(picker, Counted - (n + 1) + i)
    <3>1. CASE i = n + 1
      <4>1. Counted - (n + 1) + i = Counted
        BY <1>1, <2>4, <3>1
      <4>. QED
        BY <2>2, <3>1, <4>1 DEF sc
    <3>2. CASE i # n + 1
      <4>1. i \in 1 .. n /\ picker.current - n + i = Counted - (n + 1) + i
        BY <1>1, <1>6, <2>4, <3>2
      <4>. QED
        BY <2>2, <2>3, <4>1
    <3>. QED
      BY <3>1, <3>2
  <2>6. n + 1 <= L /\ n + 1 <= Counted + 1
    BY <1>1, <1>6, <2>3, <2>4
  <2>. QED
    BY <1>2, <2>2, <2>5, <2>6 DEF InTurn, PicksInTurn
<1>. QED
  BY <1>4, <1>5, <1>6, PickEffect

\* A Build starts the turns anew.
LEMMA NoTurns ==
    ASSUME NEW p \in Pickers
    PROVE  PicksInTurn(p, <<>>)
<1>1. Len(<<>>) = 0
  OBVIOUS
<1>2. p.current \in Nat /\ Len(p.followers) \in Nat
  BY LoadBalanceAssumption DEF LoadBalanceAssumption, Pickers
<1>. QED
  BY <1>1, <1>2 DEF PicksInTurn

\* Every step keeps the picks in turn.
LEMMA StepInTurn == Typed /\ InTurn /\ [Next]_vars => InTurn'
<1> SUFFICES ASSUME Typed, InTurn, [Next]_vars PROVE InTurn'
  OBVIOUS
<1>1. ASSUME UNCHANGED <<picker, turns>> PROVE InTurn'
  BY <1>1 DEF InTurn, PicksInTurn, NextFollower
<1>2. ASSUME NEW c, NEW scs, Rebuild(c, scs) PROVE InTurn'
  <2>1. picker' \in Pickers
    BY StepTyped DEF Typed
  <2>2. turns' = <<>> => InTurn'
    BY <2>1, NoTurns DEF InTurn
  <2>. QED
    BY <1>1, <1>2, <2>2 DEF Rebuild
<1>3. ASSUME NEW c \in Clients, PickFollower(c) PROVE InTurn'
  BY <1>3, PickInTurn
<1>4. CASE UpdateState
  BY <1>1, <1>2, <1>4, UpdateEffect
<1>5. ASSUME NEW sc \in SubConn, BecomeReady(sc) \/ Lose(sc) PROVE InTurn'
  BY <1>2, <1>5 DEF BecomeReady, Lose
<1>6. ASSUME NEW l \in Servers \cup {None}, Elect(l) PROVE InTurn'
  BY <1>1, <1>6 DEF Elect
<1>7. ASSUME NEW c \in Clients, Dial(c) \/ Close(c) PROVE InTurn'
  BY <1>1, <1>7 DEF Dial, Close
<1>8. ASSUME NEW s \in Servers, GetServer(s) PROVE InTurn'
  BY <1>1, <1>8 DEF GetServer
<1>9. CASE ResolveNow \/ ResolveFails \/ UNCHANGED vars
  BY <1>1, <1>9 DEF ResolveNow, ResolveFails, vars
<1>. QED
  BY <1>3, <1>4, <1>5, <1>6, <1>7, <1>8, <1>9 DEF Next

-----------------------------------------------------------------------------
(* The theorems.                                                            *)

LInv == Typed /\ Served /\ Informed /\ InTurn

\* The invariant holds in every state.
LEMMA Invariance == Spec => []LInv
<1>1. Init => LInv
  <2> SUFFICES ASSUME Init PROVE LInv
    OBVIOUS
  <2>1. Typed
    BY InitTyped
  <2>2. InTurn
    BY <2>1, NoTurns DEF Init, Typed, InTurn
  <2>. QED
    BY <2>1, <2>2, InitServed, InitInformed DEF LInv
<1>2. LInv /\ [Next]_vars => LInv'
  BY StepTyped, StepServed, StepInformed, StepInTurn DEF LInv
<1>. QED
  BY <1>1, <1>2, PTL DEF Spec

\* LastBuilderServed: the client that built the shared Picker last, whatever the
\* others do with the Resolver, is served from exactly its ready connections
\* (picker.go Build).
THEOREM BuilderServed == Spec => []LastBuilderServed
<1>1. LInv => LastBuilderServed
  BY DEF LInv, Served, BuiltFrom, LastBuilderServed
<1>. QED
  BY <1>1, Invariance, PTL

\* FreshPicks: an answer of GetServers that no election interrupted corrects
\* whatever the Picker knew, for any number of elections and answers before
\* (distributed.go GetServers, resolver.go ResolveNow, picker.go Build).
THEOREM PicksAreFresh == Spec => []FreshPicks
<1>1. LInv => FreshPicks
  BY InformedPicks DEF LInv
<1>. QED
  BY <1>1, Invariance, PTL

\* ConsumeInTurn, for every number of followers and every size of the counter
\* (picker.go nextFollower).
THEOREM EveryoneInTurn == Spec => []ConsumeInTurn
<1>1. LInv => ConsumeInTurn
  BY InTurnInjective DEF LInv
<1>. QED
  BY <1>1, Invariance, PTL

-----------------------------------------------------------------------------
(* HttpServer: the invariant.                                               *)

\* A record carries the offset it is stored under.
Numbered == \A i \in 1 .. Len(records) : records[i].offset = i - 1

\* What a client was told of is in the log.
ToldIsKept ==
    \A r \in answered : r.offset < Len(records) /\ r = records[r.offset + 1]

\* The append of c's POST has been done.
Appended(c) ==
    handler[c].method = "POST" /\ (handler[c].at = "encode" \/ handler[c].status = 200)

\* The record that c posted is stored behind all that were answered before.
PostsKept ==
    \A c \in Conns : Appended(c) =>
        /\ handler[c].offset < Len(records)
        /\ records[handler[c].offset + 1] = [handler[c].rec EXCEPT !.offset = handler[c].offset]
        /\ \A r \in known[c] : r.offset < handler[c].offset

\* What Log.Read told the handler of a GET is still so.
GetsRight ==
    \A c \in Conns : handler[c].method = "GET" =>
        /\ handler[c].status = 404 => \A r \in known[c] : r.offset # handler[c].offset
        /\ handler[c].at = "encode" \/ handler[c].status = 200 =>
               /\ handler[c].offset < Len(records)
               /\ handler[c].rec = records[handler[c].offset + 1]

\* The router has chosen the handler by the method.
Routed ==
    \A c \in Conns : /\ handler[c].at = "append" => handler[c].method = "POST"
                     /\ handler[c].at = "read" => handler[c].method = "GET"

PostsDistinct ==
    \A c, d \in Conns :
        c # d /\ Appended(c) /\ Appended(d) => handler[c].offset # handler[d].offset

HttpIInv == /\ HttpTypeOK /\ Numbered /\ ToldIsKept /\ PostsKept /\ GetsRight
        /\ Routed /\ PostsDistinct

Handler == [at : {"client", "append", "read", "encode"}, method : {"POST", "GET"},
         rec : Record, offset : Nat, status : {0, 200, 400, 404}]

-----------------------------------------------------------------------------
(* The invariant, one lemma per step.                                       *)

\* The log is empty and nothing answered.
LEMMA HttpInitInv == HttpInit => HttpIInv
<1> SUFFICES ASSUME HttpInit PROVE HttpIInv
  OBVIOUS
<1>1. NoRecord \in Record /\ NoRequest \in Handler
  BY HttpAssumption DEF NoRecord, Record, NoRequest, Request, Handler
<1>2. HttpTypeOK
  BY <1>1 DEF HttpInit, HttpTypeOK, NoRequest, Request, Handler
<1>. QED
  BY <1>2 DEF HttpInit, HttpIInv, Numbered, ToldIsKept, PostsKept, GetsRight, Routed,
              PostsDistinct, Appended, NoRequest, Request

\* A new request, of either method, disturbs nothing: it has no answer yet, or the
\* answer that its body is bad.
LEMMA AsksInv ==
    ASSUME HttpIInv, NEW c \in Conns, NEW request \in Handler, Asks(c, request),
           request.at # "encode", request.status \in {0, 400},
           request.status # 0 => request.at = "client",
           request.at = "append" => request.method = "POST",
           request.at = "read" => request.method = "GET"
    PROVE  HttpIInv'
<1> USE DEF HttpIInv, Asks
<1>1. HttpTypeOK'
  BY DEF HttpTypeOK, Handler
<1>2. handler'[c] = request /\ \A d \in Conns \ {c} : handler'[d] = handler[d] /\ known'[d] = known[d]
  BY DEF HttpTypeOK
<1>3. Numbered' /\ ToldIsKept'
  BY DEF Numbered, ToldIsKept
<1>4. \A d \in Conns : Appended(d)' => d # c /\ Appended(d)
  BY <1>2 DEF Appended
<1>5. PostsKept' /\ PostsDistinct'
  BY <1>2, <1>4 DEF PostsKept, PostsDistinct
<1>6. GetsRight' /\ Routed'
  BY <1>2 DEF GetsRight, Routed
<1>. QED
  BY <1>1, <1>3, <1>5, <1>6

\* The request of a connection is a record of its handler, with the fields it is given.
LEMMA RequestType ==
    ASSUME NEW place \in {"client", "append", "read", "encode"},
           NEW method \in {"POST", "GET"}, NEW record \in Record,
           NEW offset \in Nat, NEW answer \in {0, 200, 400, 404}
    PROVE  LET r == Request(place, method, record, offset, answer)
           IN  /\ r \in Handler /\ r.at = place /\ r.method = method
               /\ r.rec = record /\ r.offset = offset /\ r.status = answer
BY DEF Request, Handler

\* A request that arrives has been answered nothing yet (http.go handleProduce,
\* handleConsume).
LEMMA RequestInv ==
    ASSUME HttpIInv, NEW c \in Conns, Post(c) \/ Get(c) \/ BadRequest(c)
    PROVE  HttpIInv'
<1>1. NoRecord \in Record
  BY HttpAssumption DEF NoRecord, Record
<1>2. CASE Post(c)
  <2>1. PICK v \in Values, off \in Offsets :
          Asks(c, Request("append", "POST", [value |-> v, offset |-> off], 0, 0))
    BY <1>2 DEF Post
  <2> DEFINE record  == [value |-> v, offset |-> off]
             request == Request("append", "POST", record, 0, 0)
  <2>2. record \in Record
    BY HttpAssumption DEF Record
  <2> HIDE DEF record
  <2>3. /\ request \in Handler /\ request.at = "append"
        /\ request.method = "POST" /\ request.status = 0
    BY <2>2, RequestType
  <2>4. Asks(c, request)
    BY <2>1 DEF record
  <2> HIDE DEF request
  <2>. QED
    BY <2>3, <2>4, AsksInv
<1>3. CASE Get(c)
  <2>1. PICK off \in Offsets : Asks(c, Request("read", "GET", NoRecord, off, 0))
    BY <1>3 DEF Get
  <2> DEFINE request == Request("read", "GET", NoRecord, off, 0)
  <2>2. off \in Nat
    BY HttpAssumption
  <2>3. /\ request \in Handler /\ request.at = "read"
        /\ request.method = "GET" /\ request.status = 0
    BY <1>1, <2>2, RequestType
  <2> HIDE DEF request
  <2>. QED
    BY <2>1, <2>3, AsksInv DEF request
<1>4. CASE BadRequest(c)
  <2>1. PICK method \in {"POST", "GET"} :
          Asks(c, Request("client", method, NoRecord, 0, 400))
    BY <1>4 DEF BadRequest
  <2> DEFINE request == Request("client", method, NoRecord, 0, 400)
  <2>2. request \in Handler /\ request.at = "client" /\ request.status = 400
    BY <1>1, RequestType
  <2> HIDE DEF request
  <2>. QED
    BY <2>1, <2>2, AsksInv DEF request
<1>. QED
  BY <1>2, <1>3, <1>4

\* The record that is stored under offset o is numbered o.
LEMMA NumberOf ==
    ASSUME HttpIInv, NEW o \in Nat, o < Len(records)
    PROVE  records[o + 1] \in Record /\ records[o + 1].offset = o
<1>1. o + 1 \in 1 .. Len(records) /\ (o + 1) - 1 = o
  BY DEF HttpIInv, HttpTypeOK
<1>. QED
  BY <1>1 DEF HttpIInv, HttpTypeOK, Numbered

\* A step of one handler changes its record in handler.
LEMMA OneHandler ==
    ASSUME HttpTypeOK, NEW c \in Conns, NEW new \in Handler,
           handler' = [handler EXCEPT ![c] = new],
           new.status # 0 => new.at = "client"
    PROVE  /\ handler' \in [Conns -> Handler] /\ handler'[c] = new
           /\ \A d \in Conns \ {c} : handler'[d] = handler[d]
           /\ \A d \in Conns : handler'[d].status # 0 => handler'[d].at = "client"
<1>1. handler \in [Conns -> Handler]
  BY DEF HttpTypeOK, Handler
<1>2. handler' \in [Conns -> Handler] /\ handler'[c] = new
  BY <1>1
<1>3. \A d \in Conns \ {c} : handler'[d] = handler[d]
  BY <1>1
<1>. QED
  BY <1>2, <1>3 DEF HttpTypeOK

\* The new record goes behind all others, so that its offset is higher than every
\* offset a client has been told of.
LEMMA LogAppendInv ==
    ASSUME HttpIInv, NEW c \in Conns, LogAppend(c)
    PROVE  HttpIInv'
<1> DEFINE n == Len(records)
           rec == [handler[c].rec EXCEPT !.offset = n]
           new == Request("encode", "POST", handler[c].rec, n, 0)
<1>1. handler[c] \in Handler /\ handler[c].method = "POST" /\ handler[c].status = 0
  BY DEF HttpIInv, Routed, LogAppend, HttpTypeOK, Handler
<1>2. rec \in Record /\ n \in Nat /\ new \in Handler /\ rec.offset = n
  <2>1. n \in Nat /\ handler[c].rec \in Record
    BY <1>1 DEF HttpIInv, HttpTypeOK, Handler
  <2>2. rec \in Record /\ rec.offset = n
    BY <2>1 DEF Record
  <2>3. new \in Handler
    BY <2>1, RequestType
  <2>. QED
    BY <2>2, <2>1, <2>3
<1>3. /\ records' \in Seq(Record) /\ Len(records') = n + 1 /\ records'[n + 1] = rec
      /\ \A i \in 1 .. n : records'[i] = records[i]
  BY <1>2 DEF LogAppend, HttpIInv, HttpTypeOK
<1>4. handler' = [handler EXCEPT ![c] = new]
  BY <1>1 DEF LogAppend
<1>5. UNCHANGED <<answered, known>>
  BY DEF LogAppend
<1>6. /\ new.at = "encode" /\ new.method = "POST" /\ new.offset = n /\ new.status = 0
      /\ [new.rec EXCEPT !.offset = n] = rec
  BY <1>1 DEF Handler, Request
<1> HIDE DEF rec, new
<1>7. /\ handler' \in [Conns -> Handler] /\ handler'[c] = new
      /\ \A d \in Conns \ {c} : handler'[d] = handler[d]
      /\ \A d \in Conns : handler'[d].status # 0 => handler'[d].at = "client"
  BY <1>2, <1>4, <1>6, OneHandler DEF HttpIInv
<1>8. HttpTypeOK'
  BY <1>3, <1>5, <1>7 DEF HttpIInv, HttpTypeOK, Handler
<1>9. Numbered'
  <2>1. \A i \in 1 .. n + 1 : i = n + 1 \/ i \in 1 .. n
    BY <1>2
  <2>2. (n + 1) - 1 = n
    BY <1>2
  <2>. QED
    BY <1>2, <1>3, <2>1, <2>2 DEF HttpIInv, Numbered
<1>10. \A r \in answered : r.offset \in Nat /\ r.offset < n /\ r.offset + 1 \in 1 .. n
  BY <1>2 DEF HttpIInv, HttpTypeOK, ToldIsKept, Record
<1>11. ToldIsKept'
  BY <1>2, <1>3, <1>5, <1>10 DEF HttpIInv, ToldIsKept
<1>12. \A d \in Conns \ {c} : Appended(d)' => Appended(d) /\ handler[d].offset < n
  <2>1. \A d \in Conns \ {c} : Appended(d)' => Appended(d)
    BY <1>7 DEF Appended
  <2>2. \A d \in Conns : Appended(d) => handler[d].offset < n
    BY DEF HttpIInv, PostsKept
  <2>. QED
    BY <2>1, <2>2
<1>13. \A d \in Conns : handler[d].offset \in Nat
  BY DEF HttpIInv, HttpTypeOK
<1>14. PostsKept'
  <2>1. ASSUME NEW d \in Conns \ {c}, Appended(d)'
        PROVE  /\ handler'[d].offset < Len(records')
               /\ records'[handler'[d].offset + 1] = [handler'[d].rec EXCEPT !.offset = handler'[d].offset]
               /\ \A r \in known'[d] : r.offset < handler'[d].offset
    <3>1. handler[d].offset + 1 \in 1 .. n /\ handler[d].offset < n + 1
      BY <1>2, <1>12, <1>13, <2>1
    <3>. QED
      BY <1>3, <1>5, <1>7, <1>12, <2>1, <3>1 DEF HttpIInv, PostsKept
  <2>2. /\ handler'[c].offset < Len(records')
        /\ records'[handler'[c].offset + 1] = [handler'[c].rec EXCEPT !.offset = handler'[c].offset]
    BY <1>2, <1>3, <1>6, <1>7
  <2>3. \A r \in known'[c] : r.offset < handler'[c].offset
    BY <1>5, <1>6, <1>7, <1>10 DEF HttpIInv, HttpTypeOK
  <2>. QED
    BY <2>1, <2>2, <2>3 DEF PostsKept
<1>15. PostsDistinct'
  <2>1. \A d \in Conns \ {c} : Appended(d)' => handler'[d].offset # handler'[c].offset
    BY <1>2, <1>6, <1>7, <1>12, <1>13
  <2>2. \A d, e \in Conns \ {c} :
            d # e /\ Appended(d)' /\ Appended(e)' => handler'[d].offset # handler'[e].offset
    BY <1>7, <1>12 DEF HttpIInv, PostsDistinct
  <2>. QED
    BY <2>1, <2>2 DEF PostsDistinct
<1>16. GetsRight'
  <2>1. ASSUME NEW d \in Conns \ {c}, handler'[d].method = "GET"
        PROVE  /\ handler'[d].status = 404 => \A r \in known'[d] : r.offset # handler'[d].offset
               /\ handler'[d].at = "encode" \/ handler'[d].status = 200 =>
                      /\ handler'[d].offset < Len(records')
                      /\ handler'[d].rec = records'[handler'[d].offset + 1]
    <3>1. handler[d].offset < n => handler[d].offset + 1 \in 1 .. n /\ handler[d].offset < n + 1
      BY <1>2, <1>13
    <3>. QED
      BY <1>3, <1>5, <1>7, <2>1, <3>1 DEF HttpIInv, GetsRight
  <2>. QED
    BY <1>6, <1>7, <2>1 DEF GetsRight
<1>17. Routed'
  BY <1>6, <1>7 DEF HttpIInv, Routed
<1>. QED
  BY <1>8, <1>9, <1>11, <1>14, <1>15, <1>16, <1>17 DEF HttpIInv

\* An offset that is not in the log is not one a client has been told of.
LEMMA LogReadInv ==
    ASSUME HttpIInv, NEW c \in Conns, LogRead(c)
    PROVE  HttpIInv'
<1> DEFINE found == Request("encode", "GET", records[handler[c].offset + 1], handler[c].offset, 0)
           missing == Request("client", "GET", handler[c].rec, handler[c].offset, 404)
<1>1. /\ handler[c] \in Handler /\ handler[c].method = "GET" /\ handler[c].status = 0
      /\ handler[c].offset \in Nat /\ Len(records) \in Nat
  BY DEF LogRead, HttpIInv, Routed, HttpTypeOK, Handler
<1>2. UNCHANGED <<records, answered, known>>
  BY DEF LogRead
<1>3. ASSUME NEW new \in Handler, handler' = [handler EXCEPT ![c] = new],
             new.method = "GET", new.at \in {"client", "encode"},
             new.status # 0 => new.at = "client",
             new.status = 404 => \A r \in known[c] : r.offset # new.offset,
             new.at = "encode" \/ new.status = 200 =>
                 /\ new.offset < Len(records) /\ new.rec = records[new.offset + 1]
      PROVE  HttpIInv'
  <2>1. /\ handler' \in [Conns -> Handler] /\ handler'[c] = new
        /\ \A d \in Conns \ {c} : handler'[d] = handler[d]
        /\ \A d \in Conns : handler'[d].status # 0 => handler'[d].at = "client"
    BY <1>3, OneHandler DEF HttpIInv
  <2>2. HttpTypeOK'
    BY <1>2, <2>1 DEF HttpIInv, HttpTypeOK, Handler
  <2>3. \A d \in Conns : Appended(d)' => Appended(d) /\ handler'[d] = handler[d]
    BY <1>3, <2>1 DEF Appended
  <2>4. Numbered' /\ ToldIsKept' /\ PostsKept' /\ PostsDistinct'
    BY <1>2, <2>3 DEF HttpIInv, Numbered, ToldIsKept, PostsKept, PostsDistinct
  <2>5. GetsRight' /\ Routed'
    BY <1>2, <1>3, <2>1 DEF HttpIInv, GetsRight, Routed
  <2>. QED
    BY <2>2, <2>4, <2>5 DEF HttpIInv
<1>4. CASE handler[c].offset >= Len(records)
  <2>1. handler' = [handler EXCEPT ![c] = missing]
    BY <1>1, <1>4 DEF LogRead
  <2>2. missing \in Handler
    <3>1. handler[c].rec \in Record
      BY <1>1 DEF Handler
    <3>. QED
      BY <1>1, <3>1, RequestType
  <2>3. \A r \in known[c] : r.offset # handler[c].offset
    <3>1. \A r \in known[c] : r.offset < Len(records) /\ r.offset \in Nat
      BY DEF HttpIInv, HttpTypeOK, ToldIsKept, Record
    <3>. QED
      BY <1>1, <1>4, <3>1
  <2>4. /\ missing.method = "GET" /\ missing.at \in {"client", "encode"}
        /\ missing.at = "client" /\ \A r \in known[c] : r.offset # missing.offset
        /\ ~(missing.at = "encode" \/ missing.status = 200)
    BY <2>3 DEF Request
  <2> HIDE DEF missing
  <2>. QED
    BY <1>3, <2>1, <2>2, <2>4
<1>5. CASE ~(handler[c].offset >= Len(records))
  <2>1. handler' = [handler EXCEPT ![c] = found]
    BY <1>1, <1>5 DEF LogRead
  <2>2. handler[c].offset < Len(records)
    BY <1>1, <1>5
  <2>3. found \in Handler
    <3>1. records[handler[c].offset + 1] \in Record
      BY <1>1, <2>2, NumberOf
    <3>. QED
      BY <1>1, <3>1, RequestType
  <2>4. /\ found.method = "GET" /\ found.at \in {"client", "encode"}
        /\ found.status = 0 /\ found.status # 404
        /\ found.offset < Len(records) /\ found.rec = records[found.offset + 1]
    BY <2>2 DEF Request
  <2> HIDE DEF found
  <2>. QED
    BY <1>3, <2>1, <2>3, <2>4
<1>. QED
  BY <1>4, <1>5

\* The record that a client is told of is the one that was stored.
LEMMA EncodeInv ==
    ASSUME HttpIInv, NEW c \in Conns, Encode(c)
    PROVE  HttpIInv'
<1> DEFINE new == Request("client", handler[c].method, handler[c].rec, handler[c].offset, 200)
<1>1. /\ handler[c] \in Handler /\ handler[c].at = "encode" /\ handler[c].status = 0
      /\ handler[c].offset \in Nat
  BY DEF Encode, HttpIInv, HttpTypeOK, Handler
<1>2. handler[c].method \in {"POST", "GET"} /\ handler[c].rec \in Record
  BY <1>1 DEF Handler
<1>3. handler' = [handler EXCEPT ![c] = new] /\ UNCHANGED <<records, known>>
  BY DEF Encode
<1>4. /\ new \in Handler /\ new.at = "client" /\ new.status = 200
      /\ new.method = handler[c].method /\ new.offset = handler[c].offset /\ new.rec = handler[c].rec
  <2>1. new \in Handler
    BY <1>1, <1>2, RequestType
  <2>. QED
    BY <2>1 DEF Request
<1> HIDE DEF new
<1>5. /\ handler' \in [Conns -> Handler] /\ handler'[c] = new
      /\ \A d \in Conns \ {c} : handler'[d] = handler[d]
      /\ \A d \in Conns : handler'[d].status # 0 => handler'[d].at = "client"
  BY <1>3, <1>4, OneHandler DEF HttpIInv
<1>6. answered \subseteq answered' /\ answered' \subseteq Record
  <2> DEFINE told == [handler[c].rec EXCEPT !.offset = handler[c].offset]
  <2>1. told \in Record
    BY <1>1 DEF Handler, Record
  <2>2. answered' = answered \cup {told} \/ answered' = answered
    BY DEF Encode
  <2>3. answered \subseteq Record
    BY DEF HttpIInv, HttpTypeOK
  <2> HIDE DEF told
  <2>. QED
    BY <2>1, <2>2, <2>3
<1>7. HttpTypeOK'
  BY <1>3, <1>5, <1>6 DEF HttpIInv, HttpTypeOK, Handler
<1>8. ToldIsKept'
  <2>1. CASE handler[c].method = "POST"
    <3>1. /\ answered' = answered \cup {records[handler[c].offset + 1]}
          /\ handler[c].offset < Len(records)
      BY <1>1, <2>1 DEF Encode, HttpIInv, PostsKept, Appended
    <3>2. records[handler[c].offset + 1].offset = handler[c].offset
      BY <1>1, <3>1, NumberOf
    <3>. QED
      BY <1>3, <3>1, <3>2 DEF HttpIInv, ToldIsKept
  <2>2. CASE handler[c].method # "POST"
    BY <1>3, <2>2 DEF Encode, HttpIInv, ToldIsKept
  <2>. QED
    BY <2>1, <2>2
<1>9. \A d \in Conns : /\ handler'[d].method = handler[d].method
                       /\ handler'[d].offset = handler[d].offset /\ handler'[d].rec = handler[d].rec
                       /\ handler'[d].status = 200 => handler[d].at = "encode" \/ handler[d].status = 200
                       /\ handler'[d].status = 404 => handler[d].status = 404
                       /\ handler'[d].at = handler[d].at \/ handler'[d].at = "client"
  BY <1>1, <1>4, <1>5
<1>10. \A d \in Conns : Appended(d)' => Appended(d)
  BY <1>9 DEF Appended
<1>11. Numbered' /\ PostsKept' /\ PostsDistinct'
  BY <1>3, <1>9, <1>10 DEF HttpIInv, Numbered, PostsKept, PostsDistinct
<1>12. GetsRight'
  <2>1. \A d \in Conns : handler'[d].at = "encode" => handler[d].at = "encode"
    BY <1>9
  <2>. QED
    BY <1>3, <1>9, <2>1 DEF HttpIInv, GetsRight
<1>13. Routed'
  BY <1>9 DEF HttpIInv, Routed
<1>. QED
  BY <1>7, <1>8, <1>11, <1>12, <1>13 DEF HttpIInv

\* An answer that is lost leaves the record in the log.
LEMMA EncodeFailsInv ==
    ASSUME HttpIInv, NEW c \in Conns, EncodeFails(c)
    PROVE  HttpIInv'
<1> USE DEF HttpIInv, EncodeFails
<1>1. NoRecord \in Record /\ NoRequest \in Handler
  BY HttpAssumption DEF NoRecord, Record, NoRequest, Request, Handler
<1>2. /\ \A d \in Conns \ {c} : handler'[d] = handler[d]
      /\ handler'[c] = NoRequest /\ UNCHANGED <<records, answered, known>>
  BY DEF HttpTypeOK
<1>3. HttpTypeOK'
  <2>1. NoRequest.status = 0
    BY DEF NoRequest, Request
  <2>2. handler' \in [Conns -> Handler] /\ \A d \in Conns : handler'[d].status # 0 => handler'[d].at = "client"
    BY <1>1, <2>1, OneHandler
  <2>. QED
    BY <2>2 DEF HttpTypeOK, Handler
<1>4. \A d \in Conns : Appended(d)' => d # c /\ Appended(d)
  BY <1>2 DEF Appended, NoRequest, Request
<1>5. Numbered' /\ ToldIsKept' /\ PostsKept' /\ PostsDistinct'
  BY <1>2, <1>4 DEF Numbered, ToldIsKept, PostsKept, PostsDistinct
<1>6. GetsRight' /\ Routed'
  BY <1>2 DEF GetsRight, Routed, NoRequest, Request
<1>. QED
  BY <1>3, <1>5, <1>6

\* The invariant holds in every state.
LEMMA HttpInvariance == HttpSpec => []HttpIInv
<1>1. HttpIInv /\ [HttpNext]_httpVars => HttpIInv'
  <2> SUFFICES ASSUME HttpIInv, [HttpNext]_httpVars PROVE HttpIInv'
    OBVIOUS
  <2>1. CASE HttpNext
    BY <2>1, RequestInv, LogAppendInv, LogReadInv, EncodeInv, EncodeFailsInv DEF HttpNext
  <2>2. CASE UNCHANGED httpVars
    BY <2>2 DEF httpVars, HttpIInv, HttpTypeOK, Numbered, ToldIsKept, PostsKept, GetsRight,
                Routed, PostsDistinct, Appended
  <2>. QED
    BY <2>1, <2>2
<1>. QED
  BY <1>1, HttpInitInv, PTL DEF HttpSpec

-----------------------------------------------------------------------------
(* Theorems.                                                                *)

\* Every reachable state of the HTTP server has its type, and no handler goes on
\* after it has answered (http.go handleProduce, handleConsume).
THEOREM HttpTypeCorrect == HttpSpec => []HttpTypeOK
<1>1. HttpIInv => HttpTypeOK
  BY DEF HttpIInv
<1>. QED
  BY <1>1, HttpInvariance, PTL

\* Clients agree on the log: what one was told of, another one finds, in the order
\* of the answers (http.go handleProduce, handleConsume, log.go Append, Read).
THEOREM ClientsAgree == HttpSpec => []AnswersAgree
<1>1. ASSUME HttpIInv PROVE AnswersAgree
  <2> USE <1>1 DEF HttpIInv
  <2>1. ASSUME NEW c \in Conns, handler[c].method = "GET", handler[c].status = 200
        PROVE  /\ handler[c].rec.offset = handler[c].offset
               /\ \A r \in answered : r.offset = handler[c].offset => r = handler[c].rec
    <3>1. /\ handler[c].offset \in Nat /\ handler[c].offset < Len(records)
          /\ handler[c].rec = records[handler[c].offset + 1]
      BY <2>1 DEF GetsRight, HttpTypeOK
    <3>2. records[handler[c].offset + 1].offset = handler[c].offset
      BY <1>1, <3>1, NumberOf
    <3>. QED
      BY <3>1, <3>2 DEF ToldIsKept
  <2>2. \A c \in Conns : handler[c].method = "GET" /\ handler[c].status = 404 =>
            \A r \in known[c] : r.offset # handler[c].offset
    BY DEF GetsRight
  <2>3. \A c \in Conns : handler[c].method = "POST" /\ handler[c].status = 200 =>
            /\ \A r \in known[c] : r.offset < handler[c].offset
            /\ \A d \in Conns \ {c} : handler[d].method = "POST" /\ handler[d].status = 200 =>
                   handler[c].offset # handler[d].offset
    <3>1. \A c \in Conns : handler[c].method = "POST" /\ handler[c].status = 200 => Appended(c)
      BY DEF Appended
    <3>2. \A c \in Conns : Appended(c) => \A r \in known[c] : r.offset < handler[c].offset
      BY DEF PostsKept
    <3>3. \A c, d \in Conns :
              c # d /\ Appended(c) /\ Appended(d) => handler[c].offset # handler[d].offset
      BY DEF PostsDistinct
    <3>. QED
      BY ONLY <3>1, <3>2, <3>3
  <2>. QED
    BY <2>1, <2>2, <2>3 DEF AnswersAgree
<1>. QED
  BY <1>1, HttpInvariance, PTL

\* The Log in memory implements the commit log: appending is the abstract append,
\* every other step a stutter (log.go Append, Read).
THEOREM HttpRefinement == HttpSpec => ImplementsCommitLog
<1>1. HttpInit => Abstract!Init
  BY DEF HttpInit, Abstract!Init, Entries
<1>2. ASSUME HttpIInv, [HttpNext]_httpVars PROVE [Abstract!Next]_(Abstract!vars)
  <2>1. ASSUME NEW c \in Conns, LogAppend(c) PROVE Abstract!Next
    <3> DEFINE n == Len(records)
               v == handler[c].rec.value
    <3>1. n \in Nat /\ v \in Values /\ handler[c].rec \in Record
      BY <1>2 DEF HttpIInv, HttpTypeOK, Record
    <3>2. /\ Len(records') = n + 1 /\ records'[n + 1].value = v
          /\ \A i \in 1 .. n : records'[i] = records[i]
      BY <1>2, <2>1, <3>1 DEF LogAppend, HttpIInv, HttpTypeOK, Record
    <3>3. Entries' = [o \in DOMAIN Entries \cup {n} |-> IF o = n THEN v ELSE Entries[o]]
      <4>1. 0 .. Len(records') - 1 = (0 .. n - 1) \cup {n}
        BY <3>1, <3>2
      <4>2. \A o \in 0 .. n - 1 : records'[o + 1] = records[o + 1] /\ o # n
        BY <3>1, <3>2
      <4>. QED
        BY <3>2, <4>1, <4>2 DEF Entries
    <3>. QED
      BY <3>1, <3>2, <3>3 DEF Abstract!Next, Abstract!Append
  <2>2. ASSUME UNCHANGED records PROVE UNCHANGED Abstract!vars
    BY <2>2 DEF Abstract!vars, Entries
  <2>3. CASE HttpNext
    <3>1. PICK c \in Conns : \/ Post(c) \/ Get(c) \/ BadRequest(c)
                             \/ LogAppend(c) \/ LogRead(c) \/ Encode(c) \/ EncodeFails(c)
      BY <2>3 DEF HttpNext
    <3>2. LogAppend(c) \/ UNCHANGED records
      BY <3>1 DEF Post, Get, BadRequest, Asks, LogRead, Encode, EncodeFails
    <3>. QED
      BY <2>1, <2>2, <3>2
  <2>4. CASE UNCHANGED httpVars
    BY <2>2, <2>4 DEF httpVars
  <2>. QED
    BY <1>2, <2>3, <2>4
<1>. QED
  BY <1>1, <1>2, HttpInvariance, PTL DEF HttpSpec, ImplementsCommitLog, Abstract!Spec
=============================================================================
