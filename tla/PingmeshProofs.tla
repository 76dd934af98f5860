--------------------------- MODULE PingmeshProofs ---------------------------
(***************************************************************************)
(* Proofs about pings, for any endpoints, pairs, interval and end of the   *)
(* run, and a network that loses, delays and reorders at will.             *)
(***************************************************************************)
EXTENDS Pingmesh, TLAPS, FiniteSetTheorems, SequenceTheorems

Stamps == [request : Int, reply : Int, receive : Int]

TypeInv ==
    /\ endpoints \in EndpointSets /\ pairs \subseteq Pairs(endpoints)
    /\ interval \in Nat \ {0} /\ endTime \in Nat
    /\ stamps \in [pairs -> Seq(Stamps)]

(* When ping number i of a pair leaves, counted from 0. *)
SendTime(p, i) == StartOf(p) + i * interval

(* The clients of p's source that start before that of p. *)
Rank(p) == {q \in pairs : q[1] = p[1] /\ Earlier(q, p)}
-----------------------------------------------------------------------------
LEMMA Times ==
    ASSUME NEW n \in Nat, NEW g \in Nat
    PROVE  n * g \in Nat /\ (n + 1) * g = n * g + g /\ 0 * g = 0 /\ 1 * g = g
OBVIOUS

LEMMA TimesMore ==
    ASSUME NEW m \in Nat, NEW n \in Nat, NEW g \in Nat, m <= n
    PROVE  m * g <= n * g
<1>1. PICK d \in Nat : n = m + d
  <2>1. n - m \in Nat /\ n = m + (n - m) OBVIOUS
  <2> QED BY <2>1
<1>2. n * g = m * g + d * g BY <1>1
<1>3. m * g \in Nat /\ d * g \in Nat BY Times
<1> QED BY <1>2, <1>3

LEMMA TimesStrict ==
    ASSUME NEW m \in Nat, NEW n \in Nat, NEW g \in Nat, m < n
    PROVE  m * g + g <= n * g
<1>1. m + 1 \in Nat /\ m + 1 <= n OBVIOUS
<1>2. (m + 1) * g <= n * g BY <1>1, TimesMore
<1>3. (m + 1) * g = m * g + g BY Times
<1> QED BY <1>2, <1>3

LEMMA Division ==
    ASSUME NEW a \in Nat, NEW m \in Nat \ {0}
    PROVE  /\ a \div m \in Nat /\ m * (a \div m) <= a
           /\ m <= a => a \div m >= 1
<1>1. a \div m \in Int /\ a % m \in 0..(m - 1) /\ a = m * (a \div m) + (a % m) BY SMTT(30)
<1> DEFINE d == a \div m
           r == a % m
<1>2. d \in Int /\ r \in Nat /\ r < m /\ a = m * d + r BY <1>1
<1> HIDE DEF d, r
<1>3. d \in Nat
  <2>1. CASE d >= 0 BY <1>2, <2>1
  <2>2. CASE d < 0
    <3>1. PICK k \in Nat : d = 0 - (k + 1)
      <4>1. 0 - d - 1 \in Nat /\ d = 0 - ((0 - d - 1) + 1) BY <1>2, <2>2
      <4> QED BY <4>1
    <3>2. m * d = 0 - (k * m + m) BY <3>1
    <3>3. k * m \in Nat BY Times
    <3> QED BY <1>2, <3>2, <3>3
  <2> QED BY <1>2, <2>1, <2>2
<1>4. m <= a => d # 0
  <2>1. m * 0 = 0 OBVIOUS
  <2> QED BY <1>2, <2>1
<1>5. m * d <= a /\ (m <= a => d >= 1)
  <2>1. m * d \in Nat BY <1>3
  <2> QED BY <1>2, <1>3, <1>4, <2>1
<1> QED BY <1>3, <1>5 DEF d

(* Times in different intervals, or at different places in theirs, differ. *)
LEMMA PlacesInIntervals ==
    ASSUME NEW a \in Nat, NEW b \in Nat, NEW g \in Nat, a < g, b < g,
           NEW m \in Nat, NEW n \in Nat, a + m * g = b + n * g
    PROVE  a = b
<1>1. m * g \in Nat /\ n * g \in Nat BY Times
<1>2. m < n => m * g + g <= n * g BY TimesStrict
<1>3. n < m => n * g + g <= m * g BY TimesStrict
<1>4. m < n \/ n < m \/ m = n OBVIOUS
<1> DEFINE x == m * g
           y == n * g
<1>5. m < n => FALSE
  <2> HIDE DEF x, y
  <2> QED BY <1>1, <1>2 DEF x, y
<1>6. n < m => FALSE BY <1>1, <1>3
<1> QED BY <1>1, <1>4, <1>5, <1>6
-----------------------------------------------------------------------------
LEMMA PairFacts ==
    ASSUME TypeInv, NEW p \in pairs
    PROVE  /\ p = <<p[1], p[2]>> /\ p[1] \in endpoints /\ p[2] \in endpoints /\ p[1] # p[2]
           /\ p[1] \in Nat /\ p[2] \in Nat
           /\ IsFiniteSet(endpoints) /\ Cardinality(endpoints) \in Nat
           /\ IsFiniteSet(endpoints \ {p[1], p[2]})
           /\ Cardinality(endpoints \ {p[1], p[2]}) = Cardinality(endpoints) - 2
           /\ Cardinality(endpoints) >= 2
<1>1. /\ p = <<p[1], p[2]>> /\ p[1] \in endpoints /\ p[2] \in endpoints /\ p[1] # p[2]
  BY DEF TypeInv, Pairs
<1>2. IsFiniteSet(endpoints) /\ endpoints \subseteq Nat BY PingAssumption DEF TypeInv
<1>3. Cardinality(endpoints) \in Nat BY <1>2, FS_CardinalityType
<1> DEFINE S == endpoints \ {p[1]}
           T == S \ {p[2]}
<1>4. IsFiniteSet(S) /\ Cardinality(S) = Cardinality(endpoints) - 1
  BY <1>1, <1>2, FS_RemoveElement
<1>5. p[2] \in S BY <1>1
<1> HIDE DEF S
<1>6. IsFiniteSet(T) /\ Cardinality(T) = Cardinality(S) - 1 BY <1>4, <1>5, FS_RemoveElement
<1>7. Cardinality(T) \in Nat BY <1>6, FS_CardinalityType
<1>8. T = endpoints \ {p[1], p[2]} BY DEF S
<1> QED BY <1>1, <1>2, <1>3, <1>4, <1>6, <1>7, <1>8

LEMMA RankFacts ==
    ASSUME TypeInv, NEW p \in pairs
    PROVE  /\ IsFiniteSet(Rank(p)) /\ Cardinality(Rank(p)) \in Nat
           /\ Cardinality(Rank(p)) <= Cardinality(endpoints) - 2
<1> DEFINE S == Rank(p)
           T == endpoints \ {p[1], p[2]}
           f == [q \in S |-> q[2]]
<1>1. \A q \in S : /\ q \in pairs /\ q = <<q[1], q[2]>> /\ q[1] = p[1] /\ q[2] < p[2]
                   /\ q[2] \in endpoints /\ q[1] # q[2] /\ q[2] \in Nat /\ p[2] \in Nat
                   /\ p[1] \in Nat
  <2>1. SUFFICES ASSUME NEW q \in pairs, q[1] = p[1], Earlier(q, p)
                 PROVE  /\ q = <<q[1], q[2]>> /\ q[2] < p[2]
                        /\ q[2] \in endpoints /\ q[1] # q[2] /\ q[2] \in Nat /\ p[2] \in Nat
                        /\ p[1] \in Nat
    BY DEF Rank
  <2>2. /\ q = <<q[1], q[2]>> /\ q[2] \in endpoints /\ q[1] # q[2] /\ q[2] \in Nat
        /\ p[2] \in Nat /\ p[1] \in Nat
    BY PairFacts
  <2>3. q[2] < p[2] BY <2>1, <2>2 DEF Earlier
  <2> QED BY <2>2, <2>3
<1>2. \A q \in S : q[2] \in T
  <2>1. \A q \in S : q[2] # p[2] BY <1>1
  <2> QED BY <1>1, <2>1
<1>3. f \in [S -> T] BY <1>2
<1>4. \A q, r \in S : f[q] = f[r] => q = r BY <1>1
<1>5. IsFiniteSet(T) /\ Cardinality(T) = Cardinality(endpoints) - 2 BY PairFacts
<1> HIDE DEF S, T, f
<1>6. DOMAIN f = S BY <1>3
<1>7. f \in Injection(S, T) BY <1>3, <1>4, <1>6 DEF Injection, IsInjective
<1>8. IsFiniteSet(S) /\ Cardinality(S) <= Cardinality(T) BY <1>5, <1>7, FS_Injection
<1>9. Cardinality(S) \in Nat BY <1>8, FS_CardinalityType
<1> QED BY <1>5, <1>8, <1>9 DEF S

LEMMA StartOfFacts ==
    ASSUME TypeInv, NEW p \in pairs
    PROVE  /\ InBetween \in Nat /\ StartOf(p) = Cardinality(Rank(p)) * InBetween
           /\ StartOf(p) \in Nat /\ StartOf(p) < interval
           /\ Cardinality(endpoints) <= interval + 1 => InBetween >= 1
<1> DEFINE n == Cardinality(endpoints)
           k == Cardinality(Rank(p))
           m == n - 1
           d == InBetween
<1>1. n \in Nat /\ n >= 2 /\ k \in Nat /\ k <= n - 2 /\ interval \in Nat \ {0}
  BY PairFacts, RankFacts DEF TypeInv
<1>2. m \in Nat \ {0} /\ k < m /\ (n <= interval + 1 => m <= interval) BY <1>1
<1>3. d = interval \div m BY DEF InBetween
<1>4. StartOf(p) = k * d BY DEF StartOf, Rank
<1> HIDE DEF n, k, m, d
<1>5. d \in Nat /\ m * d <= interval /\ (m <= interval => d >= 1) BY <1>1, <1>2, <1>3, Division
<1>6. k * d + d <= m * d BY <1>2, <1>1, <1>5, TimesStrict
<1>7. k * d \in Nat /\ m * d \in Nat BY <1>1, <1>2, <1>5, Times
<1>8. d = 0 => k * d = 0 BY <1>1
<1>9. k * d < interval BY <1>1, <1>5, <1>6, <1>7, <1>8
<1> QED BY <1>2, <1>4, <1>5, <1>7, <1>9 DEF n, k, d

LEMMA StartsDiffer ==
    ASSUME TypeInv, NEW p \in pairs, NEW q \in pairs, p # q, p[1] = q[1],
           Cardinality(endpoints) <= interval + 1
    PROVE  StartOf(p) # StartOf(q)
<1>1. ASSUME NEW a \in pairs, NEW b \in pairs, a[1] = b[1], a[2] < b[2]
      PROVE  StartOf(a) # StartOf(b)
  <2> DEFINE S == Rank(a)
             T == Rank(b)
             d == InBetween
  <2>1. S \subseteq T /\ a \in T /\ a \notin S
    <3>1. \A c \in pairs : c[1] \in Nat /\ c[2] \in Nat BY PairFacts
    <3> QED BY <1>1, <3>1 DEF Rank, Earlier
  <2>2. IsFiniteSet(T) /\ Cardinality(S) \in Nat /\ Cardinality(T) \in Nat BY RankFacts
  <2>3. StartOf(a) = Cardinality(S) * d /\ StartOf(b) = Cardinality(T) * d
        /\ d \in Nat /\ d >= 1
    BY StartOfFacts
  <2> HIDE DEF S, T, d
  <2>4. Cardinality(S) <= Cardinality(T) /\ Cardinality(S) # Cardinality(T)
    BY <2>1, <2>2, FS_Subset
  <2>5. Cardinality(S) < Cardinality(T) BY <2>2, <2>4
  <2>6. Cardinality(S) * d + d <= Cardinality(T) * d BY <2>2, <2>3, <2>5, TimesStrict
  <2>7. Cardinality(S) * d \in Nat /\ Cardinality(T) * d \in Nat BY <2>2, <2>3, Times
  <2> QED BY <2>3, <2>6, <2>7
<1>2. p[2] # q[2] BY PairFacts
<1>3. p[2] \in Nat /\ q[2] \in Nat BY PairFacts
<1>4. p[2] < q[2] \/ q[2] < p[2] BY <1>2, <1>3
<1> QED BY <1>1, <1>4
-----------------------------------------------------------------------------
(* Answers that came to ping number i of a pair, counted from 1, and what  *)
(* the client noted of it.                                                 *)
Own(p, i) == {t \in trips : t.pair = p /\ t.seq = i - 1}
TripInv(p, i) ==
    \/ Own(p, i) = {} /\ stamps[p][i].reply = -1
    \/ \E there, back \in Nat :
         /\ Own(p, i) = {[pair |-> p, seq |-> i - 1, there |-> there, back |-> back]}
         /\ stamps[p][i].reply = stamps[p][i].request + there
         /\ stamps[p][i].receive = stamps[p][i].reply + back
Sent(p, i) == p \in pairs /\ i \in 1..Len(stamps[p])
StampsInv == \A p \in pairs : \A i \in 1..Len(stamps[p]) :
    stamps[p][i].request = SendTime(p, i - 1) /\ TripInv(p, i)
TripsInv == \A t \in trips : t.seq \in Nat /\ Sent(t.pair, t.seq + 1)

(* The events of a run, each the only one of its kind. *)
Paces(e) == e.kind \in {"client", "send"}
Packet(e) == e.kind \in {"request", "reply"}
PaceOK(e) == Paces(e) =>
    e.pair \in pairs /\ e.ts = SendTime(e.pair, Len(stamps[e.pair]))
PacketOK(e) == Packet(e) =>
    e.seq \in Nat /\ Sent(e.pair, e.seq + 1) /\ Own(e.pair, e.seq + 1) = {}
RequestOK(e) == e.kind = "request" => \E there \in Nat :
    e.ways = <<there>> /\ e.ts = stamps[e.pair][e.seq + 1].request + there
ReplyOK(e) == e.kind = "reply" => \E there, back \in Nat :
    /\ e.ways = <<there, back>>
    /\ e.stamp = stamps[e.pair][e.seq + 1].request + there
    /\ e.ts = e.stamp + back
EventOK(e) ==
    (Paces(e) \/ Packet(e)) /\ PaceOK(e) /\ PacketOK(e) /\ RequestOK(e) /\ ReplyOK(e)
Alike(e, f) ==
    \/ Paces(e) /\ Paces(f) /\ e.pair = f.pair
    \/ Packet(e) /\ Packet(f) /\ e.pair = f.pair /\ e.seq = f.seq
Unique(evs) == \A e, f \in evs : Alike(e, f) => e = f

SetupInv == phase = "setup" =>
    events = {} /\ trips = {} /\ \A p \in pairs : stamps[p] = <<>>
RunInv == phase = "running" =>
    /\ \A e \in events : EventOK(e)
    /\ Unique(events)
    /\ \A p \in pairs : \E e \in events : Paces(e) /\ e.pair = p
StoppedInv == phase \in {"stopped", "written"} =>
    \A p \in pairs : endTime <= SendTime(p, Len(stamps[p]))
WrittenInv == phase = "written" =>
    results = [p \in pairs |-> [i \in DOMAIN stamps[p] |-> Row(stamps[p][i])]]

IInv ==
    /\ TypeInv /\ phase \in {"setup", "running", "stopped", "written", "failed"}
    /\ StampsInv /\ TripsInv /\ SetupInv /\ RunInv /\ StoppedInv /\ WrittenInv
-----------------------------------------------------------------------------
LEMMA Initially == Init => IInv
<1> SUFFICES ASSUME Init PROVE IInv OBVIOUS
<1>1. /\ endpoints \in EndpointSets /\ pairs \subseteq Pairs(endpoints)
      /\ interval \in Nat \ {0} /\ endTime \in Nat
      /\ stamps = [p \in pairs |-> <<>>] /\ trips = {} /\ phase = "setup" /\ events = {}
  BY PingAssumption DEF Init
<1>2. TypeInv BY <1>1 DEF TypeInv
<1>3. StampsInv /\ TripsInv /\ SetupInv BY <1>1 DEF StampsInv, TripsInv, SetupInv
<1>4. RunInv /\ StoppedInv /\ WrittenInv BY <1>1 DEF RunInv, StoppedInv, WrittenInv
<1> QED BY <1>1, <1>2, <1>3, <1>4 DEF IInv

LEMMA Unchanged ==
    ASSUME UNCHANGED config
    PROVE  /\ endpoints' = endpoints /\ pairs' = pairs /\ interval' = interval
           /\ endTime' = endTime
           /\ \A p : StartOf(p)' = StartOf(p)
           /\ \A p, i : SendTime(p, i)' = SendTime(p, i)
<1>1. endpoints' = endpoints /\ pairs' = pairs /\ interval' = interval /\ endTime' = endTime
  BY DEF config
<1>2. InBetween' = InBetween BY <1>1 DEF InBetween
<1>3. \A p : StartOf(p)' = StartOf(p) BY <1>1, <1>2 DEF StartOf
<1>4. \A p, i : SendTime(p, i)' = SendTime(p, i) BY <1>1, <1>3 DEF SendTime
<1> QED BY <1>1, <1>3, <1>4

LEMMA SendTimeFacts ==
    ASSUME TypeInv, NEW p \in pairs, NEW n \in Nat
    PROVE  /\ SendTime(p, n) \in Nat
           /\ SendTime(p, n + 1) = SendTime(p, n) + interval
           /\ SendTime(p, 0) = StartOf(p)
<1>1. StartOf(p) \in Nat /\ interval \in Nat BY StartOfFacts DEF TypeInv
<1>2. n * interval \in Nat /\ (n + 1) * interval = n * interval + interval
      /\ 0 * interval = 0
  BY <1>1, Times
<1> DEFINE s == StartOf(p)
<1>3. SendTime(p, n) = s + n * interval /\ SendTime(p, n + 1) = s + (n + 1) * interval
      /\ SendTime(p, 0) = s + 0 * interval
  BY DEF SendTime
<1> QED BY <1>1, <1>2, <1>3

LEMMA StampTypes ==
    ASSUME TypeInv, NEW p \in pairs
    PROVE  /\ Len(stamps[p]) \in Nat /\ stamps[p] \in Seq(Stamps)
           /\ DOMAIN stamps[p] = 1..Len(stamps[p])
           /\ \A i \in 1..Len(stamps[p]) :
                /\ stamps[p][i] \in Stamps /\ stamps[p][i].request \in Int
                /\ stamps[p][i].reply \in Int /\ stamps[p][i].receive \in Int
<1>1. stamps[p] \in Seq(Stamps) BY DEF TypeInv
<1>2. \A i \in 1..Len(stamps[p]) : stamps[p][i] \in Stamps BY <1>1
<1> QED BY <1>1, <1>2 DEF Stamps

LEMMA InstallKeeps == IInv /\ InstallApplications => IInv'
<1> SUFFICES ASSUME IInv, InstallApplications PROVE IInv' OBVIOUS
<1>1. /\ phase = "setup" /\ UNCHANGED config
      /\ stamps' = stamps /\ trips' = trips /\ results' = results
  BY DEF InstallApplications
<1>2. /\ endpoints' = endpoints /\ pairs' = pairs /\ interval' = interval
      /\ endTime' = endTime /\ \A p, i : SendTime(p, i)' = SendTime(p, i)
  BY <1>1, Unchanged
<1>3. /\ TypeInv /\ trips = {} /\ \A p \in pairs : stamps[p] = <<>>
  BY <1>1 DEF IInv, SetupInv
<1>4. TypeInv' BY <1>1, <1>2, <1>3 DEF TypeInv
<1>5. StampsInv' BY <1>1, <1>2, <1>3 DEF StampsInv
<1>6. TripsInv' BY <1>1, <1>3 DEF TripsInv
<1>7. CASE /\ phase' = "running"
           /\ events' = {[kind |-> "client", pair |-> p, ts |-> StartOf(p),
                          uid |-> Number(p)] : p \in pairs}
  <2>1. \A e \in events' : e.kind = "client" /\ e.pair \in pairs /\ e.ts = StartOf(e.pair)
    BY <1>7
  <2>2. \A e, f \in events' : e.pair = f.pair => e = f BY <1>7
  <2>3. ASSUME NEW p \in pairs PROVE \E e \in events' : e.kind = "client" /\ e.pair = p
    <3> DEFINE a == [kind |-> "client", pair |-> p, ts |-> StartOf(p), uid |-> Number(p)]
    <3>1. a \in events' /\ a.kind = "client" /\ a.pair = p BY <1>7
    <3> HIDE DEF a
    <3> QED BY <3>1
  <2>4. \A p \in pairs : SendTime(p, Len(stamps[p]))' = StartOf(p)
    <3> SUFFICES ASSUME NEW p \in pairs PROVE SendTime(p, Len(stamps[p]))' = StartOf(p)
      OBVIOUS
    <3>1. Len(stamps[p]) = 0 BY <1>3
    <3>2. SendTime(p, Len(stamps[p]))' = StartOf(p) + 0 * interval
      BY <1>1, <1>2, <1>3, <3>1, Unchanged DEF SendTime
    <3>3. StartOf(p) + 0 * interval = SendTime(p, 0) BY DEF SendTime
    <3> QED BY <1>3, <3>2, <3>3, SendTimeFacts
  <2>5. ASSUME NEW e \in events' PROVE EventOK(e)'
    <3>1. Paces(e) /\ ~Packet(e) /\ e.kind # "request" /\ e.kind # "reply"
      BY <2>1 DEF Paces, Packet
    <3>2. PaceOK(e)' BY <1>2, <2>1, <2>4 DEF PaceOK
    <3> QED BY <3>1, <3>2 DEF EventOK, PacketOK, RequestOK, ReplyOK, Packet, Paces
  <2>6. Unique(events') BY <2>1, <2>2 DEF Unique, Alike, Packet
  <2>7. RunInv' BY <1>2, <2>3, <2>5, <2>6 DEF RunInv, Paces, Unique
  <2> QED BY <1>4, <1>5, <1>6, <1>7, <2>7 DEF IInv, SetupInv, StoppedInv, WrittenInv
<1>8. CASE phase' = "failed"
  BY <1>4, <1>5, <1>6, <1>8 DEF IInv, SetupInv, RunInv, StoppedInv, WrittenInv
<1> QED BY <1>7, <1>8 DEF InstallApplications

LEMMA SameStamps ==
    ASSUME IInv, UNCHANGED config, stamps' = stamps, trips' = trips
    PROVE  /\ TypeInv' /\ StampsInv' /\ TripsInv'
           /\ \A f : EventOK(f) => EventOK(f)'
<1>1. /\ endpoints' = endpoints /\ pairs' = pairs /\ interval' = interval
      /\ endTime' = endTime /\ \A p, i : SendTime(p, i)' = SendTime(p, i)
      /\ \A p : StartOf(p)' = StartOf(p)
  BY Unchanged
<1>2. TypeInv' BY <1>1 DEF IInv, TypeInv
<1>3. StampsInv' BY <1>1 DEF IInv, StampsInv, TripInv, Own
<1>4. TripsInv' BY <1>1 DEF IInv, TripsInv, Sent
<1>5. ASSUME NEW f, EventOK(f) PROVE EventOK(f)'
  <2>1. PaceOK(f)' BY <1>1, <1>5 DEF EventOK, PaceOK, SendTime
  <2>2. PacketOK(f)' BY <1>1, <1>5 DEF EventOK, PacketOK, Sent, Own
  <2>3. RequestOK(f)' /\ ReplyOK(f)' BY <1>5 DEF EventOK, RequestOK, ReplyOK
  <2> QED BY <1>5, <2>1, <2>2, <2>3 DEF EventOK
<1> QED BY <1>2, <1>3, <1>4, <1>5

(* What is left to show of a step of a running program. *)
LEMMA RunningKeeps ==
    ASSUME IInv, UNCHANGED config, phase' = "running", TypeInv', StampsInv', TripsInv',
           \A e \in events' : EventOK(e)', Unique(events'),
           \A p \in pairs : \E e \in events' : Paces(e) /\ e.pair = p
    PROVE  IInv'
<1>1. pairs' = pairs BY Unchanged
<1>2. RunInv' BY <1>1 DEF RunInv, Unique
<1> QED BY <1>2 DEF IInv, SetupInv, StoppedInv, WrittenInv

LEMMA RunningFacts ==
    ASSUME IInv, phase = "running"
    PROVE  /\ TypeInv /\ StampsInv /\ TripsInv
           /\ \A e \in events : EventOK(e)
           /\ Unique(events)
           /\ \A p \in pairs : \E e \in events : Paces(e) /\ e.pair = p
BY DEF IInv, RunInv

LEMMA StartApplicationKeeps ==
    ASSUME IInv, NEW e \in events, StartApplication(e) PROVE IInv'
<1> DEFINE a == [kind |-> "send", pair |-> e.pair, ts |-> e.ts, uid |-> uid]
<1>1. /\ phase = "running" /\ phase' = "running" /\ UNCHANGED config /\ e.kind = "client"
      /\ events' = (events \ {e}) \cup {a} /\ stamps' = stamps /\ trips' = trips
  BY DEF StartApplication, Take
<1>2. /\ \A f \in events : EventOK(f)
      /\ Unique(events)
      /\ \A p \in pairs : \E f \in events : Paces(f) /\ f.pair = p
  BY <1>1, RunningFacts
<1>3. a.kind = "send" /\ a.pair = e.pair /\ a.ts = e.ts OBVIOUS
<1> HIDE DEF a
<1>4. Paces(e) /\ Paces(a) /\ ~Packet(a) BY <1>1, <1>3 DEF Paces, Packet
<1>5. EventOK(a)
  <2>1. PaceOK(a) BY <1>2, <1>3, <1>4 DEF EventOK, PaceOK
  <2> QED BY <1>3, <1>4, <2>1 DEF EventOK, PacketOK, RequestOK, ReplyOK
<1>6. TypeInv' /\ StampsInv' /\ TripsInv' BY <1>1, SameStamps
<1>7. \A f \in events' : EventOK(f)' BY <1>1, <1>2, <1>5, SameStamps
<1>8. Unique(events')
  <2> SUFFICES ASSUME NEW f \in events', NEW g \in events', Alike(f, g) PROVE f = g
    BY DEF Unique
  <2>1. CASE f # a /\ g # a BY <1>1, <1>2, <2>1 DEF Unique
  <2>2. \A h \in events \ {e} : ~ (Paces(h) /\ h.pair = e.pair)
    BY <1>2, <1>4 DEF Unique, Alike
  <2>3. CASE f = a BY <1>1, <1>3, <1>4, <2>2, <2>3 DEF Alike
  <2>4. CASE g = a BY <1>1, <1>3, <1>4, <2>2, <2>4 DEF Alike
  <2> QED BY <2>1, <2>3, <2>4
<1>9. ASSUME NEW p \in pairs PROVE \E f \in events' : Paces(f) /\ f.pair = p
  <2>1. PICK f \in events : Paces(f) /\ f.pair = p BY <1>2
  <2>2. CASE f = e BY <1>1, <1>3, <1>4, <2>1, <2>2
  <2>3. CASE f # e BY <1>1, <2>1, <2>3
  <2> QED BY <2>2, <2>3
<1> QED BY <1>1, <1>6, <1>7, <1>8, <1>9, RunningKeeps

LEMMA AnswerKeeps ==
    ASSUME IInv, NEW e \in events, Answer(e) PROVE IInv'
<1>1. /\ phase = "running" /\ phase' = "running" /\ UNCHANGED config /\ e.kind = "request"
      /\ stamps' = stamps /\ trips' = trips
  BY DEF Answer, Take
<1>2. /\ \A f \in events : EventOK(f)
      /\ Unique(events)
      /\ \A p \in pairs : \E f \in events : Paces(f) /\ f.pair = p
  BY <1>1, RunningFacts
<1>3. Packet(e) /\ ~Paces(e) BY <1>1 DEF Packet, Paces
<1>4. TypeInv' /\ StampsInv' /\ TripsInv' BY <1>1, SameStamps
<1>5. ASSUME NEW p \in pairs PROVE \E f \in events \ {e} : Paces(f) /\ f.pair = p
  BY <1>2, <1>3
<1>6. CASE events' = events \ {e}
  <2>1. \A f \in events' : EventOK(f)' BY <1>1, <1>2, <1>6, SameStamps
  <2>2. Unique(events') BY <1>2, <1>6 DEF Unique
  <2> QED BY <1>1, <1>4, <1>5, <1>6, <2>1, <2>2, RunningKeeps
<1>7. ASSUME NEW a \in Reply(e), events' = (events \ {e}) \cup {a} PROVE IInv'
  <2>1. EventOK(e) BY <1>2
  <2>2. PICK there \in Nat : e.ways = <<there>>
            /\ e.ts = stamps[e.pair][e.seq + 1].request + there
    BY <1>1, <2>1 DEF EventOK, RequestOK
  <2>3. e.seq \in Nat /\ Sent(e.pair, e.seq + 1) /\ Own(e.pair, e.seq + 1) = {}
    BY <1>3, <2>1 DEF EventOK, PacketOK
  <2>4. PICK delay \in Delay :
          a = [kind |-> "reply", pair |-> e.pair, seq |-> e.seq, stamp |-> e.ts,
               ways |-> <<e.ways[1], delay>>, ts |-> e.ts + delay, uid |-> uid]
    BY <1>7 DEF Reply
  <2>5. delay \in Nat BY PingAssumption
  <2>6. e.ways[1] = there BY <2>2
  <2>7. events' = (events \ {e}) \cup {a} BY <1>7
  <2>8. /\ a.kind = "reply" /\ a.pair = e.pair /\ a.seq = e.seq /\ a.stamp = e.ts
        /\ a.ways = <<e.ways[1], delay>> /\ a.ts = e.ts + delay
    BY <2>4
  <2>9. a.ways = <<there, delay>> BY <2>6, <2>8
  <2>10. Packet(a) /\ ~Paces(a) BY <2>8 DEF Packet, Paces
  <2>11. EventOK(a)
    <3>1. PacketOK(a) BY <2>3, <2>8 DEF PacketOK
    <3>2. ReplyOK(a) BY <2>2, <2>5, <2>8, <2>9 DEF ReplyOK
    <3> QED BY <2>8, <2>10, <3>1, <3>2 DEF EventOK, PaceOK, RequestOK
  <2>12. \A f \in events' : EventOK(f)' BY <1>1, <1>2, <2>7, <2>11, SameStamps
  <2>13. Unique(events')
    <3> SUFFICES ASSUME NEW f \in events', NEW g \in events', Alike(f, g) PROVE f = g
      BY DEF Unique
    <3>1. CASE f # a /\ g # a BY <1>2, <2>7, <3>1 DEF Unique
    <3>2. \A h \in events \ {e} : ~ (Packet(h) /\ h.pair = e.pair /\ h.seq = e.seq)
      BY <1>2, <1>3 DEF Unique, Alike
    <3>3. CASE f = a BY <2>7, <2>8, <2>10, <3>2, <3>3 DEF Alike
    <3>4. CASE g = a BY <2>7, <2>8, <2>10, <3>2, <3>4 DEF Alike
    <3> QED BY <3>1, <3>3, <3>4
  <2>14. \A p \in pairs : \E f \in events' : Paces(f) /\ f.pair = p BY <1>5, <2>7
  <2> QED BY <1>1, <1>4, <2>12, <2>13, <2>14, RunningKeeps
<1> QED BY <1>6, <1>7 DEF Answer, Transmit

LEMMA SendKeeps ==
    ASSUME IInv, NEW e \in events, Send(e) PROVE IInv'
<1> DEFINE p == e.pair
<1>1. PICK s, a, n :
         /\ s = [request |-> e.ts, reply |-> -1, receive |-> -1]
         /\ a = [kind |-> "send", pair |-> p, ts |-> e.ts + interval, uid |-> uid + 1]
         /\ n = Len(stamps[p])
  OBVIOUS
<1> DEFINE others == (events \ {e}) \cup {a}
<1>2. /\ phase = "running" /\ phase' = "running" /\ UNCHANGED config /\ e.kind = "send"
      /\ stamps' = [stamps EXCEPT ![p] = Append(@, s)] /\ trips' = trips
      /\ events' = others \/ \E r \in Request(e) : events' = others \cup {r}
  BY <1>1 DEF Send, Take, Transmit
<1>3. /\ TypeInv /\ StampsInv /\ TripsInv
      /\ \A f \in events : EventOK(f)
      /\ Unique(events)
      /\ \A q \in pairs : \E f \in events : Paces(f) /\ f.pair = q
  BY <1>2, RunningFacts
<1>4. /\ endpoints' = endpoints /\ pairs' = pairs /\ interval' = interval
      /\ endTime' = endTime /\ (\A q, i : SendTime(q, i)' = SendTime(q, i))
      /\ \A q : StartOf(q)' = StartOf(q)
  BY <1>2, Unchanged
<1>5. Paces(e) /\ ~Packet(e) BY <1>2 DEF Paces, Packet
<1>6. p \in pairs /\ e.ts = SendTime(p, n) BY <1>1, <1>3, <1>5 DEF EventOK, PaceOK
<1>7. /\ n \in Nat /\ stamps[p] \in Seq(Stamps) /\ e.ts \in Nat
      /\ e.ts + interval = SendTime(p, n + 1)
  BY <1>1, <1>3, <1>6, StampTypes, SendTimeFacts
<1>8. s \in Stamps /\ s.request = e.ts /\ s.reply = -1 BY <1>1, <1>7 DEF Stamps
<1>9. a.kind = "send" /\ a.pair = p /\ a.ts = e.ts + interval BY <1>1
<1>10. /\ stamps'[p] = Append(stamps[p], s)
      /\ \A q \in pairs : q # p => stamps'[q] = stamps[q]
  BY <1>2, <1>3, <1>6 DEF TypeInv
<1>11. /\ Append(stamps[p], s) \in Seq(Stamps) /\ Len(stamps'[p]) = n + 1
       /\ stamps'[p][n + 1] = s
       /\ \A i \in 1..n : stamps'[p][i] = stamps[p][i]
  BY <1>1, <1>7, <1>8, <1>10
<1>12. \A i \in 1..(n + 1) : i \in 1..n \/ i = n + 1 BY <1>7
<1>13. ASSUME NEW q, NEW i, Sent(q, i) PROVE Sent(q, i)' /\ stamps'[q][i] = stamps[q][i]
  <2>1. CASE q = p
    <3>1. i \in 1..n BY <1>1, <1>13, <2>1 DEF Sent
    <3>2. i \in 1..(n + 1) BY <1>7, <3>1
    <3> QED BY <1>4, <1>6, <1>11, <2>1, <3>1, <3>2 DEF Sent
  <2>2. CASE q # p BY <1>4, <1>10, <1>13, <2>2 DEF Sent
  <2> QED BY <2>1, <2>2
<1>14. TypeInv'
  <2>1. stamps' \in [pairs -> Seq(Stamps)] BY <1>2, <1>3, <1>6, <1>10, <1>11 DEF TypeInv
  <2> QED BY <1>3, <1>4, <2>1 DEF TypeInv
<1>15. TripsInv' BY <1>2, <1>3, <1>13 DEF TripsInv
<1>16. StampsInv'
  <2>1. ASSUME NEW q \in pairs, NEW i \in 1..Len(stamps[q])
        PROVE  stamps'[q][i].request = SendTime(q, i - 1) /\ TripInv(q, i)'
    <3>1. stamps'[q][i] = stamps[q][i] BY <1>13, <2>1 DEF Sent
    <3>2. stamps[q][i].request = SendTime(q, i - 1) /\ TripInv(q, i) BY <1>3 DEF StampsInv
    <3> QED BY <1>2, <3>1, <3>2 DEF TripInv, Own
  <2>2. stamps'[p][n + 1].request = SendTime(p, (n + 1) - 1)
    <3>1. (n + 1) - 1 = n BY <1>7
    <3> QED BY <1>1, <1>6, <1>8, <1>11, <3>1
  <2>3. TripInv(p, n + 1)'
    <3>1. \A t \in trips : ~ (t.pair = p /\ t.seq = (n + 1) - 1)
      <4> SUFFICES ASSUME NEW t \in trips, t.pair = p, t.seq = (n + 1) - 1 PROVE FALSE OBVIOUS
      <4>1. t.seq + 1 \in 1..n BY <1>1, <1>3 DEF TripsInv, Sent
      <4> QED BY <1>7, <4>1
    <3>2. Own(p, n + 1)' = {} BY <1>2, <3>1 DEF Own
    <3> QED BY <1>8, <1>11, <3>2 DEF TripInv
  <2>4. ASSUME NEW q \in pairs, NEW i \in 1..Len(stamps'[q])
        PROVE  stamps'[q][i].request = SendTime(q, i - 1) /\ TripInv(q, i)'
    <3>1. CASE q # p BY <1>10, <2>1, <3>1
    <3>2. CASE q = p
      <4>1. i \in 1..n \/ i = n + 1 BY <1>11, <1>12, <2>4, <3>2
      <4>2. CASE i \in 1..n BY <1>1, <2>1, <3>2, <4>2
      <4>3. CASE i = n + 1 BY <2>2, <2>3, <3>2, <4>3
      <4> QED BY <4>1, <4>2, <4>3
    <3> QED BY <3>1, <3>2
  <2> QED BY <1>4, <2>4 DEF StampsInv
<1>17. ASSUME NEW f \in events, f # e PROVE EventOK(f)'
  <2>1. EventOK(f) BY <1>3
  <2>2. PaceOK(f)'
    <3>1. Paces(f) => f.pair # p BY <1>3, <1>5, <1>17 DEF Unique, Alike
    <3> QED BY <1>4, <1>10, <2>1, <3>1 DEF EventOK, PaceOK, SendTime
  <2>3. PacketOK(f)' BY <1>2, <1>13, <2>1 DEF EventOK, PacketOK, Own
  <2>4. Packet(f) => stamps'[f.pair][f.seq + 1] = stamps[f.pair][f.seq + 1]
    BY <1>13, <2>1 DEF EventOK, PacketOK
  <2>5. RequestOK(f)' BY <2>1, <2>4 DEF EventOK, RequestOK, Packet
  <2>6. ReplyOK(f)' BY <2>1, <2>4 DEF EventOK, ReplyOK, Packet
  <2> QED BY <2>1, <2>2, <2>3, <2>5, <2>6 DEF EventOK
<1>18. Paces(a) /\ ~Packet(a) BY <1>9 DEF Paces, Packet
<1>19. EventOK(a)'
  <2>1. PaceOK(a)' BY <1>4, <1>6, <1>7, <1>9, <1>11 DEF PaceOK, SendTime
  <2> QED BY <1>9, <1>18, <2>1 DEF EventOK, PacketOK, RequestOK, ReplyOK
<1>20. \A f \in events \ {e} : ~ (Paces(f) /\ f.pair = p) BY <1>3, <1>5 DEF Unique, Alike
<1>21. Unique(others)
  <2> SUFFICES ASSUME NEW f \in others, NEW g \in others, Alike(f, g) PROVE f = g
    BY DEF Unique
  <2>1. CASE f # a /\ g # a BY <1>3, <2>1 DEF Unique
  <2>2. CASE f = a BY <1>9, <1>18, <1>20, <2>2 DEF Alike
  <2>3. CASE g = a BY <1>9, <1>18, <1>20, <2>3 DEF Alike
  <2> QED BY <2>1, <2>2, <2>3
<1>22. ASSUME NEW q \in pairs PROVE \E f \in others : Paces(f) /\ f.pair = q
  <2>1. PICK f \in events : Paces(f) /\ f.pair = q BY <1>3
  <2>2. CASE f = e BY <1>9, <1>18, <2>1, <2>2
  <2>3. CASE f # e BY <2>1, <2>3
  <2> QED BY <2>2, <2>3
<1>23. \A f \in others : EventOK(f)' BY <1>17, <1>19
<1> HIDE DEF others, p
<1>24. CASE events' = others
  BY <1>2, <1>14, <1>15, <1>16, <1>21, <1>22, <1>23, <1>24, RunningKeeps
<1>25. ASSUME NEW r \in Request(e), events' = others \cup {r} PROVE IInv'
  <2>1. PICK delay \in Delay :
          r = [kind |-> "request", pair |-> p, seq |-> n, stamp |-> e.ts,
               ways |-> <<delay>>, ts |-> e.ts + delay, uid |-> uid]
    BY <1>1 DEF Request, p
  <2>2. /\ r.kind = "request" /\ r.pair = p /\ r.seq = n /\ r.ways = <<delay>>
        /\ r.ts = e.ts + delay
    BY <2>1
  <2>3. delay \in Nat BY PingAssumption
  <2>4. Packet(r) /\ ~Paces(r) BY <2>2 DEF Packet, Paces
  <2>5. EventOK(r)'
    <3>1. Sent(p, n + 1)' BY <1>4, <1>6, <1>7, <1>11 DEF Sent
    <3>2. \A t \in trips : ~ (t.pair = p /\ t.seq = n)
      <4> SUFFICES ASSUME NEW t \in trips, t.pair = p, t.seq = n PROVE FALSE OBVIOUS
      <4>1. t.seq + 1 \in 1..n BY <1>1, <1>3 DEF TripsInv, Sent
      <4> QED BY <1>7, <4>1
    <3>3. (n + 1) - 1 = n BY <1>7
    <3>4. Own(p, n + 1)' = {} BY <1>2, <3>2, <3>3 DEF Own
    <3>5. PacketOK(r)' BY <1>7, <2>2, <3>1, <3>4 DEF PacketOK
    <3>6. RequestOK(r)'
      <4>1. stamps'[r.pair][r.seq + 1].request = e.ts BY <1>8, <1>11, <2>2
      <4> QED BY <2>2, <2>3, <4>1 DEF RequestOK
    <3> QED BY <2>2, <2>4, <3>5, <3>6 DEF EventOK, PaceOK, ReplyOK
  <2>6. \A f \in others : ~ (Packet(f) /\ f.pair = p /\ f.seq = n)
    <3> SUFFICES ASSUME NEW f \in others, Packet(f), f.pair = p, f.seq = n PROVE FALSE
      OBVIOUS
    <3>1. f \in events BY <1>18 DEF others
    <3>2. n + 1 \in 1..n BY <1>1, <1>3, <3>1 DEF EventOK, PacketOK, Sent
    <3> QED BY <1>7, <3>2
  <2>7. Unique(events')
    <3> SUFFICES ASSUME NEW f \in events', NEW g \in events', Alike(f, g) PROVE f = g
      BY DEF Unique
    <3>1. CASE f # r /\ g # r BY <1>21, <1>25, <3>1 DEF Unique
    <3>2. CASE f = r BY <1>25, <2>2, <2>4, <2>6, <3>2 DEF Alike
    <3>3. CASE g = r BY <1>25, <2>2, <2>4, <2>6, <3>3 DEF Alike
    <3> QED BY <3>1, <3>2, <3>3
  <2>8. \A f \in events' : EventOK(f)' BY <1>23, <1>25, <2>5
  <2>9. \A q \in pairs : \E f \in events' : Paces(f) /\ f.pair = q BY <1>22, <1>25
  <2> QED BY <1>2, <1>14, <1>15, <1>16, <2>7, <2>8, <2>9, RunningKeeps
<1> QED BY <1>2, <1>24, <1>25

LEMMA HandleReadKeeps ==
    ASSUME IInv, NEW e \in events, HandleRead(e) PROVE IInv'
<1> DEFINE p == e.pair
           k == e.seq + 1
           s == [request |-> stamps[p][k].request, reply |-> e.stamp, receive |-> e.ts]
           t == [pair |-> p, seq |-> e.seq, there |-> e.ways[1], back |-> e.ways[2]]
<1>1. /\ phase = "running" /\ phase' = "running" /\ UNCHANGED config /\ e.kind = "reply"
      /\ stamps' = [stamps EXCEPT ![p] = [stamps[p] EXCEPT ![k] = s]]
      /\ trips' = trips \cup {t} /\ events' = events \ {e}
  BY DEF HandleRead, Recorded, Take
<1>2. /\ TypeInv /\ StampsInv /\ TripsInv
      /\ \A f \in events : EventOK(f)
      /\ Unique(events)
      /\ \A q \in pairs : \E f \in events : Paces(f) /\ f.pair = q
  BY <1>1, RunningFacts
<1>3. /\ endpoints' = endpoints /\ pairs' = pairs /\ interval' = interval
      /\ endTime' = endTime /\ (\A q, i : SendTime(q, i)' = SendTime(q, i))
      /\ \A q : StartOf(q)' = StartOf(q)
  BY <1>1, Unchanged
<1>4. Packet(e) /\ ~Paces(e) BY <1>1 DEF Paces, Packet
<1>5. p \in pairs /\ k \in 1..Len(stamps[p]) /\ e.seq \in Nat /\ Own(p, k) = {} /\ k - 1 = e.seq
  <2>1. e.seq \in Nat /\ Sent(p, k) /\ Own(p, k) = {}
    BY <1>2, <1>4 DEF EventOK, PacketOK
  <2>2. k - 1 = e.seq BY <2>1
  <2> QED BY <2>1, <2>2 DEF Sent
<1>6. PICK there \in Nat, back \in Nat :
         /\ e.ways = <<there, back>>
         /\ e.stamp = stamps[p][k].request + there /\ e.ts = e.stamp + back
  BY <1>1, <1>2 DEF EventOK, ReplyOK
<1>7. stamps[p] \in Seq(Stamps) /\ Len(stamps[p]) \in Nat /\ stamps[p][k].request \in Int
  BY <1>2, <1>5, StampTypes
<1>8. /\ s \in Stamps /\ s.request = stamps[p][k].request /\ s.reply = e.stamp
      /\ s.receive = e.ts
  <2>1. \A x \in Int, a \in Nat : x + a \in Int OBVIOUS
  <2>2. e.stamp \in Int BY <1>6, <1>7, <2>1, Zenon
  <2>3. back \in Nat BY <1>6
  <2>4. e.ts \in Int BY <1>6, <2>1, <2>2, <2>3, Zenon
  <2> QED BY <1>7, <2>2, <2>4 DEF Stamps
<1>9. t = [pair |-> p, seq |-> k - 1, there |-> there, back |-> back]
      /\ t.pair = p /\ t.seq = k - 1
  BY <1>5, <1>6
<1> HIDE DEF s, t, k, p
<1>10. /\ stamps'[p] = [stamps[p] EXCEPT ![k] = s]
       /\ \A q \in pairs : q # p => stamps'[q] = stamps[q]
  BY <1>1, <1>2, <1>5 DEF TypeInv
<1>11. /\ [stamps[p] EXCEPT ![k] = s] \in Seq(Stamps) /\ Len(stamps'[p]) = Len(stamps[p])
       /\ \A i \in 1..Len(stamps[p]) : stamps'[p][i] = IF i = k THEN s ELSE stamps[p][i]
  BY <1>5, <1>7, <1>8, <1>10, ExceptSeq
<1>12. \A q \in pairs : Len(stamps'[q]) = Len(stamps[q]) BY <1>10, <1>11
<1>13. ASSUME NEW q \in pairs, NEW i \in 1..Len(stamps[q])
       PROVE  /\ stamps'[q][i].request = stamps[q][i].request
              /\ ~ (q = p /\ i = k) => stamps'[q][i] = stamps[q][i]
  BY <1>8, <1>10, <1>11
<1>14. \A q, i : Sent(q, i) <=> Sent(q, i)' BY <1>3, <1>12 DEF Sent
<1>15. TypeInv'
  <2>1. stamps' \in [pairs -> Seq(Stamps)] BY <1>1, <1>2, <1>5, <1>10, <1>11 DEF TypeInv
  <2> QED BY <1>2, <1>3, <2>1 DEF TypeInv
<1>16. TripsInv'
  <2>1. t.seq \in Nat /\ Sent(t.pair, t.seq + 1)
    <3>1. k - 1 \in Nat /\ (k - 1) + 1 = k BY <1>5, <1>7
    <3> QED BY <1>5, <1>9, <3>1 DEF Sent
  <2> QED BY <1>1, <1>2, <1>14, <2>1 DEF TripsInv
<1>17. ASSUME NEW q \in pairs, NEW i \in 1..Len(stamps[q]), ~ (q = p /\ i = k)
       PROVE  Own(q, i)' = Own(q, i)
  <2>1. ~ (t.pair = q /\ t.seq = i - 1)
    <3>1. k \in Int /\ i \in Int BY <1>5
    <3>2. k - 1 = i - 1 => k = i BY <3>1
    <3> QED BY <1>9, <1>17, <3>2
  <2> QED BY <1>1, <2>1 DEF Own
<1>18. Own(p, k)' = {t} BY <1>1, <1>5, <1>9 DEF Own
<1>19. StampsInv'
  <2>1. ASSUME NEW q \in pairs, NEW i \in 1..Len(stamps[q])
        PROVE  stamps'[q][i].request = SendTime(q, i - 1) /\ TripInv(q, i)'
    <3>1. stamps[q][i].request = SendTime(q, i - 1) /\ TripInv(q, i) BY <1>2 DEF StampsInv
    <3>2. stamps'[q][i].request = SendTime(q, i - 1) BY <1>13, <3>1
    <3>3. CASE q = p /\ i = k
      <4>1. stamps'[p][k] = s BY <1>5, <1>11
      <4> QED BY <1>6, <1>8, <1>9, <1>18, <3>2, <3>3, <4>1 DEF TripInv
    <3>4. CASE ~ (q = p /\ i = k)
      <4>1. stamps'[q][i] = stamps[q][i] /\ Own(q, i)' = Own(q, i) BY <1>13, <1>17, <3>4
      <4>2. TripInv(q, i)' BY <3>1, <4>1 DEF TripInv
      <4> QED BY <3>2, <4>2
    <3> QED BY <3>3, <3>4
  <2> QED BY <1>3, <1>12, <2>1 DEF StampsInv
<1>20. ASSUME NEW f \in events' PROVE EventOK(f)'
  <2>1. EventOK(f) /\ f \in events /\ f # e BY <1>1, <1>2
  <2>2. PaceOK(f)' BY <1>3, <1>12, <2>1 DEF EventOK, PaceOK, SendTime
  <2>3. Packet(f) => /\ f.pair \in pairs /\ f.seq + 1 \in 1..Len(stamps[f.pair])
                     /\ ~ (f.pair = p /\ f.seq + 1 = k) /\ f.seq \in Nat
    <3> SUFFICES ASSUME Packet(f)
                 PROVE  /\ f.pair \in pairs /\ f.seq + 1 \in 1..Len(stamps[f.pair])
                        /\ ~ (f.pair = p /\ f.seq + 1 = k) /\ f.seq \in Nat
      OBVIOUS
    <3>1. /\ f.pair \in pairs /\ f.seq + 1 \in 1..Len(stamps[f.pair]) /\ f.seq \in Nat
      BY <2>1 DEF EventOK, PacketOK, Sent
    <3>2. ~ (f.pair = p /\ f.seq = e.seq) BY <1>2, <1>4, <2>1 DEF Unique, Alike, p
    <3>3. f.seq + 1 = k => f.seq = e.seq BY <1>5, <3>1 DEF k
    <3> QED BY <3>1, <3>2, <3>3
  <2>4. PacketOK(f)' BY <1>14, <1>17, <2>1, <2>3 DEF EventOK, PacketOK
  <2>5. Packet(f) => stamps'[f.pair][f.seq + 1] = stamps[f.pair][f.seq + 1]
    BY <1>13, <2>3
  <2>6. RequestOK(f)' BY <2>1, <2>5 DEF EventOK, RequestOK, Packet
  <2>7. ReplyOK(f)' BY <2>1, <2>5 DEF EventOK, ReplyOK, Packet
  <2> QED BY <2>1, <2>2, <2>4, <2>6, <2>7 DEF EventOK
<1>21. Unique(events') BY <1>1, <1>2 DEF Unique
<1>22. \A q \in pairs : \E f \in events' : Paces(f) /\ f.pair = q BY <1>1, <1>2, <1>4
<1> QED BY <1>1, <1>15, <1>16, <1>19, <1>20, <1>21, <1>22, RunningKeeps

LEMMA StopKeeps == IInv /\ Stop => IInv'
<1> SUFFICES ASSUME IInv, Stop PROVE IInv' OBVIOUS
<1>1. /\ phase = "running" /\ phase' = "stopped" /\ UNCHANGED config
      /\ stamps' = stamps /\ trips' = trips /\ NothingLeft(events, endTime)
  BY DEF Stop
<1>2. /\ \A f \in events : EventOK(f)
      /\ \A q \in pairs : \E f \in events : Paces(f) /\ f.pair = q
  BY <1>1, RunningFacts
<1>3. endTime' = endTime /\ pairs' = pairs /\ \A q : StartOf(q)' = StartOf(q)
      /\ interval' = interval
  BY <1>1, Unchanged
<1>4. TypeInv' /\ StampsInv' /\ TripsInv' BY <1>1, SameStamps
<1>5. ASSUME NEW p \in pairs PROVE endTime <= SendTime(p, Len(stamps[p]))
  <2>1. PICK f \in events : Paces(f) /\ f.pair = p BY <1>2
  <2>2. f.ts = SendTime(p, Len(stamps[p])) BY <1>2, <2>1 DEF EventOK, PaceOK
  <2>3. endTime <= f.ts BY <1>1, <2>1 DEF NothingLeft
  <2> QED BY <2>2, <2>3
<1>6. StoppedInv' BY <1>1, <1>3, <1>5 DEF StoppedInv, SendTime
<1> QED BY <1>1, <1>4, <1>6 DEF IInv, SetupInv, RunInv, WrittenInv

LEMMA WriteResultsKeeps == IInv /\ WriteResults => IInv'
<1> SUFFICES ASSUME IInv, WriteResults PROVE IInv' OBVIOUS
<1>1. /\ phase = "stopped" /\ phase' = "written" /\ UNCHANGED config
      /\ stamps' = stamps /\ trips' = trips
      /\ results' = [p \in pairs |-> [i \in DOMAIN stamps[p] |-> Row(stamps[p][i])]]
  BY DEF WriteResults
<1>2. endTime' = endTime /\ pairs' = pairs /\ interval' = interval
      /\ \A q : StartOf(q)' = StartOf(q)
  BY <1>1, Unchanged
<1>3. TypeInv' /\ StampsInv' /\ TripsInv' BY <1>1, SameStamps
<1>4. StoppedInv' BY <1>1, <1>2 DEF IInv, StoppedInv, SendTime
<1>5. WrittenInv' BY <1>1, <1>2 DEF WrittenInv, Row
<1> QED BY <1>1, <1>3, <1>4, <1>5 DEF IInv, SetupInv, RunInv

LEMMA InvariantPreserved == IInv /\ [Next]_vars => IInv'
<1> SUFFICES ASSUME IInv, [Next]_vars PROVE IInv' OBVIOUS
<1>1. CASE UNCHANGED vars
  <2>1. /\ UNCHANGED config /\ phase' = phase /\ events' = events /\ stamps' = stamps
        /\ trips' = trips /\ results' = results
    BY <1>1 DEF vars
  <2>2. endTime' = endTime /\ pairs' = pairs /\ interval' = interval
        /\ \A q : StartOf(q)' = StartOf(q)
    BY <2>1, Unchanged
  <2>3. TypeInv' /\ StampsInv' /\ TripsInv' BY <2>1, SameStamps
  <2>4. SetupInv' BY <2>1, <2>2 DEF IInv, SetupInv
  <2>5. RunInv'
    <3> SUFFICES ASSUME phase = "running" PROVE RunInv' BY <2>1 DEF RunInv
    <3>1. /\ \A f \in events : EventOK(f)
          /\ Unique(events)
          /\ \A q \in pairs : \E f \in events : Paces(f) /\ f.pair = q
      BY RunningFacts
    <3>2. \A f \in events' : EventOK(f)' BY <2>1, <3>1, SameStamps
    <3> QED BY <2>1, <2>2, <3>1, <3>2 DEF RunInv, Unique
  <2>6. StoppedInv' BY <2>1, <2>2 DEF IInv, StoppedInv, SendTime
  <2>7. WrittenInv' BY <2>1, <2>2 DEF IInv, WrittenInv, Row
  <2> QED BY <2>1, <2>3, <2>4, <2>5, <2>6, <2>7 DEF IInv
<1>2. CASE Next
  BY <1>2, InstallKeeps, StartApplicationKeeps, SendKeeps, AnswerKeeps, HandleReadKeeps,
     StopKeeps, WriteResultsKeeps, Zenon DEF Next, RunEvent
<1> QED BY <1>1, <1>2

LEMMA IInvAlways == Spec => []IInv
BY Initially, InvariantPreserved, PTL DEF Spec
-----------------------------------------------------------------------------
(***************************************************************************)
(* The latencies in pingmesh.csv are those of each ping's own way there    *)
(* and back, and a ping counts as arrived exactly if its answer came.      *)
(***************************************************************************)
THEOREM PingRttIsRoundTrip == Spec => []RttIsRoundTrip
<1>1. ASSUME IInv, phase = "written", NEW p \in pairs, NEW i \in DOMAIN results[p]
      PROVE  IF Own(p, i) = {} THEN ~results[p][i].arrived
             ELSE Own(p, i) = {[pair |-> p, seq |-> i - 1, there |-> results[p][i].there,
                                back |-> results[p][i].back]}
  <2>1. TypeInv /\ TripInv(p, i) /\ i \in 1..Len(stamps[p]) /\ results[p][i] = Row(stamps[p][i])
    <3>1. TypeInv BY <1>1 DEF IInv
    <3>2. results[p] = [j \in DOMAIN stamps[p] |-> Row(stamps[p][j])] BY <1>1 DEF IInv, WrittenInv
    <3>3. DOMAIN stamps[p] = 1..Len(stamps[p]) BY <3>1, StampTypes
    <3>4. i \in 1..Len(stamps[p]) /\ results[p][i] = Row(stamps[p][i]) BY <3>2, <3>3
    <3> QED BY <1>1, <3>1, <3>4 DEF IInv, StampsInv
  <2>2. stamps[p][i].request \in Int BY <2>1, StampTypes
  <2>3. CASE Own(p, i) = {} /\ stamps[p][i].reply = -1
    <3>1. results[p][i] = [arrived |-> FALSE, there |-> -1, back |-> -1] BY <2>1, <2>3 DEF Row
    <3>2. results[p][i].arrived = FALSE BY <3>1
    <3> QED BY <2>3, <3>2
  <2>4. ASSUME NEW there \in Nat, NEW back \in Nat,
               Own(p, i) = {[pair |-> p, seq |-> i - 1, there |-> there, back |-> back]},
               stamps[p][i].reply = stamps[p][i].request + there,
               stamps[p][i].receive = stamps[p][i].reply + back,
               stamps[p][i].request >= 0
        PROVE  results[p][i].there = there /\ results[p][i].back = back
    <3>1. stamps[p][i].reply # -1 BY <2>2, <2>4
    <3>2. results[p][i] = [arrived |-> TRUE,
                           there |-> stamps[p][i].reply - stamps[p][i].request,
                           back |-> stamps[p][i].receive - stamps[p][i].reply]
      BY <2>1, <3>1 DEF Row
    <3>3. results[p][i].there = stamps[p][i].reply - stamps[p][i].request
          /\ results[p][i].back = stamps[p][i].receive - stamps[p][i].reply
      BY <3>2
    <3> QED BY <2>2, <2>4, <3>3
  <2>5. stamps[p][i].request >= 0
    <3>1. stamps[p][i].request = SendTime(p, i - 1) BY <1>1, <2>1 DEF IInv, StampsInv
    <3>2. i - 1 \in Nat BY <2>1
    <3>3. SendTime(p, i - 1) \in Nat BY <2>1, <3>2, SendTimeFacts
    <3> QED BY <3>1, <3>3
  <2> QED BY <2>1, <2>3, <2>4, <2>5 DEF TripInv
<1>2. IInv => RttIsRoundTrip BY <1>1 DEF RttIsRoundTrip, Own
<1> QED BY <1>2, IInvAlways, PTL

(***************************************************************************)
(* Each pair is pinged at one place of each interval to the end of the     *)
(* run, and no node sends two pings at one time if there is room for all.  *)
(***************************************************************************)
THEOREM PingPingsPaced == Spec => []PingsPaced
<1>1. ASSUME IInv, NEW p \in pairs, NEW i \in 1..Len(stamps[p])
      PROVE  /\ stamps[p][i].request = StartOf(p) + (i - 1) * interval
             /\ stamps[p][i].request = stamps[p][1].request + (i - 1) * interval
             /\ stamps[p][i].request < i * interval
  <2>1. TypeInv /\ \A j \in 1..Len(stamps[p]) : stamps[p][j].request = SendTime(p, j - 1)
    BY <1>1 DEF IInv, StampsInv
  <2>2. i \in Nat /\ i - 1 \in Nat /\ 1 \in 1..Len(stamps[p]) /\ (i - 1) + 1 = i /\ 1 - 1 = 0
    <3>1. Len(stamps[p]) \in Nat BY <2>1, StampTypes
    <3> QED BY <3>1
  <2>3. stamps[p][1].request = StartOf(p) BY <2>1, <2>2, SendTimeFacts
  <2>4. stamps[p][i].request = StartOf(p) + (i - 1) * interval BY <2>1 DEF SendTime
  <2>5. StartOf(p) \in Nat /\ StartOf(p) < interval /\ interval \in Nat
    BY <2>1, StartOfFacts DEF TypeInv
  <2>6. (i - 1) * interval \in Nat /\ i * interval = (i - 1) * interval + interval
    <3>1. \A n \in Nat : n * interval \in Nat /\ (n + 1) * interval = n * interval + interval
      BY <2>5, Times
    <3> QED BY <2>2, <3>1
  <2> QED BY <2>3, <2>4, <2>5, <2>6
<1>2. ASSUME IInv, NEW p \in pairs, phase \in {"stopped", "written"}
      PROVE  IF stamps[p] = <<>> THEN endTime < interval
             ELSE endTime <= stamps[p][Len(stamps[p])].request + interval
  <2>1. TypeInv /\ endTime <= SendTime(p, Len(stamps[p])) BY <1>2 DEF IInv, StoppedInv
  <2>2. StartOf(p) \in Nat /\ StartOf(p) < interval /\ interval \in Nat /\ endTime \in Nat
    BY <2>1, StartOfFacts DEF TypeInv
  <2>3. CASE stamps[p] = <<>>
    <3>1. Len(stamps[p]) = 0 BY <2>3
    <3>2. endTime <= StartOf(p) BY <2>1, <3>1, SendTimeFacts
    <3> QED BY <2>2, <2>3, <3>2
  <2>4. CASE stamps[p] # <<>>
    <3> DEFINE n == Len(stamps[p])
    <3>1. n \in Nat /\ n >= 1 BY <2>1, <2>4, StampTypes
    <3>2. n - 1 \in Nat /\ (n - 1) + 1 = n /\ n \in 1..n BY <3>1
    <3>3. SendTime(p, (n - 1) + 1) = SendTime(p, n - 1) + interval BY <2>1, <3>2, SendTimeFacts
    <3>4. stamps[p][n].request = SendTime(p, n - 1) BY <1>2, <3>2 DEF IInv, StampsInv
    <3> QED BY <2>1, <2>4, <3>2, <3>3, <3>4
  <2> QED BY <2>3, <2>4
<1>3. ASSUME IInv, NEW p \in pairs, NEW q \in pairs, p # q, p[1] = q[1],
             Cardinality(endpoints) <= interval + 1,
             NEW i \in 1..Len(stamps[p]), NEW j \in 1..Len(stamps[q])
      PROVE  stamps[p][i].request # stamps[q][j].request
  <2>1. TypeInv BY <1>3 DEF IInv
  <2>2. stamps[p][i].request = StartOf(p) + (i - 1) * interval
        /\ stamps[q][j].request = StartOf(q) + (j - 1) * interval
    BY <1>1, <1>3
  <2>3. StartOf(p) \in Nat /\ StartOf(p) < interval /\ StartOf(q) \in Nat /\ StartOf(q) < interval
        /\ interval \in Nat
    BY <2>1, StartOfFacts DEF TypeInv
  <2>4. StartOf(p) # StartOf(q) BY <1>3, <2>1, StartsDiffer
  <2>5. PICK m \in Nat : m = i - 1
    <3>1. i \in Int /\ i >= 1 BY <2>1, <1>3, StampTypes
    <3> QED BY <3>1
  <2>6. PICK n \in Nat : n = j - 1
    <3>1. j \in Int /\ j >= 1 BY <2>1, <1>3, StampTypes
    <3> QED BY <3>1
  <2>7. StartOf(p) + m * interval # StartOf(q) + n * interval
    <3>1. m \in Nat /\ n \in Nat OBVIOUS
    <3>2. \A a, b, g, u, v \in Nat : a < g /\ b < g /\ a # b => a + u * g # b + v * g
      BY ONLY PlacesInIntervals, Zenon
    <3> QED BY ONLY <2>3, <2>4, <3>1, <3>2, Zenon
  <2>8. stamps[p][i].request = StartOf(p) + m * interval BY <2>2, <2>5, Zenon
  <2>9. stamps[q][j].request = StartOf(q) + n * interval BY <2>2, <2>6, Zenon
  <2> QED BY <2>7, <2>8, <2>9, Zenon
<1>4. ASSUME IInv PROVE PingsPaced
  <2>1. TypeInv BY <1>4 DEF IInv
  <2>2. \A p \in pairs : DOMAIN stamps[p] = 1..Len(stamps[p]) BY <2>1, StampTypes
  <2>3. \A p \in pairs : \A i \in DOMAIN stamps[p] :
            /\ stamps[p][i].request = stamps[p][1].request + (i - 1) * interval
            /\ stamps[p][i].request < i * interval
    <3>1. \A p \in pairs : \A i \in 1..Len(stamps[p]) :
              /\ stamps[p][i].request = stamps[p][1].request + (i - 1) * interval
              /\ stamps[p][i].request < i * interval
      BY <1>1, <1>4, Zenon
    <3> QED BY <2>2, <3>1, Zenon
  <2>4. \A p \in pairs : phase \in {"stopped", "written"} =>
            IF stamps[p] = <<>> THEN endTime < interval
            ELSE endTime <= stamps[p][Len(stamps[p])].request + interval
    BY <1>2, <1>4, Zenon
  <2>5. Cardinality(endpoints) <= interval + 1 =>
            \A p, q \in pairs : p # q /\ p[1] = q[1] =>
                \A i \in DOMAIN stamps[p], j \in DOMAIN stamps[q] :
                    stamps[p][i].request # stamps[q][j].request
    <3>1. SUFFICES ASSUME Cardinality(endpoints) <= interval + 1, NEW p \in pairs, NEW q \in pairs,
                          p # q, p[1] = q[1], NEW i \in DOMAIN stamps[p], NEW j \in DOMAIN stamps[q]
                   PROVE  stamps[p][i].request # stamps[q][j].request
      BY Zenon
    <3>2. i \in 1..Len(stamps[p]) /\ j \in 1..Len(stamps[q]) BY <2>2, Zenon
    <3> QED BY <1>3, <1>4, <3>1, <3>2, Zenon
  <2> QED BY <2>3, <2>4, <2>5, Zenon DEF PingsPaced
<1> QED BY <1>4, IInvAlways, PTL
=============================================================================
