--------------------------- MODULE UdpBurstProofs ---------------------------
(***************************************************************************)
(* Proofs about UDP bursts, for any schedule, number of hosts and end of   *)
(* the run, and a network that loses, delays and reorders at will.         *)
(***************************************************************************)
EXTENDS UdpBurst, TLAPS, FiniteSetTheorems

TypeInv ==
    /\ schedule \in Schedules /\ endTime \in Nat
    /\ next \in [Host -> Bursts \cup {None}]
    /\ sentCounter \in [Bursts -> Nat] /\ received \in [Bursts -> Nat]
    /\ outLog \in [Bursts -> Seq(Line)] /\ inLog \in [Bursts -> Seq(Line)]

(* When packet number k of burst b leaves, and the time it has for that. *)
SendTime(b, k) == schedule[b].start + k * schedule[b].gap

SentInv(b) ==
    /\ Len(outLog[b]) = sentCounter[b]
    /\ \A k \in 1..sentCounter[b] : outLog[b][k] = [seq |-> k - 1, ts |-> SendTime(b, k - 1)]

(* The last packet left in time. *)
LastInv(b) == sentCounter[b] >= 2 =>
    /\ (sentCounter[b] - 1) * schedule[b].gap < schedule[b].duration
    /\ SendTime(b, sentCounter[b] - 1) < endTime

(* What came was sent before, and came once. *)
GotInv(b) ==
    /\ received[b] = Len(inLog[b])
    /\ \A i, j \in 1..Len(inLog[b]) : inLog[b][i].seq = inLog[b][j].seq => i = j
    /\ \A i \in 1..Len(inLog[b]) :
         inLog[b][i].seq < sentCounter[b] /\ SendTime(b, inLog[b][i].seq) <= inLog[b][i].ts

BurstInv(b) == SentInv(b) /\ LastInv(b) /\ GotInv(b)

(* The events of a run, each the only one of its kind. *)
Starts(e) == e.kind \in {"app", "burst"}
AppOK(e) == e.kind = "app" => e.host \in Host /\ e.ts = 0
StartOK(e) == e.kind = "burst" =>
    e.host \in Host /\ next[e.host] # None /\ e.ts = schedule[next[e.host]].start
PacketOK(e) == e.kind = "packet" =>
    /\ e.burst \in Bursts /\ sentCounter[e.burst] >= 1
    /\ e.ts = SendTime(e.burst, sentCounter[e.burst])
    /\ sentCounter[e.burst] * schedule[e.burst].gap < schedule[e.burst].duration
ArrivalOK(e) == e.kind = "arrival" =>
    /\ e.burst \in Bursts /\ e.seq \in Nat /\ e.ts \in Nat
    /\ e.seq < sentCounter[e.burst] /\ SendTime(e.burst, e.seq) <= e.ts
    /\ \A i \in 1..Len(inLog[e.burst]) : inLog[e.burst][i].seq # e.seq
EventOK(e) ==
    /\ e.kind \in {"app", "burst", "packet", "arrival"}
    /\ AppOK(e) /\ StartOK(e) /\ PacketOK(e) /\ ArrivalOK(e)
Alike(e, f) ==
    \/ Starts(e) /\ Starts(f) /\ e.host = f.host
    \/ e.kind = "packet" /\ f.kind = "packet" /\ e.burst = f.burst
    \/ e.kind = "arrival" /\ f.kind = "arrival" /\ e.burst = f.burst /\ e.seq = f.seq
Unique(evs) == \A e, f \in evs : Alike(e, f) => e = f

(* A host has begun its bursts up to the next one, whose start is to come; *)
(* a burst that has begun goes on until its time is over.                  *)
HostInv(h) ==
    /\ \A b \in Bursts : schedule[b].from = h =>
         (sentCounter[b] >= 1 <=> next[h] = None \/ b < next[h])
    /\ next[h] # None => schedule[next[h]].from = h /\ \E e \in events : Starts(e) /\ e.host = h
Over(b) == schedule[b].duration <= sentCounter[b] * schedule[b].gap
GoesOn(b) == sentCounter[b] >= 1 =>
    Over(b) \/ \E e \in events : e.kind = "packet" /\ e.burst = b

ReadingInv == phase = "reading" =>
    events = {} /\ \A b \in Bursts : sentCounter[b] = 0 /\ inLog[b] = <<>>
RunInv == phase = "running" =>
    /\ \A e \in events : EventOK(e)
    /\ Unique(events)
    /\ \A h \in Host : HostInv(h)
    /\ \A b \in Bursts : GoesOn(b)
StoppedInv == phase \in {"stopped", "written"} =>
    \A b \in Bursts : /\ sentCounter[b] >= 1
                      /\ Over(b) \/ endTime <= SendTime(b, sentCounter[b])
PhaseInv ==
    /\ phase \in {"reading", "running", "stopped", "written", "failed"}
    /\ phase \in {"running", "stopped", "written"} => Acceptable
    /\ phase = "failed" => ~Acceptable

IInv ==
    /\ TypeInv /\ PhaseInv /\ \A b \in Bursts : BurstInv(b)
    /\ ReadingInv /\ RunInv /\ StoppedInv /\ SentFillsDuration
-----------------------------------------------------------------------------
LEMMA BurstFacts ==
    ASSUME TypeInv, NEW b \in Bursts
    PROVE  /\ schedule[b].start \in Nat /\ schedule[b].duration \in Nat
           /\ schedule[b].gap \in Nat \ {0} /\ schedule[b].from \in Nat /\ b \in Nat \ {0}
<1>1. schedule \in Seq(Burst) BY BurstAssumption DEF TypeInv
<1>2. schedule[b] \in Burst /\ b \in Nat \ {0} BY <1>1 DEF Bursts
<1> QED BY <1>2 DEF Burst

LEMMA Times ==
    ASSUME NEW n \in Nat, NEW g \in Nat
    PROVE  n * g \in Nat /\ (n + 1) * g = n * g + g /\ 0 * g = 0 /\ 1 * g = g
OBVIOUS

LEMMA TimesMore ==
    ASSUME NEW m \in Nat, NEW n \in Nat, NEW g \in Nat, m <= n
    PROVE  m * g <= n * g
<1>1. PICK d \in Nat : n = m + d
  <2>1. n - m \in Nat /\ n = m + (n - m) OBVIOUS
  <2> QED BY <2>1
<1>2. n * g = m * g + d * g BY <1>1
<1>3. m * g \in Nat /\ d * g \in Nat BY Times
<1> QED BY <1>2, <1>3

LEMMA SendTimeFacts ==
    ASSUME TypeInv, NEW b \in Bursts, NEW n \in Nat
    PROVE  /\ SendTime(b, n) \in Nat /\ n * schedule[b].gap \in Nat
           /\ SendTime(b, n) = schedule[b].start + n * schedule[b].gap
           /\ SendTime(b, n + 1) = SendTime(b, n) + schedule[b].gap
           /\ SendTime(b, 0) = schedule[b].start
           /\ schedule[b].start <= SendTime(b, n)
<1> DEFINE g == schedule[b].gap
           s == schedule[b].start
<1>1. g \in Nat /\ s \in Nat BY BurstFacts
<1>2. SendTime(b, n) = s + n * g /\ SendTime(b, n + 1) = s + (n + 1) * g
      /\ SendTime(b, 0) = s + 0 * g
  BY DEF SendTime
<1> HIDE DEF g, s
<1>3. n * g \in Nat /\ (n + 1) * g = n * g + g /\ 0 * g = 0 BY <1>1, Times
<1>4. SendTime(b, n) \in Nat /\ SendTime(b, n + 1) = SendTime(b, n) + g
      /\ SendTime(b, 0) = s /\ s <= SendTime(b, n)
  BY <1>1, <1>2, <1>3
<1> QED BY <1>2, <1>3, <1>4 DEF g, s

(* The first burst of a host from a number on. *)
LEMMA LowestExists ==
    ASSUME NEW n \in Nat, NEW S \in SUBSET (1..n), S # {}
    PROVE  \E c \in S : \A d \in S : c <= d
<1> DEFINE R == OpToRel(<, Nat)
<1>1. IsWellFoundedOn(R, Nat) BY NatLessThanWellFounded
<1>2. \A x, y \in Nat : y < x => <<y, x>> \in R BY DEF OpToRel
<1> HIDE DEF R
<1>3. S \subseteq Nat OBVIOUS
<1>4. PICK c \in S : \A d \in S : ~ (<<d, c>> \in R) BY ONLY <1>1, <1>3, S # {}, WFMin, Zenon
<1>5. \A d \in S : ~ (d < c) BY <1>2, <1>3, <1>4
<1> QED BY <1>3, <1>5

LEMMA FirstFromFacts ==
    ASSUME TypeInv, NEW h \in Host, NEW n \in Nat
    PROVE  /\ FirstFrom(h, n) \in Bursts \cup {None}
           /\ FirstFrom(h, n) = None =>
                \A c \in Bursts : schedule[c].from = h => c < n
           /\ FirstFrom(h, n) # None =>
                /\ n <= FirstFrom(h, n) /\ schedule[FirstFrom(h, n)].from = h
                /\ \A c \in Bursts : schedule[c].from = h /\ n <= c => FirstFrom(h, n) <= c
<1> DEFINE own == {c \in Bursts : n <= c /\ schedule[c].from = h}
<1>1. Len(schedule) \in Nat /\ Bursts = 1..Len(schedule) BY BurstAssumption DEF TypeInv, Bursts
<1>2. CASE own = {}
  <2>1. FirstFrom(h, n) = None BY <1>2 DEF FirstFrom
  <2>2. \A c \in Bursts : schedule[c].from = h => ~ (n <= c) BY <1>2
  <2>3. \A c \in Bursts : c \in Nat BY <1>1
  <2> QED BY <2>1, <2>2, <2>3
<1>3. CASE own # {}
  <2>1. own \in SUBSET (1..Len(schedule)) BY <1>1
  <2>2. \E c \in own : \A d \in own : c <= d BY ONLY <1>1, <1>3, <2>1, LowestExists
  <2>3. FirstFrom(h, n) \in own /\ \A d \in own : FirstFrom(h, n) <= d
    <3>1. FirstFrom(h, n) = CHOOSE c \in own : \A d \in own : c <= d BY <1>3 DEF FirstFrom
    <3> HIDE DEF own
    <3> QED BY <2>2, <3>1
  <2>4. FirstFrom(h, n) # None BY <1>1, <2>3 DEF None
  <2> QED BY <2>3, <2>4
<1> QED BY <1>2, <1>3
-----------------------------------------------------------------------------
LEMMA Initially == Init => IInv
<1> SUFFICES ASSUME Init PROVE IInv OBVIOUS
<1>1. /\ schedule \in Schedules /\ endTime \in Nat /\ phase = "reading" /\ events = {}
      /\ next = [h \in Host |-> None]
      /\ sentCounter = [b \in Bursts |-> 0] /\ received = [b \in Bursts |-> 0]
      /\ outLog = [b \in Bursts |-> <<>>] /\ inLog = [b \in Bursts |-> <<>>]
  BY BurstAssumption DEF Init
<1>2. TypeInv BY <1>1 DEF TypeInv
<1>3. \A b \in Bursts : BurstInv(b) BY <1>1 DEF BurstInv, SentInv, LastInv, GotInv
<1>4. ReadingInv BY <1>1 DEF ReadingInv
<1>5. PhaseInv /\ RunInv /\ StoppedInv /\ SentFillsDuration
  BY <1>1 DEF PhaseInv, RunInv, StoppedInv, SentFillsDuration
<1> QED BY <1>2, <1>3, <1>4, <1>5 DEF IInv

(* Every host gets the event that starts its application. *)
LEMMA ConstructSchedulerKeeps == IInv /\ ConstructScheduler => IInv'
<1> SUFFICES ASSUME IInv, ConstructScheduler PROVE IInv' OBVIOUS
<1>1. /\ phase = "reading" /\ schedule' = schedule /\ endTime' = endTime
      /\ sentCounter' = sentCounter /\ outLog' = outLog /\ received' = received
      /\ inLog' = inLog /\ results' = results
  BY DEF ConstructScheduler, counters, arrived
<1>2. /\ TypeInv /\ \A b \in Bursts : BurstInv(b) /\ sentCounter[b] = 0
  BY <1>1 DEF IInv, ReadingInv
<1>3. Bursts' = Bursts /\ Acceptable' = Acceptable BY <1>1 DEF Bursts, Acceptable
<1>4. \A b \in Bursts : BurstInv(b)'
  BY <1>1, <1>2 DEF BurstInv, SentInv, LastInv, GotInv, SendTime
<1>5. CASE /\ Acceptable /\ phase' = "running"
           /\ events' = {[kind |-> "app", host |-> h, ts |-> 0, uid |-> h] : h \in Host}
           /\ next' = [h \in Host |-> FirstFrom(h, 1)]
  <2>1. \A h \in Host : FirstFrom(h, 1) \in Bursts \cup {None} BY <1>2, FirstFromFacts
  <2>2. TypeInv' BY <1>1, <1>2, <1>3, <1>5, <2>1 DEF TypeInv
  <2>3. \A e \in events' : e.kind = "app" /\ e.host \in Host /\ e.ts = 0 BY <1>5
  <2>4. \A e, f \in events' : e.host = f.host => e = f BY <1>5
  <2>5. \A e \in events' : EventOK(e)'
    BY <2>3 DEF EventOK, AppOK, StartOK, PacketOK, ArrivalOK
  <2>6. Unique(events)' BY <2>3, <2>4 DEF Unique, Alike
  <2>7. ASSUME NEW h \in Host PROVE HostInv(h)'
    <3>1. next'[h] = FirstFrom(h, 1) BY <1>5
    <3>2. \A b \in Bursts : b \in Nat /\ 1 <= b BY <1>2, BurstFacts
    <3>3. \A b \in Bursts : schedule[b].from = h => ~ (next'[h] = None \/ b < next'[h])
      <4> SUFFICES ASSUME NEW b \in Bursts, schedule[b].from = h
                   PROVE  next'[h] # None /\ ~ (b < next'[h])
        OBVIOUS
      <4>1. next'[h] # None BY <1>2, <3>1, <3>2, FirstFromFacts
      <4>2. next'[h] <= b /\ next'[h] \in Bursts BY <1>2, <3>1, <3>2, <4>1, FirstFromFacts
      <4>3. next'[h] \in Nat /\ b \in Nat BY <3>2, <4>2
      <4> QED BY <4>1, <4>2, <4>3
    <3>4. next'[h] # None => schedule[next'[h]].from = h BY <1>2, <3>1, FirstFromFacts
    <3>5. \E e \in events' : e.kind = "app" /\ e.host = h
      <4> DEFINE a == [kind |-> "app", host |-> h, ts |-> 0, uid |-> h]
      <4>1. a \in events' /\ a.kind = "app" /\ a.host = h BY <1>5
      <4> HIDE DEF a
      <4> QED BY <4>1
    <3> QED BY <1>1, <1>2, <1>3, <3>3, <3>4, <3>5 DEF HostInv, Starts
  <2>8. \A b \in Bursts : GoesOn(b)' BY <1>1, <1>2 DEF GoesOn
  <2>9. RunInv' BY <1>3, <2>5, <2>6, <2>7, <2>8 DEF RunInv
  <2>10. PhaseInv' BY <1>3, <1>5 DEF PhaseInv
  <2> QED BY <1>3, <1>4, <1>5, <2>2, <2>9, <2>10
          DEF IInv, ReadingInv, StoppedInv, SentFillsDuration
<1>6. CASE ~Acceptable /\ phase' = "failed" /\ next' = next
  <2>1. TypeInv' BY <1>1, <1>2, <1>3, <1>6 DEF TypeInv
  <2> QED BY <1>3, <1>4, <1>6, <2>1
          DEF IInv, PhaseInv, ReadingInv, RunInv, StoppedInv, SentFillsDuration
<1> QED BY <1>5, <1>6 DEF ConstructScheduler
-----------------------------------------------------------------------------
LEMMA NextPacketFacts ==
    ASSUME TypeInv, NEW b \in Bursts, NEW n \in Nat, NEW t, t = SendTime(b, n), NEW u
    PROVE  LET P == NextPacket(b, t, u) IN
           /\ \A p, q \in P : p = q
           /\ \A p \in P : /\ p.kind = "packet" /\ p.burst = b /\ p.ts = SendTime(b, n + 1)
                           /\ (n + 1) * schedule[b].gap < schedule[b].duration
           /\ P = {} => schedule[b].duration <= (n + 1) * schedule[b].gap
<1> DEFINE P == NextPacket(b, t, u)
           late == t + schedule[b].gap
           a == [kind |-> "packet", burst |-> b, ts |-> late, uid |-> u]
           g == (n + 1) * schedule[b].gap
           d == schedule[b].duration
           s == schedule[b].start
<1>1. s \in Nat /\ d \in Nat /\ g \in Nat /\ late = s + g /\ late = SendTime(b, n + 1)
  <2>1. n + 1 \in Nat OBVIOUS
  <2>2. g \in Nat /\ SendTime(b, n + 1) = s + g BY <2>1, SendTimeFacts
  <2>3. late = SendTime(b, n + 1) BY SendTimeFacts
  <2>4. s \in Nat /\ d \in Nat BY BurstFacts
  <2> QED BY <2>2, <2>3, <2>4
<1>2. P = IF late < s + d THEN {a} ELSE {} BY DEF NextPacket
<1>3. a.kind = "packet" /\ a.burst = b /\ a.ts = late OBVIOUS
<1> HIDE DEF a, g, d, s, late, P
<1>4. late < s + d <=> g < d BY <1>1
<1>5. \A p \in P : p = a /\ g < d BY <1>2, <1>4
<1>6. P = {} => d <= g BY <1>1, <1>2, <1>4
<1>7. \A p \in P : p.kind = "packet" /\ p.burst = b /\ p.ts = SendTime(b, n + 1) /\ g < d
  BY <1>1, <1>3, <1>5
<1>8. \A p, q \in P : p = q BY <1>5
<1> QED BY <1>6, <1>7, <1>8 DEF P, g, d

(* What the steps that send have in common: it is time for the next packet *)
(* of burst b, which no other event stands for.                            *)
Due(b, t, others) ==
    /\ t = SendTime(b, sentCounter[b]) /\ t < endTime
    /\ sentCounter[b] >= 1 => sentCounter[b] * schedule[b].gap < schedule[b].duration
    /\ \A e \in others : ~ (e.kind = "packet" /\ e.burst = b)
    /\ Unique(others)
    /\ \A e \in others : PacketOK(e) /\ ArrivalOK(e)

LEMMA SendingKeepsBursts ==
    ASSUME TypeInv, \A c \in Bursts : BurstInv(c), NEW b \in Bursts, NEW t, NEW others,
           Due(b, t, others), schedule' = schedule, endTime' = endTime,
           received' = received, inLog' = inLog, next' \in [Host -> Bursts \cup {None}],
           sentCounter' = [sentCounter EXCEPT ![b] = sentCounter[b] + 1],
           outLog' = [outLog EXCEPT ![b] =
                         Append(outLog[b], [seq |-> sentCounter[b], ts |-> t])]
    PROVE  TypeInv' /\ \A c \in Bursts : BurstInv(c)'
<1> DEFINE n == sentCounter[b]
           line == [seq |-> n, ts |-> t]
<1>1. n \in Nat /\ t = SendTime(b, n) /\ t < endTime BY DEF TypeInv, Due
<1>2. t \in Nat BY <1>1, SendTimeFacts
<1>3. line \in Line BY <1>1, <1>2 DEF Line
<1>4. Bursts' = Bursts BY DEF Bursts
<1>5. /\ sentCounter'[b] = n + 1 /\ outLog'[b] = Append(outLog[b], line)
      /\ \A c \in Bursts : c # b => sentCounter'[c] = sentCounter[c] /\ outLog'[c] = outLog[c]
  BY DEF TypeInv
<1>6. outLog[b] \in Seq(Line) /\ SentInv(b) /\ LastInv(b) /\ GotInv(b) BY DEF TypeInv, BurstInv
<1>7. TypeInv'
  <2>1. sentCounter' \in [Bursts -> Nat] BY <1>1 DEF TypeInv
  <2>2. Append(outLog[b], line) \in Seq(Line) BY <1>3, <1>6
  <2>3. outLog' \in [Bursts -> Seq(Line)] BY <2>2 DEF TypeInv
  <2> QED BY <1>4, <2>1, <2>3 DEF TypeInv
<1>8. ASSUME NEW c \in Bursts, c # b PROVE BurstInv(c)'
  <2>1. BurstInv(c) /\ sentCounter'[c] = sentCounter[c] /\ outLog'[c] = outLog[c]
    BY <1>5, <1>8
  <2> QED BY <2>1 DEF BurstInv, SentInv, LastInv, GotInv, SendTime
<1>9. SentInv(b)'
  <2> HIDE DEF line
  <2>1. Len(outLog[b]) = n /\ \A k \in 1..n :
            outLog[b][k] = [seq |-> k - 1, ts |-> SendTime(b, k - 1)]
    BY <1>6 DEF SentInv
  <2>2. Len(outLog'[b]) = n + 1 /\ outLog'[b][n + 1] = line
        /\ \A k \in 1..n : outLog'[b][k] = outLog[b][k]
    BY <1>1, <1>3, <1>5, <1>6, <2>1
  <2>3. line = [seq |-> (n + 1) - 1, ts |-> SendTime(b, (n + 1) - 1)]
    <3>1. (n + 1) - 1 = n BY <1>1
    <3> QED BY <1>1, <3>1 DEF line
  <2>4. ASSUME NEW k \in 1..(n + 1)
        PROVE  outLog'[b][k] = [seq |-> k - 1, ts |-> SendTime(b, k - 1)]
    <3>1. k = n + 1 \/ k \in 1..n BY <1>1
    <3> QED BY <2>1, <2>2, <2>3, <3>1, Zenon
  <2> HIDE DEF n
  <2> QED BY <1>5, <2>2, <2>4 DEF SentInv, SendTime
<1>10. LastInv(b)'
  <2>1. (n + 1) - 1 = n /\ (n + 1 >= 2 => n >= 1) BY <1>1
  <2>2. n >= 1 => n * schedule[b].gap < schedule[b].duration /\ SendTime(b, n) < endTime
    BY <1>1 DEF Due
  <2> HIDE DEF n
  <2> QED BY <1>5, <2>1, <2>2 DEF LastInv, SendTime
<1>11. GotInv(b)'
  <2>1. \A i \in 1..Len(inLog[b]) : inLog[b][i].seq \in Nat
    <3>1. inLog[b] \in Seq(Line) BY DEF TypeInv
    <3>2. \A i \in 1..Len(inLog[b]) : inLog[b][i] \in Line BY <3>1
    <3> QED BY <3>2 DEF Line
  <2>2. \A i \in 1..Len(inLog[b]) : inLog[b][i].seq < n /\ SendTime(b, inLog[b][i].seq) <= inLog[b][i].ts
    BY <1>6 DEF GotInv
  <2>3. \A i \in 1..Len(inLog[b]) : inLog[b][i].seq < n + 1 BY <1>1, <2>1, <2>2
  <2> HIDE DEF n
  <2> QED BY <1>5, <1>6, <2>2, <2>3 DEF GotInv, SendTime
<1>12. BurstInv(b)' BY <1>9, <1>10, <1>11 DEF BurstInv
<1>13. \A c \in Bursts : BurstInv(c)' BY <1>8, <1>12
<1> QED BY <1>7, <1>13

LEMMA SendingKeepsEvents ==
    ASSUME TypeInv, \A c \in Bursts : BurstInv(c), NEW b \in Bursts, NEW t, NEW others,
           Due(b, t, others), schedule' = schedule, inLog' = inLog,
           BurstSendOut(b, t, others)
    PROVE  /\ others \subseteq events'
           /\ Unique(events')
           /\ \A e \in others : PacketOK(e)' /\ ArrivalOK(e)'
           /\ \A e \in events' : e \in others \/ EventOK(e)'
           /\ \A e \in events' \ others : ~ Starts(e)
           /\ GoesOn(b)'
<1> DEFINE n == sentCounter[b]
           P == NextPacket(b, t, uid + 1)
<1>1. n \in Nat /\ t = SendTime(b, n) /\ n + 1 \in Nat BY DEF TypeInv, Due
<1>2. PICK late \in SUBSET events' :
          /\ events' = (others \cup P) \cup late
          /\ \A e \in late : \E delay \in Delay :
                /\ late = {e} /\ e.kind = "arrival" /\ e.burst = b
                /\ e.seq = n /\ e.ts = t + delay
  <2>1. CASE events' = others \cup P
    <3>1. {} \in SUBSET events' /\ events' = (others \cup P) \cup {} BY <2>1
    <3> QED BY <3>1
  <2>2. ASSUME NEW delay \in Delay, events' = (others \cup P) \cup
                  {[kind |-> "arrival", burst |-> b, seq |-> n, ts |-> t + delay, uid |-> uid]}
        PROVE  \E late \in SUBSET events' :
                 /\ events' = (others \cup P) \cup late
                 /\ \A e \in late : \E d \in Delay :
                       /\ late = {e} /\ e.kind = "arrival" /\ e.burst = b
                       /\ e.seq = n /\ e.ts = t + d
    <3> DEFINE a == [kind |-> "arrival", burst |-> b, seq |-> n, ts |-> t + delay, uid |-> uid]
    <3>1. a.kind = "arrival" /\ a.burst = b /\ a.seq = n /\ a.ts = t + delay OBVIOUS
    <3>2. events' = (others \cup P) \cup {a} BY <2>2
    <3> HIDE DEF a
    <3>3. {a} \in SUBSET events' BY <3>2
    <3> QED BY <3>1, <3>2, <3>3
  <2> QED BY <2>1, <2>2 DEF BurstSendOut, TransmitFullPacket
<1>3. sentCounter' = [sentCounter EXCEPT ![b] = n + 1]
  BY DEF BurstSendOut, TransmitFullPacket
<1>4. /\ sentCounter'[b] = n + 1
      /\ \A c \in Bursts : c # b => sentCounter'[c] = sentCounter[c]
      /\ \A c \in Bursts : /\ sentCounter[c] \in Nat /\ sentCounter'[c] \in Nat
                           /\ sentCounter[c] <= sentCounter'[c]
  BY <1>1, <1>3 DEF TypeInv
<1>5. /\ \A p, q \in P : p = q
      /\ \A p \in P : /\ p.kind = "packet" /\ p.burst = b /\ p.ts = SendTime(b, n + 1)
                      /\ (n + 1) * schedule[b].gap < schedule[b].duration
      /\ P = {} => schedule[b].duration <= (n + 1) * schedule[b].gap
  <2>1. PICK m \in Nat : m = n /\ t = SendTime(b, m) BY <1>1
  <2>2. PICK u : u = uid + 1 OBVIOUS
  <2>3. PICK Q : Q = NextPacket(b, t, u) OBVIOUS
  <2>4. Q = P BY <2>2, <2>3
  <2> HIDE DEF n, P
  <2>5. /\ \A p, q \in Q : p = q
        /\ \A p \in Q : /\ p.kind = "packet" /\ p.burst = b /\ p.ts = SendTime(b, m + 1)
                        /\ (m + 1) * schedule[b].gap < schedule[b].duration
        /\ Q = {} => schedule[b].duration <= (m + 1) * schedule[b].gap
    <3>1. TypeInv OBVIOUS
    <3>2. b \in Bursts OBVIOUS
    <3> QED BY ONLY <2>1, <2>3, <3>1, <3>2, NextPacketFacts
  <2> QED BY <2>1, <2>4, <2>5, Zenon
<1>6. t \in Nat BY <1>1, SendTimeFacts
<1> HIDE DEF P
<1>7. \A e \in late : /\ e.kind = "arrival" /\ e.burst = b /\ e.seq = n
                      /\ e.ts \in Nat /\ t <= e.ts /\ late = {e}
  BY <1>2, <1>6, BurstAssumption
<1>8. \A i \in 1..Len(inLog[b]) : inLog[b][i].seq \in Nat /\ inLog[b][i].seq < n
  <2>1. inLog[b] \in Seq(Line) BY DEF TypeInv
  <2>2. \A i \in 1..Len(inLog[b]) : inLog[b][i] \in Line BY <2>1
  <2>3. \A i \in 1..Len(inLog[b]) : inLog[b][i].seq \in Nat BY <2>2 DEF Line
  <2> QED BY <2>3 DEF BurstInv, GotInv
<1> HIDE DEF n
<1>9. ASSUME NEW e \in others PROVE PacketOK(e)' /\ ArrivalOK(e)'
  <2>1. PacketOK(e) /\ ArrivalOK(e) /\ ~ (e.kind = "packet" /\ e.burst = b) BY DEF Due
  <2>2. PacketOK(e)' BY <1>4, <2>1 DEF PacketOK, SendTime, Bursts
  <2>3. ASSUME e.kind = "arrival" PROVE ArrivalOK(e)'
    <3>1. /\ e.burst \in Bursts /\ e.seq \in Nat /\ e.ts \in Nat
          /\ SendTime(e.burst, e.seq) <= e.ts /\ e.seq < sentCounter[e.burst]
          /\ \A i \in 1..Len(inLog[e.burst]) : inLog[e.burst][i].seq # e.seq
      BY <2>1, <2>3 DEF ArrivalOK
    <3>2. e.seq < sentCounter'[e.burst]
      <4>1. sentCounter[e.burst] \in Nat /\ sentCounter'[e.burst] \in Nat
            /\ sentCounter[e.burst] <= sentCounter'[e.burst]
        BY <1>1, <1>4, <3>1
      <4> QED BY <3>1, <4>1
    <3> QED BY <3>1, <3>2 DEF ArrivalOK, SendTime, Bursts
  <2> QED BY <2>2, <2>3 DEF ArrivalOK
<1>10. ASSUME NEW e \in P PROVE EventOK(e)'
  <2>1. e.kind = "packet" /\ e.burst = b /\ e.ts = SendTime(b, sentCounter'[b])
        /\ sentCounter'[b] * schedule[b].gap < schedule[b].duration /\ sentCounter'[b] >= 1
    BY <1>1, <1>4, <1>5
  <2>2. PacketOK(e)' BY <2>1 DEF PacketOK, SendTime, Bursts
  <2> QED BY <2>1, <2>2 DEF EventOK, AppOK, StartOK, ArrivalOK
<1>11. ASSUME NEW e \in late PROVE EventOK(e)'
  <2>1. e.kind = "arrival" /\ e.burst = b /\ e.seq \in Nat /\ e.ts \in Nat
        /\ e.seq < sentCounter'[b] /\ SendTime(b, e.seq) <= e.ts
    BY <1>1, <1>4, <1>7
  <2>2. \A i \in 1..Len(inLog[b]) : inLog[b][i].seq # e.seq BY <1>1, <1>7, <1>8
  <2>3. ArrivalOK(e)' BY <2>1, <2>2 DEF ArrivalOK, SendTime, Bursts
  <2> QED BY <2>1, <2>3 DEF EventOK, AppOK, StartOK, PacketOK
<1>12. Unique(events')
  <2> SUFFICES ASSUME NEW e \in events', NEW f \in events', Alike(e, f) PROVE e = f
    BY DEF Unique
  <2>1. e \in others /\ f \in others => e = f BY DEF Due, Unique
  <2>2. e \in P \/ f \in P => e \in P /\ f \in P
    BY <1>2, <1>5, <1>7 DEF Due, Alike, Starts
  <2>3. \A a \in others : a.kind = "arrival" /\ a.burst = b => a.seq \in Nat /\ a.seq < n
    BY DEF Due, ArrivalOK, n
  <2>4. e \in late /\ f \in others => FALSE
    BY <1>1, <1>7, <2>3 DEF Alike, Starts
  <2>5. f \in late /\ e \in others => FALSE
    BY <1>1, <1>7, <2>3 DEF Alike, Starts
  <2>6. e \in late /\ f \in late => e = f BY <1>7
  <2> QED BY <1>2, <1>5, <2>1, <2>2, <2>4, <2>5, <2>6
<1>13. GoesOn(b)'
  <2>1. CASE P = {} BY <1>4, <1>5, <2>1 DEF GoesOn, Over
  <2>2. CASE P # {}
    <3>1. \E e \in events' : e.kind = "packet" /\ e.burst = b BY <1>2, <1>5, <2>2
    <3> QED BY <3>1 DEF GoesOn
  <2> QED BY <2>1, <2>2
<1>14. \A e \in events' \ others : ~ Starts(e) BY <1>2, <1>5, <1>7 DEF Starts
<1>15. \A e \in events' : e \in others \/ EventOK(e)' BY <1>2, <1>10, <1>11
<1>16. others \subseteq events' BY <1>2
<1> QED BY <1>9, <1>12, <1>13, <1>14, <1>15, <1>16

(* What does not change while the applications run. *)
Fixed == /\ phase = "running" /\ schedule' = schedule /\ endTime' = endTime
         /\ results' = results

LEMMA SendingKeeps ==
    ASSUME IInv, Fixed, NEW b \in Bursts, NEW t, NEW others,
           Due(b, t, others), BurstSendOut(b, t, others),
           received' = received, inLog' = inLog, next' \in [Host -> Bursts \cup {None}],
           \A e \in others : /\ e.kind \in {"app", "burst", "packet", "arrival"}
                             /\ AppOK(e) /\ StartOK(e)'
    PROVE  /\ TypeInv' /\ \A c \in Bursts : BurstInv(c)'
           /\ \A e \in events' : EventOK(e)'
           /\ Unique(events') /\ GoesOn(b)' /\ others \subseteq events'
           /\ sentCounter'[b] = sentCounter[b] + 1
           /\ \A c \in Bursts : c # b => sentCounter'[c] = sentCounter[c]
<1>1. TypeInv /\ \A c \in Bursts : BurstInv(c) BY DEF IInv
<1>2. /\ sentCounter' = [sentCounter EXCEPT ![b] = sentCounter[b] + 1]
      /\ outLog' = [outLog EXCEPT ![b] =
                       Append(outLog[b], [seq |-> sentCounter[b], ts |-> t])]
  BY DEF BurstSendOut, TransmitFullPacket
<1>3. schedule' = schedule /\ endTime' = endTime BY DEF Fixed
<1>4. TypeInv' /\ \A c \in Bursts : BurstInv(c)' BY <1>1, <1>2, <1>3, SendingKeepsBursts
<1>5. /\ others \subseteq events' /\ Unique(events') /\ GoesOn(b)'
      /\ \A e \in others : PacketOK(e)' /\ ArrivalOK(e)'
      /\ \A e \in events' : e \in others \/ EventOK(e)'
  BY <1>1, <1>3, SendingKeepsEvents
<1>6. \A e \in others : AppOK(e)' BY DEF AppOK
<1>7. \A e \in events' : EventOK(e)' BY <1>5, <1>6 DEF EventOK
<1>8. /\ sentCounter'[b] = sentCounter[b] + 1
      /\ \A c \in Bursts : c # b => sentCounter'[c] = sentCounter[c]
  BY <1>1, <1>2 DEF TypeInv
<1> QED BY <1>4, <1>5, <1>7, <1>8

(* What is left to show of a step of a running program. *)
LEMMA RunningKeeps ==
    ASSUME IInv, Fixed, phase' = "running", TypeInv', \A c \in Bursts : BurstInv(c)',
           \A e \in events' : EventOK(e)', Unique(events'),
           \A h \in Host : HostInv(h)', \A c \in Bursts : GoesOn(c)'
    PROVE  IInv'
<1>1. Bursts' = Bursts /\ Acceptable' = Acceptable BY DEF Fixed, Bursts, Acceptable
<1>2. PhaseInv' BY <1>1 DEF IInv, PhaseInv, Fixed
<1>3. RunInv' BY <1>1 DEF RunInv, Unique
<1>4. ReadingInv' /\ StoppedInv' /\ SentFillsDuration'
  BY DEF ReadingInv, StoppedInv, SentFillsDuration
<1> QED BY <1>1, <1>2, <1>3, <1>4 DEF IInv

LEMMA RunningFacts ==
    ASSUME IInv, phase = "running"
    PROVE  /\ TypeInv /\ Acceptable /\ \A c \in Bursts : BurstInv(c)
           /\ \A e \in events : EventOK(e) /\ AppOK(e) /\ StartOK(e) /\ PacketOK(e) /\ ArrivalOK(e)
           /\ \A e \in events : e.kind \in {"app", "burst", "packet", "arrival"}
           /\ Unique(events)
           /\ \A h \in Host : HostInv(h)
           /\ \A c \in Bursts : GoesOn(c)
BY DEF IInv, PhaseInv, RunInv, EventOK

(* The start of burst b of host h. *)
LEMMA NextBurstFacts ==
    ASSUME TypeInv, NEW h \in Host, NEW b \in Bursts \cup {None}, NEW t \in Nat, NEW n
    PROVE  /\ \A e \in NextBurst(h, b, t, n) :
                /\ e.kind = "burst" /\ e.host = h /\ b # None /\ e.ts = schedule[b].start
                /\ \A f \in NextBurst(h, b, t, n) : e = f
           /\ b # None => \E e \in NextBurst(h, b, t, n) : e.kind = "burst" /\ e.host = h
<1>1. CASE b = None BY <1>1 DEF NextBurst
<1>2. CASE b # None
  <2> DEFINE s == t + (schedule[b].start - t)
             a == [kind |-> "burst", host |-> h, ts |-> s, uid |-> n]
  <2>1. s = schedule[b].start BY <1>2, BurstFacts
  <2>2. NextBurst(h, b, t, n) = {a} BY <1>2 DEF NextBurst
  <2>3. a.kind = "burst" /\ a.host = h /\ a.ts = s OBVIOUS
  <2> HIDE DEF a, s
  <2> QED BY <1>2, <2>1, <2>2, <2>3
<1> QED BY <1>1, <1>2
-----------------------------------------------------------------------------
LEMMA StartApplicationKeeps ==
    ASSUME IInv, NEW e \in events, StartApplication(e) PROVE IInv'
<1> DEFINE h == e.host
           b == next[h]
<1>1. /\ Fixed /\ phase' = "running" /\ e.kind = "app" /\ next' = next
      /\ events' = (events \ {e}) \cup NextBurst(h, b, e.ts, uid)
      /\ sentCounter' = sentCounter /\ outLog' = outLog /\ received' = received /\ inLog' = inLog
  BY DEF StartApplication, Take, Fixed, counters, arrived
<1>2. TypeInv /\ \A c \in Bursts : BurstInv(c) BY <1>1, RunningFacts DEF Fixed
<1>3. /\ \A f \in events : AppOK(f) /\ StartOK(f) /\ PacketOK(f) /\ ArrivalOK(f)
      /\ \A f \in events : f.kind \in {"app", "burst", "packet", "arrival"}
      /\ Unique(events) /\ (\A g \in Host : HostInv(g)) /\ \A c \in Bursts : GoesOn(c)
  BY <1>1, RunningFacts DEF Fixed
<1>4. h \in Host /\ e.ts = 0 BY <1>1, <1>3 DEF AppOK
<1>5. b \in Bursts \cup {None} BY <1>2, <1>4 DEF TypeInv
<1>6. /\ \A f \in NextBurst(h, b, e.ts, uid) :
           /\ f.kind = "burst" /\ f.host = h /\ b # None /\ f.ts = schedule[b].start
           /\ \A g \in NextBurst(h, b, e.ts, uid) : f = g
      /\ b # None => \E f \in NextBurst(h, b, e.ts, uid) : f.kind = "burst" /\ f.host = h
  <2>1. e.ts \in Nat BY <1>4
  <2> HIDE DEF h, b
  <2> QED BY <1>2, <1>4, <1>5, <2>1, NextBurstFacts
<1>7. schedule' = schedule /\ endTime' = endTime /\ Bursts' = Bursts BY <1>1 DEF Fixed, Bursts
<1>8. TypeInv' BY <1>1, <1>2, <1>7 DEF TypeInv
<1>9. \A c \in Bursts : BurstInv(c)'
  BY <1>1, <1>2, <1>7 DEF BurstInv, SentInv, LastInv, GotInv, SendTime
<1>10. ASSUME NEW f \in events' PROVE EventOK(f)'
  <2>1. CASE f \in events
    <3>1. AppOK(f)' /\ StartOK(f)' BY <1>1, <1>3, <1>7, <2>1 DEF AppOK, StartOK
    <3>2. PacketOK(f)' BY <1>1, <1>3, <1>7, <2>1 DEF PacketOK, SendTime
    <3>3. ArrivalOK(f)' BY <1>1, <1>3, <1>7, <2>1 DEF ArrivalOK, SendTime
    <3> QED BY <1>3, <2>1, <3>1, <3>2, <3>3 DEF EventOK
  <2>2. CASE f \in NextBurst(h, b, e.ts, uid)
    <3>1. f.kind = "burst" /\ f.host \in Host /\ next'[f.host] # None
          /\ f.ts = schedule'[next'[f.host]].start
      BY <1>1, <1>4, <1>6, <1>7, <2>2
    <3>2. StartOK(f)' BY <3>1 DEF StartOK
    <3> QED BY <3>1, <3>2 DEF EventOK, AppOK, PacketOK, ArrivalOK
  <2> QED BY <1>1, <2>1, <2>2
<1> HIDE DEF b
<1>11. Unique(events')
  BY <1>1, <1>3, <1>6 DEF Unique, Alike, Starts
<1>12. ASSUME NEW g \in Host PROVE HostInv(g)'
  <2>1. HostInv(g) BY <1>3
  <2>2. next[g] # None => \E f \in events' : Starts(f) /\ f.host = g
    <3>1. CASE g = h BY <1>1, <1>6, <3>1 DEF Starts, b
    <3>2. CASE g # h BY <1>1, <2>1, <3>2 DEF HostInv
    <3> QED BY <3>1, <3>2
  <2> QED BY <1>1, <1>7, <2>1, <2>2 DEF HostInv
<1>13. ASSUME NEW c \in Bursts PROVE GoesOn(c)'
  <2>1. GoesOn(c) BY <1>3
  <2>2. \A f \in events : f.kind = "packet" => f \in events' BY <1>1
  <2> QED BY <1>1, <1>7, <2>1, <2>2 DEF GoesOn, Over
<1> QED BY <1>1, <1>8, <1>9, <1>10, <1>11, <1>12, <1>13, RunningKeeps

LEMMA HandleReadKeeps ==
    ASSUME IInv, NEW e \in events, HandleRead(e) PROVE IInv'
<1> DEFINE b == e.burst
           line == [seq |-> e.seq, ts |-> e.ts]
<1>1. /\ Fixed /\ phase' = "running" /\ e.kind = "arrival" /\ next' = next
      /\ events' = events \ {e} /\ sentCounter' = sentCounter /\ outLog' = outLog
      /\ received' = [received EXCEPT ![b] = @ + 1]
      /\ inLog' = [inLog EXCEPT ![b] = Append(@, line)]
  BY DEF HandleRead, Take, Fixed, counters
<1>2. TypeInv /\ \A c \in Bursts : BurstInv(c) BY <1>1, RunningFacts DEF Fixed
<1>3. /\ \A f \in events : AppOK(f) /\ StartOK(f) /\ PacketOK(f) /\ ArrivalOK(f)
      /\ \A f \in events : f.kind \in {"app", "burst", "packet", "arrival"}
      /\ Unique(events) /\ (\A g \in Host : HostInv(g)) /\ \A c \in Bursts : GoesOn(c)
  BY <1>1, RunningFacts DEF Fixed
<1>4. /\ b \in Bursts /\ e.seq \in Nat /\ e.ts \in Nat
      /\ e.seq < sentCounter[b] /\ SendTime(b, e.seq) <= e.ts
      /\ \A i \in 1..Len(inLog[b]) : inLog[b][i].seq # e.seq
  BY <1>1, <1>3 DEF ArrivalOK
<1>5. line \in Line /\ line.seq = e.seq /\ line.ts = e.ts BY <1>4 DEF Line
<1>6. schedule' = schedule /\ endTime' = endTime /\ Bursts' = Bursts BY <1>1 DEF Fixed, Bursts
<1> HIDE DEF b, line
<1>7. /\ received[b] \in Nat /\ inLog[b] \in Seq(Line)
      /\ received'[b] = received[b] + 1 /\ inLog'[b] = Append(inLog[b], line)
      /\ \A c \in Bursts : c # b => received'[c] = received[c] /\ inLog'[c] = inLog[c]
  BY <1>1, <1>2, <1>4 DEF TypeInv
<1>8. TypeInv'
  <2>1. Append(inLog[b], line) \in Seq(Line) BY <1>5, <1>7
  <2>2. inLog' \in [Bursts -> Seq(Line)] BY <1>1, <1>2, <2>1 DEF TypeInv
  <2>3. received' \in [Bursts -> Nat] BY <1>1, <1>2, <1>7 DEF TypeInv
  <2> QED BY <1>1, <1>2, <1>6, <2>2, <2>3 DEF TypeInv
<1>9. /\ Len(inLog[b]) \in Nat /\ Len(inLog'[b]) = Len(inLog[b]) + 1
      /\ inLog'[b][Len(inLog[b]) + 1] = line
      /\ \A i \in 1..Len(inLog[b]) : inLog'[b][i] = inLog[b][i]
  BY <1>5, <1>7
<1>10. \A i \in 1..(Len(inLog[b]) + 1) : i \in 1..Len(inLog[b]) \/ i = Len(inLog[b]) + 1
  BY <1>9
<1>11. ASSUME NEW c \in Bursts PROVE BurstInv(c)'
  <2>1. BurstInv(c) BY <1>2
  <2>2. SentInv(c)' /\ LastInv(c)' BY <1>1, <1>6, <2>1 DEF BurstInv, SentInv, LastInv, SendTime
  <2>3. CASE c # b
    <3>1. GotInv(c)' BY <1>1, <1>6, <1>7, <2>1, <2>3 DEF BurstInv, GotInv, SendTime
    <3> QED BY <2>2, <3>1 DEF BurstInv
  <2>4. CASE c = b
    <3>1. /\ received[b] = Len(inLog[b])
          /\ \A i, j \in 1..Len(inLog[b]) : inLog[b][i].seq = inLog[b][j].seq => i = j
          /\ \A i \in 1..Len(inLog[b]) :
               inLog[b][i].seq < sentCounter[b] /\ SendTime(b, inLog[b][i].seq) <= inLog[b][i].ts
      BY <2>1, <2>4 DEF BurstInv, GotInv
    <3>2. received'[b] = Len(inLog'[b]) BY <1>7, <1>9, <3>1
    <3>3. ASSUME NEW i \in 1..(Len(inLog[b]) + 1), NEW j \in 1..(Len(inLog[b]) + 1),
                 inLog'[b][i].seq = inLog'[b][j].seq
          PROVE  i = j
      BY <1>4, <1>5, <1>9, <1>10, <3>1, <3>3, Zenon
    <3>4. ASSUME NEW i \in 1..(Len(inLog[b]) + 1)
          PROVE  /\ inLog'[b][i].seq < sentCounter[b]
                 /\ SendTime(b, inLog'[b][i].seq) <= inLog'[b][i].ts
      BY <1>4, <1>5, <1>9, <1>10, <3>1, Zenon
    <3>5. GotInv(b)' BY <1>1, <1>6, <1>9, <3>2, <3>3, <3>4 DEF GotInv, SendTime
    <3> QED BY <2>2, <2>4, <3>5 DEF BurstInv
  <2> QED BY <2>3, <2>4
<1>12. ASSUME NEW f \in events' PROVE EventOK(f)'
  <2>1. f \in events /\ f # e BY <1>1
  <2>2. AppOK(f)' /\ StartOK(f)' BY <1>1, <1>3, <1>6, <2>1 DEF AppOK, StartOK
  <2>3. PacketOK(f)' BY <1>1, <1>3, <1>6, <2>1 DEF PacketOK, SendTime
  <2>4. ASSUME f.kind = "arrival" PROVE ArrivalOK(f)'
    <3>1. /\ f.burst \in Bursts /\ f.seq \in Nat /\ f.ts \in Nat
          /\ f.seq < sentCounter[f.burst] /\ SendTime(f.burst, f.seq) <= f.ts
          /\ \A i \in 1..Len(inLog[f.burst]) : inLog[f.burst][i].seq # f.seq
      BY <1>3, <2>1, <2>4 DEF ArrivalOK
    <3>2. f.burst = b => f.seq # e.seq BY <1>1, <1>3, <2>1, <2>4 DEF Unique, Alike, b
    <3>3. \A i \in 1..Len(inLog'[f.burst]) : inLog'[f.burst][i].seq # f.seq
      <4>1. CASE f.burst # b BY <1>7, <3>1, <4>1
      <4>2. CASE f.burst = b BY <1>5, <1>9, <1>10, <3>1, <3>2, <4>2, Zenon
      <4> QED BY <4>1, <4>2
    <3> QED BY <1>1, <1>6, <3>1, <3>3 DEF ArrivalOK, SendTime
  <2>5. ArrivalOK(f)' BY <2>4 DEF ArrivalOK
  <2> QED BY <1>3, <2>1, <2>2, <2>3, <2>5 DEF EventOK
<1>13. Unique(events') BY <1>1, <1>3 DEF Unique
<1>14. ASSUME NEW g \in Host PROVE HostInv(g)'
  <2>1. HostInv(g) BY <1>3
  <2>2. \A f \in events : Starts(f) => f \in events' BY <1>1 DEF Starts
  <2> QED BY <1>1, <1>6, <2>1, <2>2 DEF HostInv
<1>15. ASSUME NEW c \in Bursts PROVE GoesOn(c)'
  <2>1. GoesOn(c) BY <1>3
  <2>2. \A f \in events : f.kind = "packet" => f \in events' BY <1>1
  <2> QED BY <1>1, <1>6, <2>1, <2>2 DEF GoesOn, Over
<1> QED BY <1>1, <1>8, <1>11, <1>12, <1>13, <1>14, <1>15, RunningKeeps

LEMMA SendNextPacketKeeps ==
    ASSUME IInv, NEW e \in events, SendNextPacket(e) PROVE IInv'
<1>1. /\ Fixed /\ phase' = "running" /\ e.kind = "packet" /\ next' = next
      /\ e.ts < endTime /\ received' = received /\ inLog' = inLog
  BY DEF SendNextPacket, Take, Runs, Fixed, arrived
<1>2. TypeInv /\ \A c \in Bursts : BurstInv(c) BY <1>1, RunningFacts DEF Fixed
<1>3. /\ \A f \in events : AppOK(f) /\ StartOK(f) /\ PacketOK(f) /\ ArrivalOK(f)
      /\ \A f \in events : f.kind \in {"app", "burst", "packet", "arrival"}
      /\ Unique(events) /\ (\A g \in Host : HostInv(g)) /\ \A c \in Bursts : GoesOn(c)
  BY <1>1, RunningFacts DEF Fixed
<1>4. PICK b \in Bursts : b = e.burst BY <1>1, <1>3 DEF PacketOK
<1>5. PICK t : t = e.ts OBVIOUS
<1>6. PICK others : others = events \ {e} OBVIOUS
<1>7. BurstSendOut(b, t, others)
  <2>1. BurstSendOut(e.burst, e.ts, events \ {e}) BY DEF SendNextPacket
  <2> QED BY <2>1, <1>4, <1>5, <1>6 DEF BurstSendOut, TransmitFullPacket
<1>8. schedule' = schedule /\ endTime' = endTime /\ Bursts' = Bursts BY <1>1 DEF Fixed, Bursts
<1>9. /\ sentCounter[b] >= 1 /\ t = SendTime(b, sentCounter[b])
      /\ sentCounter[b] * schedule[b].gap < schedule[b].duration
  BY <1>1, <1>3, <1>4, <1>5 DEF PacketOK
<1>10. Due(b, t, others)
  <2>1. Unique(others) BY <1>3, <1>6 DEF Unique
  <2>2. \A f \in others : ~ (f.kind = "packet" /\ f.burst = b)
    BY <1>1, <1>3, <1>4, <1>6 DEF Unique, Alike
  <2>3. \A f \in others : PacketOK(f) /\ ArrivalOK(f) BY <1>3, <1>6
  <2> QED BY <1>1, <1>5, <1>9, <2>1, <2>2, <2>3 DEF Due
<1>11. \A f \in others : /\ f.kind \in {"app", "burst", "packet", "arrival"}
                         /\ AppOK(f) /\ StartOK(f)'
  BY <1>1, <1>3, <1>6, <1>8 DEF StartOK
<1>12. next' \in [Host -> Bursts \cup {None}] BY <1>1, <1>2 DEF TypeInv
<1>13. /\ TypeInv' /\ \A c \in Bursts : BurstInv(c)'
       /\ \A f \in events' : EventOK(f)'
       /\ Unique(events') /\ GoesOn(b)' /\ others \subseteq events'
       /\ sentCounter'[b] = sentCounter[b] + 1
       /\ \A c \in Bursts : c # b => sentCounter'[c] = sentCounter[c]
  BY <1>1, <1>7, <1>10, <1>11, <1>12, SendingKeeps
<1>14. ASSUME NEW g \in Host PROVE HostInv(g)'
  <2>1. HostInv(g) BY <1>3
  <2>2. \A f \in events : Starts(f) => f \in events' BY <1>1, <1>6, <1>13 DEF Starts
  <2>3. sentCounter[b] \in Nat BY <1>2 DEF TypeInv
  <2>4. \A c \in Bursts : sentCounter'[c] >= 1 <=> sentCounter[c] >= 1
    BY <1>9, <1>13, <2>3
  <2> QED BY <1>1, <1>8, <2>1, <2>2, <2>4, Zenon DEF HostInv
<1>15. ASSUME NEW c \in Bursts PROVE GoesOn(c)'
  <2>1. GoesOn(c) BY <1>3
  <2>2. c # b => \A f \in events : f.kind = "packet" /\ f.burst = c => f \in events'
    BY <1>4, <1>6, <1>13
  <2>3. CASE c # b BY <1>8, <1>13, <2>1, <2>2, <2>3 DEF GoesOn, Over
  <2> QED BY <1>13, <2>3
<1> QED BY <1>1, <1>13, <1>14, <1>15, RunningKeeps

LEMMA StartNextBurstKeeps ==
    ASSUME IInv, NEW e \in events, StartNextBurst(e) PROVE IInv'
<1>1. /\ phase = "running" /\ schedule' = schedule /\ endTime' = endTime /\ results' = results
      /\ e.kind = "burst" /\ e.ts < endTime /\ received' = received /\ inLog' = inLog
  BY DEF StartNextBurst, Take, Runs, arrived
<1>2. TypeInv /\ \A c \in Bursts : BurstInv(c) BY <1>1, RunningFacts
<1>3. /\ \A f \in events : AppOK(f) /\ StartOK(f) /\ PacketOK(f) /\ ArrivalOK(f)
      /\ \A f \in events : f.kind \in {"app", "burst", "packet", "arrival"}
      /\ Unique(events) /\ (\A g \in Host : HostInv(g)) /\ \A c \in Bursts : GoesOn(c)
  BY <1>1, RunningFacts
<1>4. PICK h \in Host : h = e.host BY <1>1, <1>3 DEF StartOK
<1>5. next[h] # None /\ e.ts = schedule[next[h]].start BY <1>1, <1>3, <1>4 DEF StartOK
<1>6. PICK b \in Bursts : b = next[h] BY <1>2, <1>5 DEF TypeInv
<1>7. PICK t : t = e.ts OBVIOUS
<1>8. b \in Nat /\ b + 1 \in Nat /\ t = schedule[b].start /\ t \in Nat
  BY <1>2, <1>5, <1>6, <1>7, BurstFacts
<1>9. PICK after \in Bursts \cup {None} : after = FirstFrom(h, b + 1)
  BY <1>2, <1>8, FirstFromFacts
<1>10. PICK news : news = NextBurst(h, after, t, uid + 2) OBVIOUS
<1>11. PICK others : others = (events \ {e}) \cup news OBVIOUS
<1>12. /\ BurstSendOut(b, t, others)
       /\ next' = [next EXCEPT ![h] = after] /\ phase' = "running"
  <2>1. /\ BurstSendOut(next[e.host], e.ts, (events \ {e}) \cup
                 NextBurst(e.host, FirstFrom(e.host, next[e.host] + 1), e.ts, uid + 2))
        /\ next' = [next EXCEPT ![e.host] = FirstFrom(e.host, next[e.host] + 1)]
        /\ phase' = phase
    BY <1>4, <1>5 DEF StartNextBurst
  <2>2. (events \ {e}) \cup NextBurst(e.host, FirstFrom(e.host, next[e.host] + 1), e.ts, uid + 2)
            = others
    BY <1>4, <1>6, <1>7, <1>9, <1>10, <1>11
  <2>3. next' = [next EXCEPT ![h] = after] /\ phase' = "running"
    BY <1>1, <1>4, <1>6, <1>9, <2>1
  <2>4. BurstSendOut(b, t, others)
    BY <1>4, <1>6, <1>7, <2>1, <2>2 DEF BurstSendOut, TransmitFullPacket
  <2> QED BY <2>3, <2>4
<1>13. Fixed /\ Bursts' = Bursts BY <1>1 DEF Fixed, Bursts
<1>14. /\ \A f \in news : /\ f.kind = "burst" /\ f.host = h /\ after # None
                          /\ f.ts = schedule[after].start /\ \A g \in news : f = g
       /\ after # None => \E f \in news : f.kind = "burst" /\ f.host = h
  BY <1>2, <1>8, <1>10, NextBurstFacts
<1>15. sentCounter[b] = 0 /\ schedule[b].from = h
  <2>1. schedule[b].from = h /\ (sentCounter[b] >= 1 <=> next[h] = None \/ b < next[h])
    BY <1>3, <1>5, <1>6 DEF HostInv
  <2>2. sentCounter[b] \in Nat BY <1>2 DEF TypeInv
  <2>3. ~ (b < b) BY <1>8
  <2>4. ~ (sentCounter[b] >= 1) BY <1>5, <1>6, <2>1, <2>3, Zenon
  <2> QED BY <2>1, <2>2, <2>4
<1>16. \A f \in events \ {e} : ~ (Starts(f) /\ f.host = h)
  BY <1>1, <1>3, <1>4 DEF Unique, Alike, Starts
<1>17. Due(b, t, others)
  <2>1. Unique(others)
    <3> SUFFICES ASSUME NEW f \in others, NEW g \in others, Alike(f, g) PROVE f = g
      BY DEF Unique
    <3>1. f \in events /\ g \in events => f = g BY <1>3 DEF Unique
    <3>2. f \in news <=> g \in news
      <4>1. \A a \in news : Starts(a) /\ a.host = h /\ a.kind = "burst" BY <1>14 DEF Starts
      <4> QED BY <1>11, <1>16, <4>1 DEF Alike
    <3> QED BY <1>11, <1>14, <3>1, <3>2
  <2>2. \A f \in others : ~ (f.kind = "packet" /\ f.burst = b)
    <3>1. \A f \in events : f.kind = "packet" => sentCounter[f.burst] >= 1
      BY <1>3 DEF PacketOK
    <3>2. ~ (sentCounter[b] >= 1) BY <1>15
    <3> QED BY <1>11, <1>14, <3>1, <3>2
  <2>3. \A f \in others : PacketOK(f) /\ ArrivalOK(f)
    BY <1>3, <1>11, <1>14 DEF PacketOK, ArrivalOK
  <2>4. t = SendTime(b, sentCounter[b]) BY <1>2, <1>8, <1>15, SendTimeFacts
  <2>5. ~ (sentCounter[b] >= 1) BY <1>15
  <2> QED BY <1>1, <1>7, <2>1, <2>2, <2>3, <2>4, <2>5, Zenon DEF Due
<1>18. /\ next' \in [Host -> Bursts \cup {None}] /\ next'[h] = after
       /\ \A g \in Host : g # h => next'[g] = next[g]
  BY <1>2, <1>12 DEF TypeInv
<1>19. \A f \in others : /\ f.kind \in {"app", "burst", "packet", "arrival"}
                         /\ AppOK(f) /\ StartOK(f)'
  <2>1. ASSUME NEW f \in events \ {e}
        PROVE  f.kind \in {"app", "burst", "packet", "arrival"} /\ AppOK(f) /\ StartOK(f)'
    <3>1. f.kind \in {"app", "burst", "packet", "arrival"} /\ AppOK(f) /\ StartOK(f) BY <1>3
    <3>2. StartOK(f)' BY <1>13, <1>16, <1>18, <3>1 DEF StartOK, Starts, Fixed
    <3> QED BY <3>1, <3>2
  <2>2. ASSUME NEW f \in news
        PROVE  f.kind \in {"app", "burst", "packet", "arrival"} /\ AppOK(f) /\ StartOK(f)'
    <3>1. f.kind = "burst" /\ f.host = h /\ after # None /\ f.ts = schedule'[after].start
      BY <1>1, <1>14
    <3> QED BY <1>18, <3>1 DEF AppOK, StartOK
  <2> QED BY <1>11, <2>1, <2>2
<1>20. /\ TypeInv' /\ \A c \in Bursts : BurstInv(c)'
       /\ \A f \in events' : EventOK(f)'
       /\ Unique(events') /\ GoesOn(b)' /\ others \subseteq events'
       /\ sentCounter'[b] = sentCounter[b] + 1
       /\ \A c \in Bursts : c # b => sentCounter'[c] = sentCounter[c]
  BY <1>1, <1>12, <1>13, <1>17, <1>18, <1>19, SendingKeeps
<1>21. ASSUME NEW g \in Host, g # h PROVE HostInv(g)'
  <2>1. HostInv(g) BY <1>3
  <2>2. \A f \in events : f.host = g /\ Starts(f) => f \in events'
    BY <1>4, <1>11, <1>20, <1>21
  <2>3. \A c \in Bursts : schedule[c].from = g => sentCounter'[c] = sentCounter[c]
    BY <1>15, <1>20, <1>21
  <2> QED BY <1>1, <1>13, <1>18, <1>21, <2>1, <2>2, <2>3 DEF HostInv
<1>22. HostInv(h)'
  <2>1. HostInv(h) BY <1>3
  <2>2. /\ after = None => \A c \in Bursts : schedule[c].from = h => c < b + 1
        /\ after # None =>
             /\ b + 1 <= after /\ schedule[after].from = h
             /\ \A c \in Bursts : schedule[c].from = h /\ b + 1 <= c => after <= c
    BY <1>2, <1>8, <1>9, FirstFromFacts
  <2>3. ASSUME NEW c \in Bursts, schedule[c].from = h
        PROVE  sentCounter'[c] >= 1 <=> after = None \/ c < after
    <3>1. c \in Nat /\ (after # None => after \in Nat)
      <4>1. \A d \in Bursts : d \in Nat BY <1>2, BurstFacts
      <4> QED BY <1>9, <4>1
    <3>2. CASE c = b
      <4>1. sentCounter'[c] >= 1 BY <1>15, <1>20, <3>2
      <4>2. after # None => c < after BY <1>8, <2>2, <3>1, <3>2
      <4> QED BY <4>1, <4>2
    <3>3. CASE c # b
      <4>1. sentCounter'[c] >= 1 <=> c < b
        <5>1. sentCounter[c] >= 1 <=> next[h] = None \/ c < next[h] BY <2>1, <2>3 DEF HostInv
        <5> QED BY <1>5, <1>6, <1>20, <3>3, <5>1, Zenon
      <4>2. CASE after = None
        <5>1. c < b BY <1>8, <2>2, <2>3, <3>1, <3>3, <4>2
        <5> QED BY <4>1, <4>2, <5>1
      <4>3. CASE after # None
        <5>1. c < after <=> c < b
          <6>1. b + 1 <= c => after <= c BY <2>2, <2>3, <4>3
          <6>2. b + 1 <= after BY <2>2, <4>3
          <6> QED BY <1>8, <3>1, <3>3, <4>3, <6>1, <6>2
        <5> QED BY <4>1, <4>3, <5>1
      <4> QED BY <4>2, <4>3
    <3> QED BY <3>2, <3>3
  <2>4. after # None => \E f \in events' : Starts(f) /\ f.host = h
    BY <1>11, <1>14, <1>20 DEF Starts
  <2> QED BY <1>1, <1>13, <1>18, <2>2, <2>3, <2>4 DEF HostInv
<1>23. ASSUME NEW c \in Bursts PROVE GoesOn(c)'
  <2>1. GoesOn(c) BY <1>3
  <2>2. \A f \in events : f.kind = "packet" => f \in events' BY <1>1, <1>11, <1>20
  <2>3. CASE c # b BY <1>1, <1>20, <2>1, <2>2, <2>3 DEF GoesOn, Over
  <2> QED BY <1>20, <2>3
<1> QED BY <1>12, <1>13, <1>20, <1>21, <1>22, <1>23, RunningKeeps

(* Nothing is left to run: no host waits for a start, so each burst began, *)
(* and the next packet of one that goes on comes after the end.            *)
LEMMA StopKeeps == IInv /\ Stop => IInv'
<1> SUFFICES ASSUME IInv, Stop PROVE IInv' OBVIOUS
<1>1. /\ phase = "running" /\ phase' = "stopped" /\ NothingLeft(events, endTime)
      /\ schedule' = schedule /\ endTime' = endTime /\ next' = next
      /\ sentCounter' = sentCounter /\ outLog' = outLog /\ received' = received
      /\ inLog' = inLog /\ results' = results
  BY DEF Stop, counters, arrived
<1>2. TypeInv /\ Acceptable /\ \A c \in Bursts : BurstInv(c) BY <1>1, RunningFacts
<1>3. /\ \A f \in events : AppOK(f) /\ StartOK(f) /\ PacketOK(f)
      /\ (\A g \in Host : HostInv(g)) /\ \A c \in Bursts : GoesOn(c)
  BY <1>1, RunningFacts
<1>4. Bursts' = Bursts /\ Acceptable' = Acceptable BY <1>1 DEF Bursts, Acceptable
<1>5. TypeInv' BY <1>1, <1>2, <1>4 DEF TypeInv
<1>6. \A c \in Bursts : BurstInv(c)'
  BY <1>1, <1>2 DEF BurstInv, SentInv, LastInv, GotInv, SendTime
<1>7. ASSUME NEW b \in Bursts
      PROVE  sentCounter[b] >= 1 /\ (Over(b) \/ endTime <= SendTime(b, sentCounter[b]))
  <2>1. \A c \in Bursts : schedule[c].start \in Nat /\ schedule[c].start < endTime
                          /\ schedule[c].from \in Host
    BY <1>2, BurstFacts DEF Acceptable
  <2>2. endTime \in Nat /\ sentCounter[b] \in Nat /\ next \in [Host -> Bursts \cup {None}]
    BY <1>2 DEF TypeInv
  <2>3. \A f \in events : endTime <= f.ts BY <1>1 DEF NothingLeft
  <2>4. PICK h \in Host : h = schedule[b].from BY <2>1
  <2>5. \A f \in events : ~ (f.kind = "app")
    <3>1. 0 < endTime BY <2>1, <2>2
    <3>2. ~ (endTime <= 0) BY <2>2, <3>1
    <3> QED BY <1>3, <2>3, <3>2 DEF AppOK
  <2>6. \A f \in events : ~ (f.kind = "burst" /\ f.host = h)
    <3> SUFFICES ASSUME NEW f \in events, f.kind = "burst", f.host = h PROVE FALSE OBVIOUS
    <3>1. next[h] # None /\ f.ts = schedule[next[h]].start BY <1>3 DEF StartOK
    <3>2. next[h] \in Bursts BY <2>2, <3>1
    <3>3. f.ts \in Nat /\ f.ts < endTime BY <2>1, <3>1, <3>2
    <3>4. endTime <= f.ts BY <2>3
    <3> QED BY <2>2, <3>3, <3>4
  <2>7. next[h] = None BY <1>3, <2>5, <2>6 DEF HostInv, Starts
  <2>8. sentCounter[b] >= 1 BY <1>3, <2>4, <2>7 DEF HostInv
  <2>9. Over(b) \/ endTime <= SendTime(b, sentCounter[b])
    <3>1. CASE Over(b) BY <3>1
    <3>2. CASE ~Over(b)
      <4>1. PICK f \in events : f.kind = "packet" /\ f.burst = b BY <1>3, <2>8, <3>2 DEF GoesOn
      <4>2. f.ts = SendTime(b, sentCounter[b]) BY <1>3, <4>1 DEF PacketOK
      <4> QED BY <2>3, <4>2
    <3> QED BY <3>1, <3>2
  <2> QED BY <2>8, <2>9
<1>8. StoppedInv' BY <1>1, <1>4, <1>7 DEF StoppedInv, Over, SendTime
<1>9. PhaseInv' BY <1>1, <1>2, <1>4 DEF PhaseInv
<1> QED BY <1>1, <1>4, <1>5, <1>6, <1>8, <1>9
        DEF IInv, ReadingInv, RunInv, SentFillsDuration

(* The packets of a burst cover the time it had, up to less than a gap.    *)
LEMMA SentCovers ==
    ASSUME NEW n \in Nat, NEW g \in Nat \ {0}, NEW s \in Nat, NEW d \in Nat, NEW z \in Nat,
           n >= 1, s < z, n >= 2 => (n - 1) * g < d /\ s + (n - 1) * g < z,
           d <= n * g \/ z <= s + n * g,
           NEW eff, eff = IF s + d >= z THEN z - s ELSE d,
           NEW had, had = IF eff = 0 THEN 1 ELSE eff
    PROVE  (n - 1) * g < had /\ had <= n * g
<1>1. n - 1 \in Nat /\ n = (n - 1) + 1 OBVIOUS
<1> DEFINE x == (n - 1) * g
           y == n * g
<1>2. x \in Nat /\ y \in Nat /\ y = x + g
  <2>1. \A m \in Nat : m * g \in Nat /\ (m + 1) * g = m * g + g BY Times
  <2> QED BY <1>1, <2>1
<1>3. n = 1 => x = 0
  <2>1. 0 * g = 0 BY Times
  <2> QED BY <2>1
<1>4. n = 1 \/ n >= 2 OBVIOUS
<1>5. n >= 2 => x < d /\ s + x < z OBVIOUS
<1>6. d <= y \/ z <= s + y OBVIOUS
<1> HIDE DEF x, y
<1>7. eff \in Nat /\ ((eff = z - s /\ d >= z - s) \/ (eff = d /\ d < z - s)) OBVIOUS
<1>8. x < had
  <2>1. CASE n = 1 BY <1>2, <1>3, <1>7, <2>1
  <2>2. CASE n >= 2 BY <1>2, <1>5, <1>7, <2>2
  <2> QED BY <1>4, <2>1, <2>2
<1>9. had <= y
  <2>1. 1 <= y BY <1>2
  <2>2. eff <= y BY <1>2, <1>6, <1>7
  <2> QED BY <2>1, <2>2
<1> QED BY <1>8, <1>9 DEF x, y

LEMMA WriteResultsKeeps == IInv /\ WriteResults => IInv'
<1> SUFFICES ASSUME IInv, WriteResults PROVE IInv' OBVIOUS
<1>1. /\ phase = "stopped" /\ phase' = "written"
      /\ schedule' = schedule /\ endTime' = endTime /\ next' = next
      /\ sentCounter' = sentCounter /\ outLog' = outLog /\ received' = received
      /\ inLog' = inLog
      /\ results' = [b \in Bursts |-> [sent |-> sentCounter[b], received |-> received[b],
                                       duration |-> EffectiveDuration(b)]]
  BY DEF WriteResults, counters, arrived
<1>2. /\ TypeInv /\ Acceptable /\ \A c \in Bursts : BurstInv(c)
      /\ \A c \in Bursts : /\ sentCounter[c] >= 1
                           /\ Over(c) \/ endTime <= SendTime(c, sentCounter[c])
  BY <1>1 DEF IInv, PhaseInv, StoppedInv
<1>3. TypeInv /\ Acceptable /\ \A c \in Bursts : BurstInv(c) BY <1>1 DEF IInv, PhaseInv
<1>4. Bursts' = Bursts /\ Acceptable' = Acceptable BY <1>1 DEF Bursts, Acceptable
<1>5. TypeInv' BY <1>1, <1>3, <1>4 DEF TypeInv
<1>6. \A c \in Bursts : BurstInv(c)'
  BY <1>1, <1>3 DEF BurstInv, SentInv, LastInv, GotInv, SendTime
<1>7. StoppedInv'
  <2>1. StoppedInv BY DEF IInv
  <2> QED BY <1>1, <1>4, <2>1 DEF StoppedInv, Over, SendTime
<1>8. PhaseInv' BY <1>1, <1>3, <1>4 DEF PhaseInv
<1>9. ASSUME NEW b \in Bursts
      PROVE  LET had == IF EffectiveDuration(b) = 0 THEN 1 ELSE EffectiveDuration(b) IN
             /\ (sentCounter[b] - 1) * schedule[b].gap < had
             /\ had <= sentCounter[b] * schedule[b].gap
  <2>1. /\ schedule[b].start \in Nat /\ schedule[b].duration \in Nat
        /\ schedule[b].gap \in Nat \ {0} /\ schedule[b].start < endTime
        /\ endTime \in Nat /\ sentCounter[b] \in Nat
    BY <1>3, BurstFacts DEF TypeInv, Acceptable
  <2>2. sentCounter[b] >= 2 =>
            /\ (sentCounter[b] - 1) * schedule[b].gap < schedule[b].duration
            /\ schedule[b].start + (sentCounter[b] - 1) * schedule[b].gap < endTime
    BY <1>3 DEF BurstInv, LastInv, SendTime
  <2>3. StoppedInv BY DEF IInv
  <2>4. sentCounter[b] >= 1
        /\ (schedule[b].duration <= sentCounter[b] * schedule[b].gap
            \/ endTime <= schedule[b].start + sentCounter[b] * schedule[b].gap)
    BY <1>1, <2>3 DEF StoppedInv, Over, SendTime
  <2>5. EffectiveDuration(b) = IF schedule[b].start + schedule[b].duration >= endTime
                               THEN endTime - schedule[b].start ELSE schedule[b].duration
    BY DEF EffectiveDuration
  <2> QED BY ONLY <2>1, <2>2, <2>4, <2>5, SentCovers
<1>10. ASSUME NEW b \in Bursts
       PROVE  results'[b].sent = sentCounter[b] /\ results'[b].duration = EffectiveDuration(b)
  <2>1. results'[b] = [sent |-> sentCounter[b], received |-> received[b],
                       duration |-> EffectiveDuration(b)]
    BY <1>1
  <2> QED BY <2>1
<1>11. SentFillsDuration' BY <1>1, <1>4, <1>9, <1>10, Zenon DEF SentFillsDuration
<1> QED BY <1>1, <1>4, <1>5, <1>6, <1>7, <1>8, <1>11 DEF IInv, ReadingInv, RunInv

LEMMA InvariantPreserved == IInv /\ [Next]_vars => IInv'
<1> SUFFICES ASSUME IInv, [Next]_vars PROVE IInv' OBVIOUS
<1>1. CASE UNCHANGED vars
  <2>1. /\ schedule' = schedule /\ endTime' = endTime /\ phase' = phase /\ events' = events
        /\ next' = next /\ sentCounter' = sentCounter /\ outLog' = outLog
        /\ received' = received /\ inLog' = inLog /\ results' = results
    BY <1>1 DEF vars, counters, arrived
  <2>2. Bursts' = Bursts /\ Acceptable' = Acceptable BY <2>1 DEF Bursts, Acceptable
  <2>3. TypeInv' /\ PhaseInv' BY <2>1, <2>2 DEF IInv, TypeInv, PhaseInv
  <2>4. \A b \in Bursts : BurstInv(b)'
    BY <2>1 DEF IInv, BurstInv, SentInv, LastInv, GotInv, SendTime
  <2>5. ReadingInv' BY <2>1, <2>2 DEF IInv, ReadingInv
  <2>6. StoppedInv' BY <2>1, <2>2 DEF IInv, StoppedInv, Over, SendTime
  <2>7. SentFillsDuration' BY <2>1, <2>2 DEF IInv, SentFillsDuration
  <2>8. RunInv'
    <3> SUFFICES ASSUME phase = "running" PROVE RunInv' BY <2>1 DEF RunInv
    <3>1. /\ \A e \in events : EventOK(e)
          /\ Unique(events) /\ (\A h \in Host : HostInv(h)) /\ \A b \in Bursts : GoesOn(b)
      BY RunningFacts
    <3>2. \A e \in events : EventOK(e)'
      BY <2>1, <3>1 DEF EventOK, AppOK, StartOK, PacketOK, ArrivalOK, SendTime, Bursts
    <3>3. \A h \in Host : HostInv(h)' BY <2>1, <2>2, <3>1 DEF HostInv
    <3>4. \A b \in Bursts : GoesOn(b)' BY <2>1, <3>1 DEF GoesOn, Over
    <3> QED BY <2>1, <2>2, <3>1, <3>2, <3>3, <3>4 DEF RunInv
  <2> QED BY <2>2, <2>3, <2>4, <2>5, <2>6, <2>7, <2>8 DEF IInv
<1>2. CASE Next
  BY <1>2, ConstructSchedulerKeeps, StartApplicationKeeps, StartNextBurstKeeps,
     SendNextPacketKeeps, HandleReadKeeps, StopKeeps, WriteResultsKeeps, Zenon DEF Next, RunEvent
<1> QED BY <1>1, <1>2

LEMMA IInvAlways == Spec => []IInv
BY Initially, InvariantPreserved, PTL DEF Spec
-----------------------------------------------------------------------------
(***************************************************************************)
(* An accepted schedule makes no exception in a run: each start comes at   *)
(* the time of the burst it is for.                                        *)
(***************************************************************************)
THEOREM UdpNeverThrows == Spec => []NeverThrows
<1>1. IInv => NeverThrows BY DEF IInv, PhaseInv, NeverThrows
<1> QED BY <1>1, IInvAlways, PTL

(***************************************************************************)
(* Packet k of a burst leaves k gaps after its start with number k.        *)
(***************************************************************************)
THEOREM UdpSentOnTime == Spec => []SentOnTime
<1>1. IInv => SentOnTime BY DEF IInv, BurstInv, SentInv, SendTime, SentOnTime
<1> QED BY <1>1, IInvAlways, PTL

(***************************************************************************)
(* The results report as many packets as gaps began in the time a burst    *)
(* had, so its rate is the target rate to within a packet.                 *)
(***************************************************************************)
THEOREM UdpSentFillsDuration == Spec => []SentFillsDuration
<1>1. IInv => SentFillsDuration BY DEF IInv
<1> QED BY <1>1, IInvAlways, PTL

(***************************************************************************)
(* What a host counts and logs as received was sent before, each packet    *)
(* once, whatever the network loses, delays and reorders.                  *)
(***************************************************************************)
THEOREM UdpReceivedWasSent == Spec => []ReceivedWasSent
<1>1. ASSUME IInv, NEW b \in Bursts
      PROVE  /\ received[b] = Len(inLog[b]) /\ received[b] <= sentCounter[b]
             /\ \A i, j \in DOMAIN inLog[b] : i # j => inLog[b][i].seq # inLog[b][j].seq
             /\ \A i \in DOMAIN inLog[b] : \E k \in DOMAIN outLog[b] :
                  outLog[b][k].seq = inLog[b][i].seq /\ outLog[b][k].ts <= inLog[b][i].ts
  <2>1. TypeInv /\ SentInv(b) /\ GotInv(b) BY <1>1 DEF IInv, BurstInv
  <2>2. /\ inLog[b] \in Seq(Line) /\ outLog[b] \in Seq(Line)
        /\ sentCounter[b] \in Nat /\ Len(inLog[b]) \in Nat
    BY <2>1 DEF TypeInv
  <2>3. DOMAIN inLog[b] = 1..Len(inLog[b]) /\ DOMAIN outLog[b] = 1..sentCounter[b]
    BY <2>1, <2>2 DEF SentInv
  <2>4. \A i \in 1..Len(inLog[b]) : inLog[b][i].seq \in Nat
    <3>1. \A i \in 1..Len(inLog[b]) : inLog[b][i] \in Line BY <2>2
    <3> QED BY <3>1 DEF Line
  <2>5. received[b] <= sentCounter[b]
    <3> DEFINE S == 1..Len(inLog[b])
               T == 0..(sentCounter[b] - 1)
               f == [i \in S |-> inLog[b][i].seq]
    <3>1. f \in [S -> T] BY <2>1, <2>2, <2>4 DEF GotInv
    <3>2. \A i, j \in S : f[i] = f[j] => i = j BY <2>1 DEF GotInv
    <3>3. IsFiniteSet(S) /\ Cardinality(S) = Len(inLog[b])
      <4>1. Len(inLog[b]) \in Int /\ 1 \in Int BY <2>2
      <4>2. /\ IsFiniteSet(S)
            /\ Cardinality(S) = IF 1 > Len(inLog[b]) THEN 0 ELSE Len(inLog[b]) - 1 + 1
        BY <4>1, FS_Interval
      <4> QED BY <2>2, <4>2
    <3>4. IsFiniteSet(T) /\ Cardinality(T) = sentCounter[b]
      <4>1. sentCounter[b] - 1 \in Int /\ 0 \in Int BY <2>2
      <4>2. /\ IsFiniteSet(T)
            /\ Cardinality(T) = IF 0 > sentCounter[b] - 1 THEN 0 ELSE (sentCounter[b] - 1) - 0 + 1
        BY <4>1, FS_Interval
      <4> QED BY <2>2, <4>2
    <3> HIDE DEF S, T, f
    <3>5. ~ (Cardinality(T) < Cardinality(S)) BY <3>1, <3>2, <3>3, <3>4, FS_PigeonHole
    <3> QED BY <2>1, <2>2, <3>3, <3>4, <3>5 DEF GotInv
  <2>6. \A i, j \in DOMAIN inLog[b] : i # j => inLog[b][i].seq # inLog[b][j].seq
    BY <2>1, <2>3 DEF GotInv
  <2>7. ASSUME NEW i \in 1..Len(inLog[b])
        PROVE  \E k \in 1..sentCounter[b] :
                 outLog[b][k].seq = inLog[b][i].seq /\ outLog[b][k].ts <= inLog[b][i].ts
    <3>1. PICK n \in Nat : n = inLog[b][i].seq BY <2>4
    <3>2. n < sentCounter[b] /\ SendTime(b, n) <= inLog[b][i].ts BY <2>1, <3>1 DEF GotInv
    <3>3. n + 1 \in 1..sentCounter[b] /\ (n + 1) - 1 = n BY <2>2, <3>2
    <3>4. outLog[b][n + 1] = [seq |-> n, ts |-> SendTime(b, n)] BY <2>1, <3>3 DEF SentInv
    <3>5. outLog[b][n + 1].seq = n /\ outLog[b][n + 1].ts = SendTime(b, n) BY <3>4
    <3> QED BY <3>1, <3>2, <3>3, <3>5
  <2> QED BY <2>1, <2>3, <2>5, <2>6, <2>7 DEF GotInv
<1>2. IInv => ReceivedWasSent BY <1>1 DEF ReceivedWasSent
<1> QED BY <1>2, IInvAlways, PTL
=============================================================================
