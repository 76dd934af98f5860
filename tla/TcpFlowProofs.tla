---------------------------- MODULE TcpFlowProofs ----------------------------
(***************************************************************************)
(* Proofs about TCP flows, for any schedules, sizes, buffers, round-trip   *)
(* times and bounds, and any order of the callbacks of the sockets.        *)
(***************************************************************************)
EXTENDS TcpFlow, TLAPS

OpenStates == {"handshake", "established", "closing"}
OverStates == {"failed", "normal", "error"}
SocketState == {"none"} \cup OpenStates \cup OverStates
Line == [ts : Nat, byte : Nat]

TypeInv ==
    /\ schedule \in Schedules /\ endTime \in Nat /\ now \in Nat /\ now <= endTime
    /\ apps \in 0..Len(schedule)
    /\ socket \in [Flows -> SocketState]
    /\ buffer \in [Flows -> 0..BufferSize] /\ acknowledged \in [Flows -> Nat]
    /\ totBytes \in [Flows -> Nat] /\ ackedBytes \in [Flows -> Nat]
    /\ hasSocket \in [Flows -> BOOLEAN] /\ connected \in [Flows -> BOOLEAN]
    /\ isCompleted \in [Flows -> BOOLEAN]
    /\ closed \in [Flows -> {"no"} \cup OverStates] /\ completion \in [Flows -> Int]
    /\ progressLog \in [Flows -> Seq(Line)]

(* No byte is lost between the application, its buffer and the other side. *)
BytesInv(i) ==
    /\ totBytes[i] = acknowledged[i] + buffer[i]
    /\ ~Unlimited(i) => totBytes[i] <= schedule[i].size
    /\ socket[i] \in {"none", "handshake"} => totBytes[i] = 0

(* What the flags of the application say of the socket. *)
StateInv(i) ==
    /\ socket[i] \in OpenStates => hasSocket[i]
    /\ socket[i] = "established" => connected[i] /\ totBytes[i] # schedule[i].size
    /\ socket[i] = "closing" => ~connected[i] /\ totBytes[i] = schedule[i].size

(* What is kept of a flow that is over; of one that is not there is none. *)
EndInv(i) ==
    /\ socket[i] \notin OverStates => closed[i] = "no" /\ ~isCompleted[i]
    /\ socket[i] \in OverStates =>
         /\ closed[i] = socket[i] /\ ackedBytes[i] = acknowledged[i]
         /\ schedule[i].start <= completion[i] /\ completion[i] <= now
         /\ isCompleted[i] <=> socket[i] = "normal" /\ acknowledged[i] = schedule[i].size

(* The log never goes back, and is not ahead of its flow. *)
Ascending(log) ==
    \A k \in 2..Len(log) : log[k-1].ts <= log[k].ts /\ log[k-1].byte <= log[k].byte
UpTo(log, t, b) == \A k \in 1..Len(log) : log[k].ts <= t /\ log[k].byte <= b
LogInv(i) ==
    /\ Ascending(progressLog[i]) /\ UpTo(progressLog[i], LastTime(i), acknowledged[i])
    /\ socket[i] = "none" => progressLog[i] = <<>>
    /\ socket[i] # "none" => /\ progressLog[i] # <<>>
                             /\ progressLog[i][1] = [ts |-> schedule[i].start, byte |-> 0]
                             /\ schedule[i].start <= now

FlowInv(i) == BytesInv(i) /\ StateInv(i) /\ EndInv(i) /\ LogInv(i)

(* The flows start in their order: the events left are the start of the    *)
(* next flow and of the applications that wait for theirs.                 *)
ReadingInv == phase = "reading" =>
    events = {} /\ apps = 0 /\ now = 0 /\ \A i \in Flows : socket[i] = "none"
EventOK(e) ==
    /\ e.flow \in Flows /\ e.ts = schedule[e.flow].start /\ now <= e.ts
    /\ e.kind \in {"next", "app"}
    /\ e.kind = "next" => e.flow = apps + 1
    /\ e.kind = "app" => e.flow <= apps /\ socket[e.flow] = "none"
StartsInv == phase = "running" =>
    /\ Acceptable
    /\ \A e \in events : EventOK(e)
    /\ \A e, f \in events : e.kind = f.kind /\ e.flow = f.flow => e = f
    /\ apps < Len(schedule) => \E e \in events : e.kind = "next"
    /\ \A i \in Flows : i <= apps /\ socket[i] = "none" =>
           \E e \in events : e.kind = "app" /\ e.flow = i
    /\ \A i \in Flows : i > apps => socket[i] = "none"
StoppedInv == phase \in {"stopped", "written"} =>
    /\ Acceptable /\ apps = Len(schedule) /\ \A i \in Flows : socket[i] # "none"
WrittenInv == phase = "written" =>
    \A i \in Flows : /\ results[i].sent = acknowledged[i]
                     /\ progressLog[i][Len(progressLog[i])].byte = acknowledged[i]

IInv ==
    /\ TypeInv /\ phase # "crashed" /\ \A i \in Flows : FlowInv(i)
    /\ ReadingInv /\ StartsInv /\ StoppedInv /\ WrittenInv /\ ResultsAreTrue
-----------------------------------------------------------------------------
LEMMA FlowFacts ==
    ASSUME TypeInv, NEW i \in Flows
    PROVE  /\ schedule[i].start \in Nat /\ schedule[i].size \in Nat
           /\ Len(schedule) \in Nat /\ schedule[i] \in Flow
<1>1. schedule \in Seq(Flow) BY FlowAssumption DEF TypeInv
<1>2. schedule[i] \in Flow /\ Len(schedule) \in Nat BY <1>1 DEF Flows
<1> QED BY <1>2 DEF Flow

(* A line that is not behind the log. *)
LEMMA AppendFacts ==
    ASSUME NEW log \in Seq(Line), NEW x \in Line, Ascending(log), UpTo(log, x.ts, x.byte)
    PROVE  /\ Append(log, x) \in Seq(Line) /\ Append(log, x) # <<>>
           /\ Ascending(Append(log, x)) /\ UpTo(Append(log, x), x.ts, x.byte)
           /\ Append(log, x)[Len(Append(log, x))] = x
           /\ log # <<>> => Append(log, x)[1] = log[1]
<1> DEFINE new == Append(log, x)
           n == Len(log)
<1>1. /\ n \in Nat /\ new \in Seq(Line) /\ Len(new) = n + 1 /\ new[n + 1] = x
      /\ \A k \in 1..n : new[k] = log[k]
  OBVIOUS
<1>2. x.ts \in Nat /\ x.byte \in Nat BY DEF Line
<1>3. new # <<>> BY <1>1
<1>4. log # <<>> => 1 \in 1..n OBVIOUS
<1> HIDE DEF new, n
<1>5. \A k \in 1..n : log[k].ts <= x.ts /\ log[k].byte <= x.byte BY DEF UpTo, n
<1>6. UpTo(new, x.ts, x.byte)
  <2> SUFFICES ASSUME NEW k \in 1..Len(new) PROVE new[k].ts <= x.ts /\ new[k].byte <= x.byte
    BY DEF UpTo
  <2>1. k \in 1..n \/ k = n + 1 BY <1>1
  <2> QED BY <2>1, <1>1, <1>2, <1>5
<1>7. Ascending(new)
  <2> SUFFICES ASSUME NEW k \in 2..Len(new)
               PROVE  new[k-1].ts <= new[k].ts /\ new[k-1].byte <= new[k].byte
    BY DEF Ascending
  <2>1. CASE k \in 2..n
    <3>1. k - 1 \in 1..n /\ k \in 1..n BY <1>1, <2>1
    <3>2. log[k-1].ts <= log[k].ts /\ log[k-1].byte <= log[k].byte BY <2>1 DEF Ascending, n
    <3> QED BY <3>1, <3>2, <1>1
  <2>2. CASE k = n + 1
    <3>1. k - 1 \in 1..n BY <1>1, <2>2
    <3> QED BY <3>1, <2>2, <1>1, <1>5
  <2> QED BY <2>1, <2>2, <1>1
<1> QED BY <1>1, <1>3, <1>4, <1>6, <1>7 DEF new

LEMMA UpToLater ==
    ASSUME NEW log \in Seq(Line), NEW t \in Int, NEW u \in Int, t <= u,
           NEW a \in Nat, NEW b \in Nat, a <= b, UpTo(log, t, a)
    PROVE  UpTo(log, u, b)
<1>1. \A x \in Line : x.ts \in Nat /\ x.byte \in Nat BY DEF Line
<1>2. \A k \in 1..Len(log) : log[k] \in Line OBVIOUS
<1>3. \A k \in 1..Len(log) : log[k].ts <= t /\ log[k].byte <= a BY DEF UpTo
<1> SUFFICES ASSUME NEW k \in 1..Len(log) PROVE log[k].ts <= u /\ log[k].byte <= b
  BY DEF UpTo
<1> QED BY <1>1, <1>2, <1>3

(* What a step leaves of a flow it is not about. *)
Same(j) ==
    /\ socket'[j] = socket[j] /\ buffer'[j] = buffer[j] /\ acknowledged'[j] = acknowledged[j]
    /\ hasSocket'[j] = hasSocket[j] /\ connected'[j] = connected[j]
    /\ totBytes'[j] = totBytes[j] /\ closed'[j] = closed[j] /\ ackedBytes'[j] = ackedBytes[j]
    /\ isCompleted'[j] = isCompleted[j] /\ completion'[j] = completion[j]
    /\ progressLog'[j] = progressLog[j]

LEMMA OtherFlows ==
    ASSUME TypeInv, NEW j \in Flows, FlowInv(j), Same(j), schedule' = schedule,
           now' \in Nat, now <= now'
    PROVE  FlowInv(j)'
<1>1. BytesInv(j)' BY DEF FlowInv, BytesInv, Same, Unlimited
<1>2. StateInv(j)' BY DEF FlowInv, StateInv, Same
<1>3. completion[j] \in Int /\ schedule[j].start \in Nat /\ now \in Nat
  BY FlowFacts DEF TypeInv
<1>4. EndInv(j)' BY <1>3 DEF FlowInv, EndInv, Same
<1>5. UpTo(progressLog[j], LastTime(j), acknowledged[j])'
  <2>1. progressLog[j] \in Seq(Line) /\ acknowledged[j] \in Nat BY DEF TypeInv
  <2>2. LastTime(j)' \in Int /\ LastTime(j) \in Int /\ LastTime(j) <= LastTime(j)'
    BY <1>3 DEF LastTime, Same
  <2>3. UpTo(progressLog[j], LastTime(j), acknowledged[j]) BY DEF FlowInv, LogInv
  <2>4. UpTo(progressLog[j], LastTime(j)', acknowledged[j])
    BY ONLY <2>1, <2>2, <2>3, acknowledged[j] <= acknowledged[j], UpToLater
  <2> QED BY <2>4 DEF Same
<1>6. LogInv(j)' BY <1>3, <1>5 DEF FlowInv, LogInv, Same
<1> QED BY <1>1, <1>2, <1>4, <1>6 DEF FlowInv
-----------------------------------------------------------------------------
(* SendData hands over what fits and is left, and closes after the last.   *)
LEMMA HandedOverFacts ==
    ASSUME TypeInv, NEW i \in Flows, BytesInv(i), NEW room \in Nat, NEW n \in HandedOver(i, room)
    PROVE  n \in Nat /\ n <= room /\ (~Unlimited(i) => totBytes[i] + n <= schedule[i].size)
<1> DEFINE left == schedule[i].size - totBytes[i]
           whole == (room \div SendSize) * SendSize
<1>1. totBytes[i] \in Nat /\ schedule[i].size \in Nat BY FlowFacts DEF TypeInv
<1>2. ~Unlimited(i) => left \in Nat BY <1>1 DEF BytesInv
<1>3. whole \in Nat
  <2>1. SendSize \in Nat \ {0} BY FlowAssumption
  <2>2. room \div SendSize \in Nat BY <2>1
  <2> QED BY <2>1, <2>2
<1>4. CASE ~Unlimited(i) /\ left <= room
  <2>1. n = left BY <1>4 DEF HandedOver
  <2> QED BY <2>1, <1>1, <1>2, <1>4
<1>5. CASE ~(~Unlimited(i) /\ left <= room)
  <2>1. n \in whole..room BY <1>5 DEF HandedOver
  <2> HIDE DEF whole
  <2>2. n \in Nat /\ n <= room BY <2>1, <1>3
  <2> QED BY <2>2, <1>1, <1>2, <1>5
<1> QED BY <1>4, <1>5

LEMMA SendDataFacts ==
    ASSUME TypeInv, NEW i \in Flows, BytesInv(i), NEW gone \in 0..buffer[i], SendData(i, gone)
    PROVE  \E n \in Nat, all \in BOOLEAN :
             /\ n <= BufferSize - (buffer[i] - gone)
             /\ ~Unlimited(i) => totBytes[i] + n <= schedule[i].size
             /\ all <=> totBytes[i] + n = schedule[i].size
             /\ totBytes' = [totBytes EXCEPT ![i] = totBytes[i] + n]
             /\ buffer' = [buffer EXCEPT ![i] = buffer[i] - gone + n]
             /\ connected' = [connected EXCEPT ![i] = ~all]
             /\ socket' = [socket EXCEPT ![i] = IF all THEN "closing" ELSE "established"]
<1>1. buffer[i] \in 0..BufferSize /\ BufferSize \in Nat BY FlowAssumption DEF TypeInv
<1>2. BufferSize - (buffer[i] - gone) \in Nat BY <1>1
<1>3. PICK n \in HandedOver(i, BufferSize - (buffer[i] - gone)) :
         /\ totBytes' = [totBytes EXCEPT ![i] = totBytes[i] + n]
         /\ buffer' = [buffer EXCEPT ![i] = buffer[i] - gone + n]
         /\ connected' = [connected EXCEPT ![i] = ~(totBytes[i] + n = schedule[i].size)]
         /\ socket' = [socket EXCEPT ![i] = IF totBytes[i] + n = schedule[i].size
                                            THEN "closing" ELSE "established"]
  BY DEF SendData
<1>4. /\ n \in Nat /\ n <= BufferSize - (buffer[i] - gone)
      /\ ~Unlimited(i) => totBytes[i] + n <= schedule[i].size
  BY <1>2, HandedOverFacts
<1> DEFINE all == totBytes[i] + n = schedule[i].size
<1>5. all \in BOOLEAN OBVIOUS
<1>6. /\ connected' = [connected EXCEPT ![i] = ~all]
      /\ socket' = [socket EXCEPT ![i] = IF all THEN "closing" ELSE "established"]
  BY <1>3
<1>7. all <=> totBytes[i] + n = schedule[i].size OBVIOUS
<1> HIDE DEF all
<1>8. n \in Nat BY <1>4
<1> QED BY <1>3, <1>4, <1>5, <1>6, <1>7, <1>8, Zenon

(* The bytes and the state of a flow after a callback in which gone bytes  *)
(* were acknowledged and the application sent.                             *)
LEMMA SendDataKeeps ==
    ASSUME TypeInv, NEW i \in Flows, BytesInv(i), NEW gone \in 0..buffer[i], SendData(i, gone),
           acknowledged' = [acknowledged EXCEPT ![i] = acknowledged[i] + gone],
           schedule' = schedule
    PROVE  /\ totBytes' \in [Flows -> Nat] /\ buffer' \in [Flows -> 0..BufferSize]
           /\ connected' \in [Flows -> BOOLEAN] /\ socket' \in [Flows -> SocketState]
           /\ acknowledged' \in [Flows -> Nat]
           /\ socket'[i] \in {"established", "closing"}
           /\ \A j \in Flows \ {i} : /\ totBytes'[j] = totBytes[j] /\ buffer'[j] = buffer[j]
                                      /\ connected'[j] = connected[j] /\ socket'[j] = socket[j]
                                      /\ acknowledged'[j] = acknowledged[j]
           /\ BytesInv(i)'
           /\ socket'[i] = "established" => connected'[i] /\ totBytes'[i] # schedule[i].size
           /\ socket'[i] = "closing" => ~connected'[i] /\ totBytes'[i] = schedule[i].size
<1>1. PICK n \in Nat, all \in BOOLEAN :
             /\ n <= BufferSize - (buffer[i] - gone)
             /\ ~Unlimited(i) => totBytes[i] + n <= schedule[i].size
             /\ all <=> totBytes[i] + n = schedule[i].size
             /\ totBytes' = [totBytes EXCEPT ![i] = totBytes[i] + n]
             /\ buffer' = [buffer EXCEPT ![i] = buffer[i] - gone + n]
             /\ connected' = [connected EXCEPT ![i] = ~all]
             /\ socket' = [socket EXCEPT ![i] = IF all THEN "closing" ELSE "established"]
  BY SendDataFacts, Zenon
<1>20. /\ totBytes \in [Flows -> Nat] /\ buffer \in [Flows -> 0..BufferSize]
  BY DEF TypeInv
<1>2. /\ buffer[i] \in 0..BufferSize /\ BufferSize \in Nat /\ totBytes[i] \in Nat
      /\ acknowledged[i] \in Nat /\ schedule[i].size \in Nat
  BY FlowFacts, FlowAssumption DEF TypeInv
<1>3. buffer[i] - gone + n \in 0..BufferSize BY <1>1, <1>2
<1>4. totBytes' \in [Flows -> Nat] /\ buffer' \in [Flows -> 0..BufferSize]
  <2>1. totBytes[i] + n \in Nat BY <1>1, <1>2
  <2>2. totBytes' \in [Flows -> Nat] BY ONLY <1>20, <1>1, <2>1
  <2>3. buffer' \in [Flows -> 0..BufferSize] BY ONLY <1>20, <1>1, <1>3
  <2> QED BY <2>2, <2>3
<1>5. acknowledged' \in [Flows -> Nat] BY <1>2 DEF TypeInv
<1>6. connected' \in [Flows -> BOOLEAN] BY <1>1 DEF TypeInv
<1>7. socket' \in [Flows -> SocketState] BY <1>1 DEF TypeInv, SocketState, OpenStates
<1>8. /\ totBytes'[i] = totBytes[i] + n /\ buffer'[i] = buffer[i] - gone + n
      /\ acknowledged'[i] = acknowledged[i] + gone
      /\ socket'[i] = IF all THEN "closing" ELSE "established"
  BY <1>1 DEF TypeInv
<1>9. connected'[i] = ~all BY <1>1 DEF TypeInv
<1>10. \A j \in Flows \ {i} : /\ totBytes'[j] = totBytes[j] /\ buffer'[j] = buffer[j]
                              /\ socket'[j] = socket[j] /\ acknowledged'[j] = acknowledged[j]
  BY <1>1 DEF TypeInv
<1>11. \A j \in Flows \ {i} : connected'[j] = connected[j] BY <1>1 DEF TypeInv
<1>12. socket'[i] \in {"established", "closing"} BY <1>8
<1>13. BytesInv(i)'
  <2>1. totBytes'[i] = acknowledged'[i] + buffer'[i] BY <1>2, <1>8 DEF BytesInv
  <2>2. ~Unlimited(i) => totBytes'[i] <= schedule[i].size BY <1>1, <1>8
  <2> QED BY <2>1, <2>2, <1>12 DEF BytesInv, Unlimited
<1>14. /\ socket'[i] = "established" => ~all /\ totBytes'[i] # schedule[i].size
       /\ socket'[i] = "closing" => all /\ totBytes'[i] = schedule[i].size
  BY <1>1, <1>8
<1> QED BY <1>4, <1>5, <1>6, <1>7, <1>9, <1>10, <1>11, <1>12, <1>13, <1>14
-----------------------------------------------------------------------------
(* The steps.  A callback of the socket comes when no event is due.        *)
LEMMA CallbackFacts ==
    ASSUME IInv, NEW i \in Flows, NEW t \in 0..(endTime - 1), NEW states, CallsBack(i, t, states)
    PROVE  /\ schedule' = schedule /\ endTime' = endTime /\ apps' = apps /\ events' = events
           /\ results' = results /\ now' = t /\ phase = "running" /\ socket[i] \in states
           /\ now' \in Nat /\ now <= now' /\ now' <= endTime
           /\ \A e \in events : now' <= e.ts
           /\ TypeInv /\ StartsInv /\ \A j \in Flows : FlowInv(j)
<1>1. endTime \in Nat BY DEF IInv, TypeInv
<1> QED BY <1>1 DEF CallsBack, config, IInv

(* A callback that leaves the other flows alone and does not undo a start  *)
(* keeps what concerns the events.                                         *)
LEMMA CallbackKeeps ==
    ASSUME IInv, NEW i \in Flows, NEW t \in 0..(endTime - 1), NEW states, CallsBack(i, t, states),
           phase' \in {"running", "thrown"}, TypeInv', FlowInv(i)',
           \A j \in Flows \ {i} : Same(j),
           socket[i] # "none", socket'[i] # "none"
    PROVE  IInv'
<1>1. Flows' = Flows BY CallbackFacts DEF Flows
<1>2. \A j \in Flows \ {i} : FlowInv(j)' BY CallbackFacts, OtherFlows
<1>3. \A j \in Flows : FlowInv(j)' BY <1>2
<1>4. \A j \in Flows : socket'[j] = "none" <=> socket[j] = "none" BY DEF Same
<1>5. StartsInv'
  <2> SUFFICES ASSUME phase' = "running" PROVE StartsInv' BY DEF StartsInv
  <2>1. /\ Acceptable /\ \A e \in events : EventOK(e)
        /\ \A e, f \in events : e.kind = f.kind /\ e.flow = f.flow => e = f
        /\ apps < Len(schedule) => \E e \in events : e.kind = "next"
        /\ \A j \in Flows : j <= apps /\ socket[j] = "none" =>
               \E e \in events : e.kind = "app" /\ e.flow = j
        /\ \A j \in Flows : j > apps => socket[j] = "none"
    BY CallbackFacts DEF StartsInv
  <2>2. Acceptable' BY <2>1, <1>1, CallbackFacts DEF Acceptable
  <2>3. \A e \in events : EventOK(e)' BY <2>1, <1>1, <1>4, CallbackFacts DEF EventOK
  <2> QED BY <2>1, <2>2, <2>3, <1>1, <1>4, CallbackFacts DEF StartsInv
<1>6. /\ phase' # "crashed" /\ phase' # "reading" /\ phase' # "written" /\ phase' # "stopped"
  OBVIOUS
<1> QED BY <1>1, <1>3, <1>5, <1>6 DEF IInv, ReadingInv, StoppedInv, WrittenInv, ResultsAreTrue

(* A callback without a line for the log. *)
LEMMA LogStays ==
    ASSUME TypeInv, NEW i \in Flows, LogInv(i), schedule' = schedule, now' \in Nat, now <= now',
           progressLog'[i] = progressLog[i], acknowledged'[i] = acknowledged[i],
           LastTime(i) = now, LastTime(i)' = now', socket[i] # "none", socket'[i] # "none"
    PROVE  LogInv(i)'
<1>1. progressLog[i] \in Seq(Line) /\ acknowledged[i] \in Nat /\ now \in Nat BY DEF TypeInv
<1>2. UpTo(progressLog[i], now, acknowledged[i]) BY DEF LogInv
<1>3. now \in Int /\ now' \in Int /\ acknowledged[i] <= acknowledged[i] BY <1>1
<1>4. UpTo(progressLog[i], now', acknowledged[i]) BY ONLY <1>1, <1>2, <1>3, now <= now', UpToLater
<1>5. schedule[i].start \in Nat BY FlowFacts
<1> QED BY <1>1, <1>4, <1>5 DEF LogInv

LEMMA ConnectionSucceededKeeps ==
    ASSUME IInv, NEW i \in Flows, NEW t \in 0..(endTime - 1), ConnectionSucceeded(i, t)
    PROVE  IInv'
<1>1. /\ CallsBack(i, t, {"handshake"}) /\ SendData(i, 0) /\ phase' = phase
      /\ acknowledged' = acknowledged /\ hasSocket' = hasSocket /\ closed' = closed
      /\ ackedBytes' = ackedBytes /\ isCompleted' = isCompleted /\ completion' = completion
      /\ progressLog' = progressLog
  BY DEF ConnectionSucceeded, ending, logs
<1>2. /\ TypeInv /\ FlowInv(i) /\ schedule' = schedule /\ endTime' = endTime /\ apps' = apps
      /\ now' \in Nat /\ now <= now' /\ now' <= endTime /\ phase = "running"
      /\ socket[i] = "handshake"
  BY <1>1, CallbackFacts
<1>3. Flows' = Flows BY <1>2 DEF Flows
<1>4. buffer[i] \in Nat /\ acknowledged[i] \in Nat /\ completion[i] \in Int
  BY <1>2, FlowAssumption DEF TypeInv
<1>5. acknowledged' = [acknowledged EXCEPT ![i] = acknowledged[i] + 0]
  BY <1>1, <1>2, <1>4 DEF TypeInv
<1>6. 0 \in 0..buffer[i] BY <1>4
<1>7. /\ totBytes' \in [Flows -> Nat] /\ buffer' \in [Flows -> 0..BufferSize]
      /\ connected' \in [Flows -> BOOLEAN] /\ socket' \in [Flows -> SocketState]
      /\ socket'[i] \in {"established", "closing"}
      /\ \A j \in Flows \ {i} : /\ totBytes'[j] = totBytes[j] /\ buffer'[j] = buffer[j]
                                 /\ connected'[j] = connected[j] /\ socket'[j] = socket[j]
      /\ BytesInv(i)'
      /\ socket'[i] = "established" => connected'[i] /\ totBytes'[i] # schedule[i].size
      /\ socket'[i] = "closing" => ~connected'[i] /\ totBytes'[i] = schedule[i].size
  BY <1>1, <1>2, <1>5, <1>6, SendDataKeeps DEF FlowInv
<1>8. TypeInv' BY <1>1, <1>2, <1>3, <1>7 DEF TypeInv
<1>9. \A j \in Flows \ {i} : Same(j) BY <1>1, <1>7 DEF Same
<1>10. FlowInv(i)'
  <2>1. StateInv(i)' BY <1>1, <1>2, <1>7 DEF FlowInv, StateInv, OpenStates
  <2>2. closed'[i] = "no" /\ ~isCompleted'[i]
    BY <1>1, <1>2 DEF FlowInv, EndInv, OverStates
  <2>3. EndInv(i)' BY <1>7, <2>2 DEF EndInv, OverStates
  <2>4. LastTime(i) = now /\ LastTime(i)' = now'
    BY <1>1, <2>2 DEF LastTime
  <2>5. LogInv(i)' BY <1>1, <1>2, <1>7, <2>4, LogStays DEF FlowInv
  <2> QED BY <1>7, <2>1, <2>3, <2>5 DEF FlowInv
<1> QED BY <1>1, <1>2, <1>7, <1>8, <1>9, <1>10, CallbackKeeps
(* The line a callback adds has the bytes acknowledged so far. *)
LEMMA DataSendKeeps ==
    ASSUME IInv, NEW i \in Flows, NEW t \in 0..(endTime - 1), NEW n \in 0..buffer[i],
           DataSend(i, n, t)
    PROVE  IInv'
<1> DEFINE x == [ts |-> t, byte |-> totBytes'[i] - buffer'[i]]
<1>1. /\ CallsBack(i, t, {"established", "closing"}) /\ phase' = phase
      /\ acknowledged' = [acknowledged EXCEPT ![i] = acknowledged[i] + n]
      /\ \/ connected[i] /\ SendData(i, n)
         \/ /\ ~connected[i]
            /\ buffer' = [buffer EXCEPT ![i] = buffer[i] - n]
            /\ UNCHANGED <<socket, connected, totBytes>>
      /\ progressLog' = [progressLog EXCEPT ![i] = Append(progressLog[i], x)]
      /\ hasSocket' = hasSocket /\ closed' = closed
      /\ ackedBytes' = ackedBytes /\ isCompleted' = isCompleted /\ completion' = completion
  BY DEF DataSend, ending
<1> HIDE DEF x
<1>2. /\ TypeInv /\ FlowInv(i) /\ schedule' = schedule /\ endTime' = endTime /\ apps' = apps
      /\ now' = t /\ now' \in Nat /\ now <= now' /\ now' <= endTime /\ phase = "running"
      /\ socket[i] \in {"established", "closing"}
  BY <1>1, CallbackFacts
<1>3. Flows' = Flows BY <1>2 DEF Flows
<1>4. /\ buffer[i] \in 0..BufferSize /\ BufferSize \in Nat /\ acknowledged[i] \in Nat
      /\ totBytes[i] \in Nat /\ completion[i] \in Int /\ now \in Nat
      /\ progressLog[i] \in Seq(Line)
  BY <1>2, FlowAssumption DEF TypeInv
<1>5. acknowledged' \in [Flows -> Nat] /\ acknowledged'[i] = acknowledged[i] + n
      /\ \A j \in Flows \ {i} : acknowledged'[j] = acknowledged[j]
  BY <1>1, <1>2, <1>4 DEF TypeInv
<1>6. /\ totBytes' \in [Flows -> Nat] /\ buffer' \in [Flows -> 0..BufferSize]
      /\ connected' \in [Flows -> BOOLEAN] /\ socket' \in [Flows -> SocketState]
      /\ socket'[i] \in {"established", "closing"}
      /\ \A j \in Flows \ {i} : /\ totBytes'[j] = totBytes[j] /\ buffer'[j] = buffer[j]
                                 /\ connected'[j] = connected[j] /\ socket'[j] = socket[j]
      /\ BytesInv(i)'
      /\ socket'[i] = "established" => connected'[i] /\ totBytes'[i] # schedule[i].size
      /\ socket'[i] = "closing" => ~connected'[i] /\ totBytes'[i] = schedule[i].size
  <2>1. CASE connected[i] /\ SendData(i, n)
    BY <1>1, <1>2, <2>1, SendDataKeeps DEF FlowInv
  <2>2. CASE /\ ~connected[i] /\ buffer' = [buffer EXCEPT ![i] = buffer[i] - n]
             /\ UNCHANGED <<socket, connected, totBytes>>
    <3>1. /\ buffer' \in [Flows -> 0..BufferSize] /\ buffer'[i] = buffer[i] - n
          /\ \A j \in Flows \ {i} : buffer'[j] = buffer[j]
      BY <1>2, <1>4, <2>2 DEF TypeInv
    <3>2. /\ totBytes' = totBytes /\ socket' = socket /\ connected' = connected BY <2>2
    <3>3. /\ totBytes' \in [Flows -> Nat] /\ connected' \in [Flows -> BOOLEAN]
          /\ socket' \in [Flows -> SocketState]
      BY <1>2, <3>2 DEF TypeInv
    <3>4. BytesInv(i)'
      <4>1. BytesInv(i) BY <1>2 DEF FlowInv
      <4>2. n \in Nat /\ totBytes[i] = acknowledged[i] + buffer[i] BY <1>4, <4>1 DEF BytesInv
      <4>3. totBytes'[i] = acknowledged'[i] + buffer'[i] BY <1>4, <1>5, <3>1, <3>2, <4>2
      <4>4. ~Unlimited(i) => totBytes[i] <= schedule[i].size BY <4>1 DEF BytesInv
      <4>5. socket'[i] \notin {"none", "handshake"} BY <1>2, <3>2
      <4> QED BY <1>2, <3>2, <4>3, <4>4, <4>5 DEF BytesInv, Unlimited
    <3>5. socket[i] = "closing" /\ totBytes[i] = schedule[i].size
      BY <1>2, <2>2 DEF FlowInv, StateInv
    <3> QED BY <1>2, <2>2, <3>1, <3>2, <3>3, <3>4, <3>5
  <2> QED BY <1>1, <2>1, <2>2
<1>7. x \in Line /\ x.ts = now' /\ x.byte = acknowledged'[i]
  <2>1. totBytes'[i] - buffer'[i] = acknowledged'[i]
    <3>1. totBytes'[i] = acknowledged'[i] + buffer'[i] BY <1>6 DEF BytesInv
    <3>2. buffer'[i] \in 0..BufferSize /\ acknowledged'[i] \in Nat BY <1>5, <1>6
    <3> QED BY <1>4, <3>1, <3>2
  <2>2. acknowledged'[i] \in Nat /\ t \in Nat BY <1>2, <1>5
  <2> QED BY <1>2, <2>1, <2>2 DEF x, Line
<1>8. closed[i] = "no" /\ ~isCompleted[i] BY <1>2 DEF FlowInv, EndInv, OverStates
<1>9. /\ Ascending(progressLog[i]) /\ UpTo(progressLog[i], x.ts, x.byte)
      /\ progressLog[i] # <<>> /\ schedule[i].start <= now
      /\ progressLog[i][1] = [ts |-> schedule[i].start, byte |-> 0]
  <2>1. LogInv(i) /\ socket[i] # "none" BY <1>2 DEF FlowInv
  <2>2. UpTo(progressLog[i], now, acknowledged[i]) BY <1>8, <2>1 DEF LogInv, LastTime
  <2>3. now \in Int /\ now' \in Int /\ acknowledged'[i] \in Nat
        /\ acknowledged[i] <= acknowledged'[i]
    BY <1>2, <1>4, <1>5
  <2>4. UpTo(progressLog[i], now', acknowledged'[i])
    BY ONLY <1>2, <1>4, <2>2, <2>3, UpToLater
  <2> QED BY <1>7, <2>1, <2>4 DEF LogInv
<1>10. /\ Append(progressLog[i], x) \in Seq(Line) /\ Append(progressLog[i], x) # <<>>
       /\ Ascending(Append(progressLog[i], x))
       /\ UpTo(Append(progressLog[i], x), x.ts, x.byte)
       /\ Append(progressLog[i], x)[1] = progressLog[i][1]
  BY ONLY <1>4, <1>7, <1>9, AppendFacts
<1>11. /\ progressLog' \in [Flows -> Seq(Line)]
       /\ progressLog'[i] = Append(progressLog[i], x)
       /\ \A j \in Flows \ {i} : progressLog'[j] = progressLog[j]
  BY <1>1, <1>2, <1>10 DEF TypeInv
<1>12. TypeInv' BY <1>1, <1>2, <1>3, <1>5, <1>6, <1>11 DEF TypeInv
<1>13. \A j \in Flows \ {i} : Same(j) BY <1>1, <1>5, <1>6, <1>11 DEF Same
<1>14. FlowInv(i)'
  <2>1. StateInv(i)'
    <3>1. hasSocket'[i] BY <1>1, <1>2 DEF FlowInv, StateInv, OpenStates
    <3> QED BY <1>2, <1>6, <3>1 DEF StateInv
  <2>2. closed'[i] = "no" /\ ~isCompleted'[i] BY <1>1, <1>8
  <2>3. EndInv(i)' BY <1>6, <2>2 DEF EndInv, OverStates
  <2>4. LastTime(i)' = now' BY <2>2 DEF LastTime
  <2>5. schedule[i].start <= now' BY <1>2, <1>4, <1>9, FlowFacts
  <2>6. LogInv(i)'
    BY <1>2, <1>6, <1>7, <1>9, <1>10, <1>11, <2>4, <2>5 DEF LogInv
  <2> QED BY <1>6, <2>1, <2>3, <2>6 DEF FlowInv
<1> QED BY <1>1, <1>2, <1>6, <1>12, <1>13, <1>14, CallbackKeeps

LEMMA RttChangeKeeps ==
    ASSUME IInv, NEW i \in Flows, NEW t \in 0..(endTime - 1), NEW rtt \in Rtts,
           RttChange(i, rtt, t)
    PROVE  IInv'
<1>1. CallsBack(i, t, {"handshake", "established", "closing"}) /\ phase' = phase
  BY DEF RttChange
<1>2. \A j \in Flows : Same(j) BY DEF RttChange, tcp, ending, Same
<1>3. /\ TypeInv /\ FlowInv(i) /\ schedule' = schedule /\ endTime' = endTime /\ apps' = apps
      /\ now' \in Nat /\ now <= now' /\ now' <= endTime /\ phase = "running"
      /\ socket[i] # "none"
  BY <1>1, CallbackFacts
<1>4. Flows' = Flows BY <1>3 DEF Flows
<1>5. TypeInv' BY <1>3, <1>4 DEF TypeInv, RttChange, tcp, ending
<1>6. FlowInv(i)' BY <1>2, <1>3, OtherFlows
<1>7. socket'[i] # "none" BY <1>2, <1>3 DEF Same
<1> QED BY <1>1, <1>2, <1>3, <1>5, <1>6, <1>7, CallbackKeeps
(* However a flow ends, what is kept of it is what was acknowledged. *)
LEMMA EndedKeeps ==
    ASSUME IInv, NEW i \in Flows, NEW t \in 0..(endTime - 1), NEW states,
           CallsBack(i, t, states), socket[i] \in OpenStates,
           NEW how \in OverStates, NEW acked, NEW complete \in BOOLEAN,
           Ended(i, t, how, acked, complete), acked = acknowledged[i],
           complete <=> how = "normal" /\ acknowledged[i] = schedule[i].size
    PROVE  IInv'
<1>1. /\ TypeInv /\ FlowInv(i) /\ schedule' = schedule /\ endTime' = endTime /\ apps' = apps
      /\ now' = t /\ now' \in Nat /\ now <= now' /\ now' <= endTime /\ phase = "running"
  BY CallbackFacts
<1>2. Flows' = Flows BY <1>1 DEF Flows
<1>3. /\ phase' = phase /\ buffer' = buffer /\ acknowledged' = acknowledged
      /\ connected' = connected /\ totBytes' = totBytes /\ progressLog' = progressLog
      /\ closed' = [closed EXCEPT ![i] = how] /\ completion' = [completion EXCEPT ![i] = t]
      /\ ackedBytes' = [ackedBytes EXCEPT ![i] = acked]
      /\ socket' = [socket EXCEPT ![i] = how]
  BY DEF Ended, logs
<1>4. /\ isCompleted' = [isCompleted EXCEPT ![i] = complete]
      /\ hasSocket' = [hasSocket EXCEPT ![i] = FALSE]
  BY DEF Ended
<1>5. /\ acknowledged[i] \in Nat /\ now \in Nat /\ progressLog[i] \in Seq(Line)
      /\ schedule[i].start \in Nat
  BY <1>1, FlowFacts DEF TypeInv
<1>6. /\ closed' \in [Flows -> {"no"} \cup OverStates] /\ closed'[i] = how
      /\ \A j \in Flows \ {i} : closed'[j] = closed[j]
  BY <1>1, <1>3 DEF TypeInv
<1>7. /\ completion' \in [Flows -> Int] /\ completion'[i] = t
      /\ \A j \in Flows \ {i} : completion'[j] = completion[j]
  BY <1>1, <1>3 DEF TypeInv
<1>8. /\ ackedBytes' \in [Flows -> Nat] /\ ackedBytes'[i] = acknowledged[i]
      /\ \A j \in Flows \ {i} : ackedBytes'[j] = ackedBytes[j]
  BY <1>1, <1>3, <1>5 DEF TypeInv
<1>9. /\ socket' \in [Flows -> SocketState] /\ socket'[i] = how
      /\ \A j \in Flows \ {i} : socket'[j] = socket[j]
  BY <1>1, <1>3 DEF TypeInv, SocketState
<1>10. /\ isCompleted' \in [Flows -> BOOLEAN] /\ isCompleted'[i] = complete
       /\ \A j \in Flows \ {i} : isCompleted'[j] = isCompleted[j]
  BY <1>1, <1>4 DEF TypeInv
<1>11. /\ hasSocket' \in [Flows -> BOOLEAN]
       /\ \A j \in Flows \ {i} : hasSocket'[j] = hasSocket[j]
  BY <1>1, <1>4 DEF TypeInv
<1>12. TypeInv'
  BY <1>1, <1>2, <1>3, <1>6, <1>7, <1>8, <1>9, <1>10, <1>11 DEF TypeInv
<1>13. \A j \in Flows \ {i} : Same(j)
  BY <1>3, <1>6, <1>7, <1>8, <1>9, <1>10, <1>11 DEF Same
<1>14. how \notin OpenStates /\ how \notin {"none", "handshake", "established", "closing", "no"}
  BY DEF OpenStates, OverStates
<1>15. socket[i] # "none" /\ socket[i] \notin OverStates BY DEF OpenStates, OverStates
<1>16. schedule[i].start <= now /\ UpTo(progressLog[i], now, acknowledged[i])
  <2>1. closed[i] = "no" BY <1>1, <1>15 DEF FlowInv, EndInv
  <2> QED BY <1>1, <1>15, <2>1 DEF FlowInv, LogInv, LastTime
<1>17. schedule[i].start <= now' BY <1>1, <1>5, <1>16
<1>18. BytesInv(i)' BY <1>1, <1>3, <1>9, <1>14 DEF FlowInv, BytesInv, Unlimited
<1>19. StateInv(i)' BY <1>9, <1>14 DEF StateInv
<1>20. EndInv(i)'
  <2>1. isCompleted'[i] <=> how = "normal" /\ acknowledged[i] = schedule[i].size BY <1>10
  <2>2. completion'[i] <= now' BY <1>1, <1>7
  <2>3. schedule[i].start <= completion'[i] BY <1>1, <1>7, <1>17
  <2> QED BY <1>1, <1>3, <1>6, <1>8, <1>9, <2>1, <2>2, <2>3 DEF EndInv
<1>21. LogInv(i)'
  <2>1. now \in Int /\ now' \in Int /\ acknowledged[i] <= acknowledged[i] BY <1>1, <1>5
  <2>2. UpTo(progressLog[i], now', acknowledged[i])
    BY ONLY <1>1, <1>5, <1>16, <2>1, UpToLater
  <2>3. LastTime(i)' = now' BY <1>1, <1>6, <1>7, <1>14 DEF LastTime
  <2> QED BY <1>1, <1>3, <1>9, <1>14, <1>15, <1>17, <2>2, <2>3 DEF FlowInv, LogInv
<1>22. FlowInv(i)' BY <1>18, <1>19, <1>20, <1>21 DEF FlowInv
<1>23. socket'[i] # "none" /\ phase' \in {"running", "thrown"} BY <1>1, <1>3, <1>9, <1>14
<1> QED BY <1>12, <1>13, <1>15, <1>22, <1>23, CallbackKeeps

LEMMA ConnectionFailedKeeps ==
    ASSUME IInv, NEW i \in Flows, NEW t \in 0..(endTime - 1), ConnectionFailed(i, t)
    PROVE  IInv'
<1>1. CallsBack(i, t, {"handshake"}) /\ Ended(i, t, "failed", 0, FALSE) BY DEF ConnectionFailed
<1>2. TypeInv /\ FlowInv(i) /\ socket[i] = "handshake" BY <1>1, CallbackFacts
<1>3. acknowledged[i] = 0
  <2>1. totBytes[i] = 0 /\ totBytes[i] = acknowledged[i] + buffer[i]
    BY <1>2 DEF FlowInv, BytesInv
  <2>2. acknowledged[i] \in Nat /\ buffer[i] \in Nat BY <1>2, FlowAssumption DEF TypeInv
  <2> QED BY <2>1, <2>2
<1>4. socket[i] \in OpenStates /\ "failed" \in OverStates BY <1>2 DEF OpenStates, OverStates
<1> QED BY <1>1, <1>3, <1>4, EndedKeeps

LEMMA SocketClosedErrorKeeps ==
    ASSUME IInv, NEW i \in Flows, NEW t \in 0..(endTime - 1), SocketClosedError(i, t)
    PROVE  IInv'
<1>1. /\ CallsBack(i, t, {"handshake", "established", "closing"})
      /\ Ended(i, t, "error", totBytes[i] - buffer[i], FALSE)
  BY DEF SocketClosedError
<1>2. TypeInv /\ FlowInv(i) /\ socket[i] \in OpenStates BY <1>1, CallbackFacts DEF OpenStates
<1>3. totBytes[i] - buffer[i] = acknowledged[i]
  <2>1. totBytes[i] = acknowledged[i] + buffer[i] BY <1>2 DEF FlowInv, BytesInv
  <2>2. acknowledged[i] \in Nat /\ buffer[i] \in Nat BY <1>2, FlowAssumption DEF TypeInv
  <2> QED BY <2>1, <2>2
<1>4. "error" \in OverStates BY DEF OverStates
<1> QED BY <1>1, <1>2, <1>3, <1>4, EndedKeeps

LEMMA SocketClosedNormalKeeps ==
    ASSUME IInv, NEW i \in Flows, NEW t \in 0..(endTime - 1), SocketClosedNormal(i, t)
    PROVE  IInv'
<1>1. CallsBack(i, t, {"handshake", "established", "closing"}) BY DEF SocketClosedNormal
<1>2. /\ TypeInv /\ FlowInv(i) /\ socket[i] \in OpenStates /\ schedule' = schedule
      /\ endTime' = endTime /\ apps' = apps /\ now' \in Nat /\ now <= now' /\ now' <= endTime
      /\ socket[i] # "none"
  BY <1>1, CallbackFacts DEF OpenStates
<1>3. totBytes[i] = acknowledged[i] + buffer[i] BY <1>2 DEF FlowInv, BytesInv
<1>4. acknowledged[i] \in Nat /\ buffer[i] \in Nat BY <1>2, FlowAssumption DEF TypeInv
<1>5. CASE /\ buffer[i] = 0
           /\ Ended(i, t, "normal", totBytes[i], totBytes[i] = schedule[i].size)
  <2>1. totBytes[i] = acknowledged[i] BY <1>3, <1>4, <1>5
  <2>2. "normal" \in OverStates BY DEF OverStates
  <2> DEFINE complete == totBytes[i] = schedule[i].size
  <2>3. complete \in BOOLEAN /\ Ended(i, t, "normal", totBytes[i], complete) BY <1>5
  <2>4. complete <=> acknowledged[i] = schedule[i].size BY <2>1
  <2> HIDE DEF complete
  <2> QED BY <1>1, <1>2, <2>1, <2>2, <2>3, <2>4, EndedKeeps
<1>6. CASE phase' = "thrown" /\ UNCHANGED <<tcp, connected, totBytes, ending, logs>>
  <2>1. \A j \in Flows : Same(j) BY <1>6 DEF tcp, ending, logs, Same
  <2>2. Flows' = Flows BY <1>2 DEF Flows
  <2>3. TypeInv' BY <1>2, <1>6, <2>2 DEF TypeInv, tcp, ending, logs
  <2>4. FlowInv(i)' BY <1>2, <2>1, OtherFlows
  <2>5. socket'[i] # "none" BY <1>2, <2>1 DEF Same
  <2> QED BY <1>1, <1>2, <1>6, <2>1, <2>3, <2>4, <2>5, CallbackKeeps
<1> QED BY <1>5, <1>6 DEF SocketClosedNormal
-----------------------------------------------------------------------------
(* The steps of the scheduler. *)
LEMMA NextFlowFacts ==
    ASSUME TypeInv, NEW i \in Nat, NEW t \in Nat, NEW n, NEW e \in NextFlow(i, t, n)
    PROVE  /\ i \in Flows /\ e.kind = "next" /\ e.flow = i /\ e.ts = schedule[i].start
           /\ NextFlow(i, t, n) = {e}
<1>1. i \in Flows /\ e = [kind |-> "next", flow |-> i, ts |-> t + (schedule[i].start - t), uid |-> n]
      /\ NextFlow(i, t, n) = {e}
  BY DEF NextFlow
<1>2. schedule[i].start \in Nat BY <1>1, FlowFacts
<1>3. t + (schedule[i].start - t) = schedule[i].start BY <1>2
<1> QED BY <1>1, <1>3

LEMMA NextFlowIsThere ==
    ASSUME NEW i \in Flows, NEW t, NEW n
    PROVE  \E e \in NextFlow(i, t, n) : TRUE
BY DEF NextFlow

LEMMA Initially == Init => IInv
<1> SUFFICES ASSUME Init PROVE IInv OBVIOUS
<1>1. /\ schedule \in Schedules /\ endTime \in Nat /\ phase = "reading" /\ now = 0
      /\ events = {} /\ apps = 0 /\ Len(schedule) \in Nat
  BY FlowAssumption DEF Init
<1>2. /\ socket = [i \in Flows |-> "none"] /\ buffer = [i \in Flows |-> 0]
      /\ acknowledged = [i \in Flows |-> 0] /\ hasSocket = [i \in Flows |-> FALSE]
      /\ connected = [i \in Flows |-> FALSE] /\ totBytes = [i \in Flows |-> 0]
      /\ closed = [i \in Flows |-> "no"] /\ ackedBytes = [i \in Flows |-> 0]
      /\ isCompleted = [i \in Flows |-> FALSE] /\ completion = [i \in Flows |-> -1]
      /\ progressLog = [i \in Flows |-> <<>>]
  BY DEF Init, OfEach
<1>3. BufferSize \in Nat /\ <<>> \in Seq(Line) BY FlowAssumption
<1>4. TypeInv BY <1>1, <1>2, <1>3 DEF TypeInv, SocketState
<1>5. ASSUME NEW i \in Flows PROVE FlowInv(i)
  <2>1. schedule[i].size \in Nat BY <1>4, FlowFacts
  <2>2. BytesInv(i) BY <1>2, <2>1 DEF BytesInv
  <2>3. StateInv(i) BY <1>2 DEF StateInv, OpenStates
  <2>4. EndInv(i) BY <1>2 DEF EndInv, OverStates
  <2>5. LogInv(i) BY <1>2 DEF LogInv, Ascending, UpTo
  <2> QED BY <2>2, <2>3, <2>4, <2>5 DEF FlowInv
<1>6. ReadingInv BY <1>1, <1>2 DEF ReadingInv
<1> QED BY <1>1, <1>4, <1>5, <1>6 DEF IInv, StartsInv, StoppedInv, WrittenInv, ResultsAreTrue

(* A step that leaves all flows alone. *)
LEMMA FlowsStay ==
    ASSUME IInv, UNCHANGED <<config, tcp, connected, totBytes, ending, logs>>,
           now' \in Nat, now <= now', now' <= endTime, apps' \in 0..Len(schedule)
    PROVE  TypeInv' /\ Flows' = Flows /\ \A j \in Flows : FlowInv(j)'
<1>1. /\ schedule' = schedule /\ endTime' = endTime /\ \A j \in Flows : Same(j)
  BY DEF config, tcp, ending, logs, Same
<1>2. Flows' = Flows BY <1>1 DEF Flows
<1>3. TypeInv' BY <1>1, <1>2 DEF IInv, TypeInv, tcp, ending, logs
<1>4. \A j \in Flows : FlowInv(j)' BY <1>1, OtherFlows DEF IInv
<1> QED BY <1>2, <1>3, <1>4

LEMMA ConstructSchedulerKeeps == IInv /\ ConstructScheduler => IInv'
<1> SUFFICES ASSUME IInv, ConstructScheduler PROVE IInv' OBVIOUS
<1>1. /\ phase = "reading" /\ UNCHANGED <<config, now, apps, tcp, connected, totBytes, ending, logs, results>>
      /\ IF Acceptable THEN phase' = "running" /\ events' = NextFlow(1, 0, uid)
         ELSE phase' = "refused" /\ events' = events
  BY DEF ConstructScheduler
<1>2. TypeInv /\ events = {} /\ apps = 0 /\ now = 0 /\ \A i \in Flows : socket[i] = "none"
  BY <1>1 DEF IInv, ReadingInv
<1>3. /\ now' \in Nat /\ now <= now' /\ now' <= endTime /\ apps' \in 0..Len(schedule)
  BY <1>1, <1>2 DEF TypeInv
<1>4. TypeInv' /\ Flows' = Flows /\ \A j \in Flows : FlowInv(j)' BY <1>1, <1>3, FlowsStay
<1>5. schedule' = schedule /\ endTime' = endTime /\ socket' = socket /\ apps' = 0 /\ now' = 0
  BY <1>1, <1>2 DEF config, tcp
<1>6. StartsInv'
  <2> SUFFICES ASSUME phase' = "running" PROVE StartsInv' BY DEF StartsInv
  <2>1. Acceptable /\ events' = NextFlow(1, 0, uid) BY <1>1
  <2>2. Acceptable' BY <1>4, <1>5, <2>1 DEF Acceptable
  <2>3. Len(schedule) \in Nat /\ 1 \in Nat /\ 0 \in Nat BY <1>2, FlowAssumption DEF TypeInv
  <2>4. \A e \in events' : /\ 1 \in Flows /\ e.kind = "next" /\ e.flow = 1
                            /\ e.ts = schedule[1].start /\ events' = {e}
    BY <1>2, <2>1, <2>3, NextFlowFacts
  <2>5. \A e \in events' : EventOK(e)'
    <3> SUFFICES ASSUME NEW e \in events' PROVE EventOK(e)' OBVIOUS
    <3>1. 1 \in Flows /\ e.kind = "next" /\ e.flow = 1 /\ e.ts = schedule[1].start BY <2>4
    <3>2. schedule[1].start \in Nat BY <1>2, <3>1, FlowFacts
    <3>3. apps' + 1 = 1 BY <1>5
    <3> QED BY <1>4, <1>5, <3>1, <3>2, <3>3 DEF EventOK
  <2>6. \A e, f \in events' : e = f BY <2>4
  <2>7. apps' < Len(schedule') => \E e \in events' : e.kind = "next"
    <3> SUFFICES ASSUME apps' < Len(schedule') PROVE \E e \in events' : e.kind = "next" OBVIOUS
    <3>1. 1 \in Flows BY <1>5, <2>3 DEF Flows
    <3>2. \E e \in NextFlow(1, 0, uid) : TRUE BY <3>1, NextFlowIsThere
    <3> QED BY <2>1, <2>4, <3>2
  <2>8. \A i \in Flows : socket'[i] = "none" /\ ~(i <= apps')
    BY <1>2, <1>5, <2>3 DEF Flows
  <2> QED BY <1>4, <2>2, <2>5, <2>6, <2>7, <2>8 DEF StartsInv
<1>7. phase' \in {"running", "refused"} BY <1>1
<1> QED BY <1>4, <1>6, <1>7 DEF IInv, ReadingInv, StoppedInv, WrittenInv, ResultsAreTrue
(* The next flow is due, so nothing crashes; it leaves the event of its    *)
(* application and that of the flow after it.                              *)
LEMMA StartNextFlowKeeps ==
    ASSUME IInv, NEW e \in events, StartNextFlow(e)
    PROVE  IInv'
<1>1. /\ e.kind = "next" /\ phase = "running" /\ e.ts < endTime /\ now' = e.ts
      /\ IsNextEvent(e, events)
      /\ UNCHANGED <<config, tcp, connected, totBytes, ending, logs, results>>
  BY DEF StartNextFlow, Take, Runs
<1>2. /\ TypeInv /\ Acceptable /\ \A f \in events : EventOK(f)
      /\ \A f, g \in events : f.kind = g.kind /\ f.flow = g.flow => f = g
      /\ \A i \in Flows : i <= apps /\ socket[i] = "none" =>
             \E f \in events : f.kind = "app" /\ f.flow = i
      /\ \A i \in Flows : i > apps => socket[i] = "none"
  BY <1>1 DEF IInv, StartsInv
<1>3. e.flow \in Flows /\ e.ts = schedule[e.flow].start /\ now <= e.ts /\ e.flow = apps + 1
  BY <1>1, <1>2 DEF EventOK
<1>4. /\ Len(schedule) \in Nat /\ apps \in Nat /\ endTime \in Nat /\ now \in Nat /\ e.ts \in Nat
      /\ e.flow \in Nat /\ e.flow <= Len(schedule)
  <2>1. Len(schedule) \in Nat /\ schedule[e.flow].start \in Nat BY <1>2, <1>3, FlowFacts
  <2>2. apps \in Nat /\ endTime \in Nat /\ now \in Nat BY <1>2, <2>1 DEF TypeInv
  <2> QED BY <1>3, <2>1, <2>2 DEF Flows
<1> DEFINE app == [kind |-> "app", flow |-> e.flow, ts |-> e.ts, uid |-> uid]
           next == NextFlow(e.flow + 1, e.ts, uid + 1)
<1>5. /\ apps' = apps + 1 /\ phase' = phase
      /\ events' = (events \ {e}) \cup {app} \cup next
  BY <1>3 DEF StartNextFlow
<1>6. /\ now' \in Nat /\ now <= now' /\ now' <= endTime /\ apps' \in 0..Len(schedule)
  BY <1>1, <1>3, <1>4, <1>5
<1>7. TypeInv' /\ Flows' = Flows /\ \A j \in Flows : FlowInv(j)' BY <1>1, <1>6, FlowsStay
<1>8. schedule' = schedule /\ endTime' = endTime /\ socket' = socket
  BY <1>1 DEF config, tcp
<1>9. app.kind = "app" /\ app.flow = e.flow /\ app.ts = e.ts OBVIOUS
<1>10. \A f \in next : /\ e.flow + 1 \in Flows /\ f.kind = "next" /\ f.flow = e.flow + 1
                       /\ f.ts = schedule[e.flow + 1].start /\ next = {f}
  <2>1. e.flow + 1 \in Nat BY <1>4
  <2> QED BY <1>2, <1>4, <2>1, NextFlowFacts
<1>11. e.flow + 1 \in Flows => \E f \in next : TRUE BY NextFlowIsThere
<1> HIDE DEF app, next
<1>12. \A f \in events : f # e => f.kind = "app" /\ f.flow <= apps /\ now' <= f.ts
  <2> SUFFICES ASSUME NEW f \in events, f # e
               PROVE  f.kind = "app" /\ f.flow <= apps /\ now' <= f.ts
    OBVIOUS
  <2>1. f.kind # "next" BY <1>1, <1>2, <1>3 DEF EventOK
  <2>2. f.kind = "app" /\ f.flow <= apps BY <1>2, <2>1 DEF EventOK
  <2>3. Before(e, f) BY <1>1 DEF IsNextEvent
  <2>4. f.ts \in Nat BY <1>2, FlowFacts DEF EventOK
  <2>5. e.ts <= f.ts BY <1>4, <2>3, <2>4 DEF Before
  <2> QED BY <1>1, <2>2, <2>5
<1>13. \A f \in events' : \/ f \in events /\ f # e
                          \/ f = app
                          \/ f \in next
  BY <1>5
<1>14. ASSUME NEW f \in events' PROVE EventOK(f)'
  <2>1. CASE f \in events /\ f # e
    <3>1. f.kind = "app" /\ f.flow <= apps /\ now' <= f.ts BY <1>12, <2>1
    <3>2. f.flow \in Flows /\ f.ts = schedule[f.flow].start /\ socket[f.flow] = "none"
      BY <1>2, <2>1, <3>1 DEF EventOK
    <3>3. f.flow <= apps + 1 BY <1>4, <3>1, <3>2 DEF Flows
    <3> QED BY <1>5, <1>7, <1>8, <3>1, <3>2, <3>3 DEF EventOK
  <2>2. CASE f = app
    <3>1. socket[e.flow] = "none" BY <1>2, <1>3, <1>4
    <3>2. e.flow <= apps + 1 /\ now' <= e.ts BY <1>1, <1>3, <1>4
    <3> QED BY <1>3, <1>5, <1>7, <1>8, <1>9, <2>2, <3>1, <3>2 DEF EventOK
  <2>3. CASE f \in next
    <3>1. /\ e.flow + 1 \in Flows /\ f.kind = "next" /\ f.flow = e.flow + 1
          /\ f.ts = schedule[e.flow + 1].start
      BY <1>10, <2>3
    <3>2. schedule[e.flow].start <= schedule[e.flow + 1].start
      BY <1>2, <1>3, <1>4, <3>1 DEF Acceptable
    <3>3. now' <= f.ts /\ f.flow = apps' + 1 BY <1>1, <1>3, <1>5, <3>1, <3>2
    <3> QED BY <1>7, <1>8, <3>1, <3>3 DEF EventOK
  <2> QED BY <1>13, <2>1, <2>2, <2>3
<1>15. ASSUME NEW f \in events', NEW g \in events', f.kind = g.kind, f.flow = g.flow
       PROVE  f = g
  <2>1. \A h \in events : h # e => h.flow # e.flow /\ h.kind = "app"
    BY <1>3, <1>4, <1>12
  <2>2. CASE f \in next
    <3>1. f.kind = "next" BY <1>10, <2>2
    <3>2. g \in next BY <1>9, <1>13, <1>15, <2>1, <3>1
    <3> QED BY <1>10, <2>2, <3>2
  <2>3. CASE f = app
    <3>1. g \notin next BY <1>9, <1>10, <1>15, <2>3
    <3> QED BY <1>9, <1>13, <1>15, <2>1, <2>3, <3>1
  <2>4. CASE f \in events /\ f # e
    <3>1. g \notin next BY <1>10, <1>15, <2>1, <2>4
    <3>2. g # app BY <1>9, <1>15, <2>1, <2>4
    <3> QED BY <1>2, <1>13, <1>15, <2>4, <3>1, <3>2
  <2> QED BY <1>13, <2>2, <2>3, <2>4
<1>16. apps' < Len(schedule) => \E f \in events' : f.kind = "next"
  <2> SUFFICES ASSUME apps' < Len(schedule) PROVE \E f \in events' : f.kind = "next" OBVIOUS
  <2>1. e.flow + 1 \in Flows BY <1>3, <1>4, <1>5 DEF Flows
  <2>2. PICK f \in next : TRUE BY <1>11, <2>1
  <2> QED BY <1>5, <1>10, <2>2
<1>17. ASSUME NEW i \in Flows, i <= apps', socket[i] = "none"
       PROVE  \E f \in events' : f.kind = "app" /\ f.flow = i
  <2>1. CASE i = e.flow BY <1>5, <1>9, <2>1
  <2>2. CASE i # e.flow
    <3>1. i <= apps BY <1>3, <1>4, <1>5, <1>17, <2>2 DEF Flows
    <3>2. PICK f \in events : f.kind = "app" /\ f.flow = i BY <1>2, <1>17, <3>1
    <3>3. f # e BY <1>1, <3>2
    <3> QED BY <1>5, <3>2, <3>3
  <2> QED BY <2>1, <2>2
<1>18. \A i \in Flows : i > apps' => socket[i] = "none"
  BY <1>2, <1>4, <1>5 DEF Flows
<1>19. Acceptable' BY <1>2, <1>7, <1>8 DEF Acceptable
<1>20. StartsInv' BY <1>7, <1>8, <1>14, <1>15, <1>16, <1>17, <1>18, <1>19 DEF StartsInv
<1>21. phase' = "running" BY <1>1, <1>5
<1> QED BY <1>7, <1>20, <1>21 DEF IInv, ReadingInv, StoppedInv, WrittenInv, ResultsAreTrue
LEMMA StartApplicationKeeps ==
    ASSUME IInv, NEW e \in events, StartApplication(e)
    PROVE  IInv'
<1> DEFINE i == e.flow
           line == [ts |-> e.ts, byte |-> 0]
<1>1. /\ e.kind = "app" /\ phase = "running" /\ e.ts < endTime /\ now' = e.ts
      /\ IsNextEvent(e, events) /\ events' = events \ {e} /\ phase' = phase /\ apps' = apps
      /\ schedule' = schedule /\ endTime' = endTime
  BY DEF StartApplication, Take, Runs, config
<1>2. /\ socket' = [socket EXCEPT ![i] = "handshake"]
      /\ progressLog' = [progressLog EXCEPT ![i] = <<line>>]
      /\ buffer' = buffer /\ acknowledged' = acknowledged /\ connected' = connected
      /\ totBytes' = totBytes /\ closed' = closed /\ ackedBytes' = ackedBytes
      /\ isCompleted' = isCompleted /\ completion' = completion
  BY DEF StartApplication
<1>3. hasSocket' = [hasSocket EXCEPT ![i] = TRUE] BY DEF StartApplication
<1>4. /\ TypeInv /\ Acceptable /\ \A f \in events : EventOK(f)
      /\ \A f, g \in events : f.kind = g.kind /\ f.flow = g.flow => f = g
      /\ apps < Len(schedule) => \E f \in events : f.kind = "next"
      /\ \A j \in Flows : j <= apps /\ socket[j] = "none" =>
             \E f \in events : f.kind = "app" /\ f.flow = j
      /\ \A j \in Flows : j > apps => socket[j] = "none"
  BY <1>1 DEF IInv, StartsInv
<1>5. i \in Flows /\ e.ts = schedule[i].start /\ now <= e.ts /\ socket[i] = "none" /\ i <= apps
  BY <1>1, <1>4 DEF EventOK
<1>6. e.ts \in Nat /\ endTime \in Nat /\ now \in Nat /\ Len(schedule) \in Nat
      /\ acknowledged[i] \in Nat
  <2> HIDE DEF i
  <2>1. TypeInv /\ i \in Flows /\ e.ts = schedule[i].start BY <1>4, <1>5
  <2>2. schedule[i].start \in Nat /\ Len(schedule) \in Nat BY <2>1, FlowFacts
  <2>3. endTime \in Nat /\ now \in Nat /\ acknowledged[i] \in Nat BY ONLY <2>1 DEF TypeInv
  <2> QED BY <2>1, <2>2, <2>3
<1>7. /\ now' \in Nat /\ now <= now' /\ now' <= endTime BY <1>1, <1>5, <1>6
<1>8. Flows' = Flows BY <1>1 DEF Flows
<1>9. line \in Line /\ line.ts = e.ts /\ line.byte = 0 BY <1>6 DEF Line
<1>10. /\ <<line>> \in Seq(Line) /\ <<line>> # <<>> /\ <<line>>[1] = line /\ Len(<<line>>) = 1
  BY <1>9
<1> HIDE DEF i
<1>11. /\ socket' \in [Flows -> SocketState] /\ socket'[i] = "handshake"
       /\ \A j \in Flows \ {i} : socket'[j] = socket[j]
  BY <1>2, <1>4, <1>5 DEF TypeInv, SocketState, OpenStates
<1>12. /\ hasSocket' \in [Flows -> BOOLEAN] /\ hasSocket'[i]
       /\ \A j \in Flows \ {i} : hasSocket'[j] = hasSocket[j]
  BY <1>3, <1>4, <1>5 DEF TypeInv
<1>13. /\ progressLog' \in [Flows -> Seq(Line)] /\ progressLog'[i] = <<line>>
       /\ \A j \in Flows \ {i} : progressLog'[j] = progressLog[j]
  <2> HIDE DEF line
  <2> QED BY <1>2, <1>4, <1>5, <1>10 DEF TypeInv
<1>14. TypeInv' BY <1>1, <1>2, <1>4, <1>7, <1>8, <1>11, <1>12, <1>13 DEF TypeInv
<1>15. \A j \in Flows \ {i} : Same(j) BY <1>2, <1>11, <1>12, <1>13 DEF Same
<1>16. \A j \in Flows \ {i} : FlowInv(j)' BY <1>1, <1>4, <1>7, <1>15, OtherFlows DEF IInv
<1>17. FlowInv(i)'
  <2>1. FlowInv(i) BY <1>5 DEF IInv
  <2>2. BytesInv(i)' BY <1>1, <1>2, <1>5, <1>11, <2>1 DEF FlowInv, BytesInv, Unlimited
  <2>3. StateInv(i)' BY <1>11, <1>12 DEF StateInv
  <2>4. closed'[i] = "no" /\ ~isCompleted'[i] /\ socket'[i] \notin OverStates
    BY <1>2, <1>5, <1>11, <2>1 DEF FlowInv, EndInv, OverStates
  <2>5. EndInv(i)' BY <2>4 DEF EndInv
  <2>6. LastTime(i)' = e.ts BY <1>1, <2>4 DEF LastTime
  <2>7. UpTo(<<line>>, e.ts, acknowledged[i])
    <3>1. e.ts <= e.ts /\ 0 <= acknowledged[i] BY <1>6
    <3> HIDE DEF line
    <3> QED BY <1>9, <1>10, <3>1 DEF UpTo
  <2>8. Ascending(<<line>>)
    <3> HIDE DEF line
    <3> QED BY <1>10 DEF Ascending
  <2>9. LogInv(i)'
    <3>1. line = [ts |-> schedule[i].start, byte |-> 0] BY <1>5
    <3>2. schedule[i].start <= now' BY <1>1, <1>5, <1>6
    <3> HIDE DEF line
    <3> QED BY <1>1, <1>2, <1>10, <1>11, <1>13, <2>6, <2>7, <2>8, <3>1, <3>2 DEF LogInv
  <2> QED BY <2>2, <2>3, <2>5, <2>9 DEF FlowInv
<1>18. \A f \in events' : f \in events /\ f # e BY <1>1
<1>19. ASSUME NEW f \in events' PROVE EventOK(f)'
  <2>1. EventOK(f) /\ f \in events /\ f # e BY <1>4, <1>18
  <2>2. f.kind = "app" => f.flow # i BY <1>1, <1>4, <2>1 DEF i
  <2>3. f.ts \in Nat BY <1>4, <2>1, FlowFacts DEF EventOK
  <2>4. Before(e, f) BY <1>1, <2>1 DEF IsNextEvent
  <2>5. now' <= f.ts BY <1>1, <1>6, <2>3, <2>4 DEF Before
  <2> QED BY <1>1, <1>8, <1>11, <2>1, <2>2, <2>5 DEF EventOK
<1>20. \A f, g \in events' : f.kind = g.kind /\ f.flow = g.flow => f = g BY <1>4, <1>18
<1>21. apps < Len(schedule) => \E f \in events' : f.kind = "next"
  <2> SUFFICES ASSUME apps < Len(schedule) PROVE \E f \in events' : f.kind = "next" OBVIOUS
  <2>1. PICK f \in events : f.kind = "next" BY <1>4
  <2>2. f # e BY <1>1, <2>1
  <2> QED BY <1>1, <2>1, <2>2
<1>22. ASSUME NEW j \in Flows, j <= apps, socket'[j] = "none"
       PROVE  \E f \in events' : f.kind = "app" /\ f.flow = j
  <2>1. j # i BY <1>11, <1>22
  <2>2. socket[j] = "none" BY <1>11, <1>22, <2>1
  <2>3. PICK f \in events : f.kind = "app" /\ f.flow = j BY <1>4, <1>22, <2>2
  <2>4. f # e BY <2>1, <2>3 DEF i
  <2> QED BY <1>1, <2>3, <2>4
<1>23. ASSUME NEW j \in Flows, j > apps PROVE socket'[j] = "none"
  <2>1. j # i BY <1>4, <1>5, <1>6, <1>23 DEF Flows, TypeInv
  <2> QED BY <1>4, <1>11, <1>23, <2>1
<1>24. Acceptable' BY <1>1, <1>4, <1>8 DEF Acceptable
<1>25. StartsInv'
  BY <1>1, <1>8, <1>19, <1>20, <1>21, <1>22, <1>23, <1>24 DEF StartsInv
<1>26. \A j \in Flows : FlowInv(j)' BY <1>16, <1>17
<1>27. phase' = "running" BY <1>1
<1> QED BY <1>8, <1>14, <1>25, <1>26, <1>27
        DEF IInv, ReadingInv, StoppedInv, WrittenInv, ResultsAreTrue

(* When no event is left, every flow has started. *)
LEMMA StopKeeps == IInv /\ Stop => IInv'
<1> SUFFICES ASSUME IInv, Stop PROVE IInv' OBVIOUS
<1>1. /\ phase = "running" /\ NothingLeft(events, endTime) /\ phase' = "stopped"
      /\ now' = endTime /\ apps' = apps
      /\ UNCHANGED <<config, tcp, connected, totBytes, ending, logs>>
  BY DEF Stop
<1>2. /\ TypeInv /\ Acceptable /\ \A f \in events : EventOK(f)
      /\ apps < Len(schedule) => \E f \in events : f.kind = "next"
      /\ \A j \in Flows : j <= apps /\ socket[j] = "none" =>
             \E f \in events : f.kind = "app" /\ f.flow = j
  BY <1>1 DEF IInv, StartsInv
<1>3. /\ endTime \in Nat /\ now \in Nat /\ now <= endTime /\ apps \in 0..Len(schedule)
      /\ Len(schedule) \in Nat
  BY <1>2, FlowAssumption DEF TypeInv
<1>4. TypeInv' /\ Flows' = Flows /\ \A j \in Flows : FlowInv(j)'
  BY <1>1, <1>3, FlowsStay
<1>5. \A f \in events : FALSE
  <2> SUFFICES ASSUME NEW f \in events PROVE FALSE OBVIOUS
  <2>1. f.flow \in Flows /\ f.ts = schedule[f.flow].start BY <1>2 DEF EventOK
  <2>2. f.ts < endTime BY <1>2, <2>1 DEF Acceptable
  <2>3. endTime <= f.ts BY <1>1 DEF NothingLeft
  <2>4. f.ts \in Nat BY <1>2, <2>1, FlowFacts
  <2> QED BY <1>3, <2>2, <2>3, <2>4
<1>6. apps = Len(schedule) BY <1>2, <1>3, <1>5
<1>7. \A j \in Flows : socket[j] # "none" BY <1>2, <1>3, <1>5, <1>6 DEF Flows
<1>8. schedule' = schedule /\ endTime' = endTime /\ socket' = socket BY <1>1 DEF config, tcp
<1>9. Acceptable' BY <1>2, <1>4, <1>8 DEF Acceptable
<1>10. StoppedInv' BY <1>1, <1>4, <1>6, <1>7, <1>8, <1>9 DEF StoppedInv
<1> QED BY <1>1, <1>4, <1>10 DEF IInv, ReadingInv, StartsInv, WrittenInv, ResultsAreTrue
-----------------------------------------------------------------------------
(* The results: the flags of the application tell how the socket ended. *)
LEMMA FinishedIsOutcome ==
    ASSUME TypeInv, NEW i \in Flows, FlowInv(i)
    PROVE  FinishedState(i) = Outcome(i)
<1>1. /\ socket[i] \notin OverStates => closed[i] = "no" /\ ~isCompleted[i]
      /\ socket[i] \in OverStates =>
           /\ closed[i] = socket[i]
           /\ isCompleted[i] <=> socket[i] = "normal" /\ acknowledged[i] = schedule[i].size
  BY DEF FlowInv, EndInv
<1>2. socket[i] \in OverStates <=> socket[i] \in {"failed", "normal", "error"} BY DEF OverStates
<1>3. CASE socket[i] \notin OverStates
  <2>1. closed[i] = "no" /\ ~isCompleted[i] /\ socket[i] # "failed" /\ socket[i] # "normal"
        /\ socket[i] # "error"
    BY <1>1, <1>2, <1>3
  <2> QED BY <2>1, Zenon DEF FinishedState, Outcome
<1>4. CASE socket[i] = "failed"
  <2>1. closed[i] = "failed" /\ ~isCompleted[i] BY <1>1, <1>2, <1>4
  <2> QED BY <1>4, <2>1, Zenon DEF FinishedState, Outcome
<1>5. CASE socket[i] = "error"
  <2>1. closed[i] = "error" /\ ~isCompleted[i] BY <1>1, <1>2, <1>5
  <2> QED BY <1>5, <2>1, Zenon DEF FinishedState, Outcome
<1>6. CASE socket[i] = "normal" /\ acknowledged[i] = schedule[i].size
  <2>1. closed[i] = "normal" /\ isCompleted[i] BY <1>1, <1>2, <1>6
  <2> QED BY <1>6, <2>1, Zenon DEF FinishedState, Outcome
<1>7. CASE socket[i] = "normal" /\ acknowledged[i] # schedule[i].size
  <2>1. closed[i] = "normal" /\ ~isCompleted[i] BY <1>1, <1>2, <1>7
  <2> QED BY <1>7, <2>1, Zenon DEF FinishedState, Outcome
<1> QED BY <1>2, <1>3, <1>4, <1>5, <1>6, <1>7

LEMMA AckedFacts ==
    ASSUME TypeInv, NEW i \in Flows, FlowInv(i), socket[i] # "none"
    PROVE  /\ GetAckedBytes(i) = acknowledged[i] /\ LastTime(i) \in Nat /\ LastTime(i) <= now
           /\ acknowledged[i] \in Nat /\ (closed[i] # "no" \/ hasSocket[i])
<1>1. /\ acknowledged[i] \in Nat /\ buffer[i] \in Nat /\ now \in Nat /\ completion[i] \in Int
      /\ schedule[i].start \in Nat /\ totBytes[i] = acknowledged[i] + buffer[i]
      /\ socket[i] \in SocketState
  BY FlowFacts, FlowAssumption DEF TypeInv, FlowInv, BytesInv
<1>2. CASE socket[i] \in OverStates
  <2>1. /\ closed[i] = socket[i] /\ ackedBytes[i] = acknowledged[i]
        /\ schedule[i].start <= completion[i] /\ completion[i] <= now
    BY <1>2 DEF FlowInv, EndInv
  <2>2. closed[i] # "no" BY <1>2, <2>1 DEF OverStates
  <2> QED BY <1>1, <2>1, <2>2 DEF GetAckedBytes, LastTime
<1>3. CASE socket[i] \notin OverStates
  <2>1. closed[i] = "no" BY <1>3 DEF FlowInv, EndInv
  <2>2. socket[i] \in OpenStates BY <1>1, <1>3 DEF SocketState
  <2>3. hasSocket[i] BY <2>2 DEF FlowInv, StateInv
  <2>4. totBytes[i] - buffer[i] = acknowledged[i] BY <1>1
  <2>5. GetAckedBytes(i) = acknowledged[i] BY <2>1, <2>4 DEF GetAckedBytes
  <2> QED BY <1>1, <2>1, <2>3, <2>5 DEF LastTime
<1> QED BY <1>2, <1>3

LEMMA RowFacts ==
    ASSUME TypeInv, Acceptable, NEW i \in Flows, FlowInv(i), socket[i] # "none"
    PROVE  /\ Row(i).sent = acknowledged[i] /\ Row(i).finished = Outcome(i)
           /\ Row(i).duration \in 0..(endTime - schedule[i].start)
<1>1. Row(i).sent = acknowledged[i] BY AckedFacts DEF Row
<1>2. Row(i).finished = Outcome(i) BY FinishedIsOutcome DEF Row
<1>3. /\ schedule[i].start \in Nat /\ endTime \in Nat /\ now \in Nat /\ now <= endTime
      /\ schedule[i].start < endTime
  BY FlowFacts DEF TypeInv, Acceptable
<1>4. Row(i).duration = IF isCompleted[i] THEN completion[i] - schedule[i].start
                        ELSE endTime - schedule[i].start
  BY DEF Row
<1>5. completion[i] \in Int BY DEF TypeInv
<1>6. CASE isCompleted[i]
  <2>1. schedule[i].start <= completion[i] /\ completion[i] <= now
    BY <1>6 DEF FlowInv, EndInv
  <2>2. Row(i).duration = completion[i] - schedule[i].start BY <1>4, <1>6
  <2> HIDE DEF Row
  <2> QED BY <1>1, <1>2, <1>3, <1>5, <2>1, <2>2
<1>7. CASE ~isCompleted[i]
  <2>1. Row(i).duration = endTime - schedule[i].start BY <1>4, <1>7
  <2> QED BY <1>1, <1>2, <1>3, <2>1
<1> QED BY <1>6, <1>7

LEMMA WriteResultsKeeps == IInv /\ WriteResults => IInv'
<1> SUFFICES ASSUME IInv, WriteResults PROVE IInv' OBVIOUS
<1>1. /\ phase = "stopped"
      /\ UNCHANGED <<config, now, uid, events, apps, tcp, connected, totBytes, ending>>
  BY DEF WriteResults
<1>2. /\ TypeInv /\ Acceptable /\ apps = Len(schedule) /\ \A i \in Flows : socket[i] # "none"
      /\ \A i \in Flows : FlowInv(i)
  BY <1>1 DEF IInv, StoppedInv
<1>3. \A i \in Flows : Readable(i)
  <2> SUFFICES ASSUME NEW i \in Flows PROVE Readable(i) OBVIOUS
  <2>1. closed[i] # "no" \/ hasSocket[i] BY <1>2, AckedFacts
  <2>2. i <= apps
    <3>1. Len(schedule) \in Nat BY <1>2, FlowFacts
    <3> QED BY <1>2, <3>1 DEF Flows
  <2> QED BY <2>1, <2>2 DEF Readable
<1>4. /\ phase' = "written" /\ results' = [i \in Flows |-> Row(i)]
      /\ progressLog' = [i \in Flows |->
             Append(progressLog[i], [ts |-> LastTime(i), byte |-> GetAckedBytes(i)])]
  BY <1>3 DEF WriteResults, FinalizeDetailedLogs
<1>5. /\ schedule' = schedule /\ endTime' = endTime /\ now' = now /\ apps' = apps
      /\ socket' = socket /\ buffer' = buffer /\ acknowledged' = acknowledged
      /\ connected' = connected /\ totBytes' = totBytes /\ hasSocket' = hasSocket
      /\ closed' = closed /\ ackedBytes' = ackedBytes /\ isCompleted' = isCompleted
      /\ completion' = completion
  BY <1>1 DEF config, tcp, ending
<1>6. Flows' = Flows BY <1>5 DEF Flows
<1>7. ASSUME NEW i \in Flows
      PROVE  /\ progressLog'[i] \in Seq(Line) /\ progressLog'[i] # <<>>
             /\ Ascending(progressLog'[i]) /\ UpTo(progressLog'[i], LastTime(i), acknowledged[i])
             /\ progressLog'[i][Len(progressLog'[i])].byte = acknowledged[i]
             /\ progressLog'[i][1] = [ts |-> schedule[i].start, byte |-> 0]
  <2> DEFINE x == [ts |-> LastTime(i), byte |-> GetAckedBytes(i)]
             log == progressLog[i]
  <2>1. /\ GetAckedBytes(i) = acknowledged[i] /\ LastTime(i) \in Nat /\ acknowledged[i] \in Nat
    BY <1>2, AckedFacts
  <2>2. x \in Line /\ x.ts = LastTime(i) /\ x.byte = acknowledged[i] BY <2>1 DEF Line
  <2>3. log \in Seq(Line) BY <1>2 DEF TypeInv
  <2>4. /\ Ascending(log) /\ UpTo(log, LastTime(i), acknowledged[i]) /\ log # <<>>
        /\ log[1] = [ts |-> schedule[i].start, byte |-> 0]
    BY <1>2 DEF FlowInv, LogInv
  <2>5. progressLog'[i] = Append(log, x) BY <1>4
  <2> HIDE DEF x, log
  <2>6. UpTo(log, x.ts, x.byte) BY <2>2, <2>4
  <2>7. /\ Append(log, x) \in Seq(Line) /\ Append(log, x) # <<>>
        /\ Ascending(Append(log, x)) /\ UpTo(Append(log, x), x.ts, x.byte)
        /\ Append(log, x)[Len(Append(log, x))] = x
        /\ Append(log, x)[1] = log[1]
    BY ONLY <2>2, <2>3, <2>4, <2>6, AppendFacts
  <2>8. UpTo(Append(log, x), LastTime(i), acknowledged[i]) BY ONLY <2>2, <2>7
  <2>9. Append(log, x)[Len(Append(log, x))].byte = acknowledged[i] BY ONLY <2>2, <2>7
  <2>10. Append(log, x)[1] = [ts |-> schedule[i].start, byte |-> 0] BY ONLY <2>4, <2>7
  <2> QED BY ONLY <2>5, <2>7, <2>8, <2>9, <2>10
<1>8. progressLog' \in [Flows -> Seq(Line)]
  <2>1. \A i \in Flows :
          Append(progressLog[i], [ts |-> LastTime(i), byte |-> GetAckedBytes(i)]) \in Seq(Line)
    BY <1>4, <1>7
  <2> QED BY <1>4, <2>1
<1>9. TypeInv' BY <1>2, <1>5, <1>6, <1>8 DEF TypeInv
<1>10. ASSUME NEW i \in Flows PROVE FlowInv(i)'
  <2>1. FlowInv(i) /\ socket[i] # "none" BY <1>2
  <2>2. BytesInv(i)' BY <1>5, <2>1 DEF FlowInv, BytesInv, Unlimited
  <2>3. StateInv(i)' BY <1>5, <2>1 DEF FlowInv, StateInv
  <2>4. EndInv(i)' BY <1>5, <2>1 DEF FlowInv, EndInv
  <2>5. LastTime(i)' = LastTime(i) BY <1>5 DEF LastTime
  <2>6. schedule[i].start <= now BY <2>1 DEF FlowInv, LogInv
  <2>7. LogInv(i)' BY <1>5, <1>7, <2>1, <2>5, <2>6 DEF LogInv
  <2> QED BY <2>2, <2>3, <2>4, <2>7 DEF FlowInv
<1>11. Acceptable' BY <1>2, <1>5, <1>6 DEF Acceptable
<1>12. StoppedInv' BY <1>2, <1>5, <1>6, <1>11 DEF StoppedInv
<1>13. \A i \in Flows : Outcome(i)' = Outcome(i) BY <1>5 DEF Outcome
<1>14. ASSUME NEW i \in Flows
       PROVE  /\ results'[i].sent = acknowledged[i] /\ results'[i].finished = Outcome(i)
              /\ results'[i].duration \in 0..(endTime - schedule[i].start)
  <2>1. results'[i] = Row(i) BY <1>4
  <2> QED BY <1>2, <2>1, RowFacts
<1>15. ResultsAreTrue' BY <1>5, <1>6, <1>13, <1>14 DEF ResultsAreTrue
<1>16. WrittenInv' BY <1>5, <1>6, <1>7, <1>14 DEF WrittenInv
<1>17. phase' # "crashed" /\ phase' # "reading" /\ phase' # "running" BY <1>4
<1> QED BY <1>6, <1>9, <1>10, <1>12, <1>15, <1>16, <1>17 DEF IInv, ReadingInv, StartsInv
-----------------------------------------------------------------------------
THEOREM InvariantPreserved == IInv /\ [Next]_vars => IInv'
<1> SUFFICES ASSUME IInv, [Next]_vars PROVE IInv' OBVIOUS
<1>1. ASSUME NEW i \in Flows, NEW t \in 0..(endTime - 1),
             \/ ConnectionSucceeded(i, t)
             \/ ConnectionFailed(i, t)
             \/ \E n \in 0..buffer[i] : DataSend(i, n, t)
             \/ \E rtt \in Rtts : RttChange(i, rtt, t)
             \/ SocketClosedNormal(i, t)
             \/ SocketClosedError(i, t)
      PROVE  IInv'
  BY <1>1, ConnectionSucceededKeeps, ConnectionFailedKeeps, DataSendKeeps, RttChangeKeeps,
     SocketClosedNormalKeeps, SocketClosedErrorKeeps
<1>2. CASE SocketEvent BY <1>1, <1>2 DEF SocketEvent
<1>3. ASSUME NEW e \in events, StartNextFlow(e) \/ StartApplication(e) PROVE IInv'
  BY <1>3, StartNextFlowKeeps, StartApplicationKeeps
<1>4. CASE UNCHANGED vars
  <2>1. /\ UNCHANGED <<config, tcp, connected, totBytes, ending, logs>>
        /\ phase' = phase /\ events' = events /\ apps' = apps /\ now' = now /\ results' = results
    BY <1>4 DEF vars, starts
  <2>2. now' \in Nat /\ now <= now' /\ now' <= endTime /\ apps' \in 0..Len(schedule)
    BY <2>1 DEF IInv, TypeInv
  <2>3. TypeInv' /\ Flows' = Flows /\ \A j \in Flows : FlowInv(j)' BY <2>1, <2>2, FlowsStay
  <2>4. /\ schedule' = schedule /\ endTime' = endTime /\ socket' = socket
        /\ acknowledged' = acknowledged /\ progressLog' = progressLog
    BY <2>1 DEF config, tcp, logs
  <2>5. Acceptable' = Acceptable BY <2>3, <2>4 DEF Acceptable
  <2>6. \A e \in events : EventOK(e) => EventOK(e)' BY <2>1, <2>3, <2>4 DEF EventOK
  <2>7. ReadingInv' BY <2>1, <2>3, <2>4 DEF IInv, ReadingInv
  <2>8. StartsInv' BY <2>1, <2>3, <2>4, <2>5, <2>6 DEF IInv, StartsInv
  <2>9. StoppedInv' BY <2>1, <2>3, <2>4, <2>5 DEF IInv, StoppedInv
  <2>10. WrittenInv' BY <2>1, <2>3, <2>4 DEF IInv, WrittenInv
  <2>11. \A i \in Flows : Outcome(i)' = Outcome(i) BY <2>4 DEF Outcome
  <2>12. ResultsAreTrue' BY <2>1, <2>3, <2>4, <2>11 DEF IInv, ResultsAreTrue
  <2> QED BY <2>1, <2>3, <2>7, <2>8, <2>9, <2>10, <2>12 DEF IInv
<1> QED BY <1>2, <1>3, <1>4, ConstructSchedulerKeeps, StopKeeps, WriteResultsKeeps DEF Next

LEMMA IInvAlways == Spec => []IInv
<1> QED BY Initially, InvariantPreserved, PTL DEF Spec

(* The lines of tcp_flows.csv tell what the other side acknowledged and    *)
(* how the socket ended, in whatever order the socket calls back.          *)
THEOREM TcpResultsAreTrue == Spec => []ResultsAreTrue
<1>1. IInv => ResultsAreTrue BY DEF IInv
<1> QED BY <1>1, IInvAlways, PTL

(* A progress log never goes back, and ends with the bytes of the results. *)
THEOREM TcpProgressLogTrue == Spec => []ProgressLogTrue
<1>1. IInv => ProgressLogTrue
  <2> SUFFICES ASSUME IInv, NEW i \in Flows
               PROVE  /\ Ascending(progressLog[i])
                      /\ phase = "written" =>
                           progressLog[i][Len(progressLog[i])].byte = results[i].sent
    BY DEF ProgressLogTrue, Ascending
  <2>1. FlowInv(i) /\ WrittenInv BY DEF IInv
  <2> QED BY <2>1 DEF FlowInv, LogInv, WrittenInv
<1> QED BY <1>1, IInvAlways, PTL

(* The application closes its socket with the last byte handed over. *)
THEOREM TcpAllHandedOverIsClosed == Spec => []AllHandedOverIsClosed
<1>1. IInv => AllHandedOverIsClosed
  <2> SUFFICES ASSUME IInv, NEW i \in Flows
               PROVE  /\ socket[i] = "established" =>
                           /\ connected[i]
                           /\ \/ totBytes[i] < schedule[i].size
                              \/ Unlimited(i) /\ totBytes[i] > 0
                      /\ socket[i] = "closing" =>
                           ~connected[i] /\ totBytes[i] = schedule[i].size
    BY DEF AllHandedOverIsClosed
  <2>1. TypeInv /\ StateInv(i) /\ BytesInv(i) BY DEF IInv, FlowInv
  <2>2. totBytes[i] \in Nat /\ schedule[i].size \in Nat BY <2>1, FlowFacts DEF TypeInv
  <2>3. CASE socket[i] = "established"
    <3>1. connected[i] /\ totBytes[i] # schedule[i].size BY <2>1, <2>3 DEF StateInv
    <3>2. ~Unlimited(i) => totBytes[i] <= schedule[i].size BY <2>1 DEF BytesInv
    <3>3. Unlimited(i) => totBytes[i] > 0 BY <2>2, <3>1 DEF Unlimited
    <3>4. ~Unlimited(i) => totBytes[i] < schedule[i].size BY <2>2, <3>1, <3>2
    <3> QED BY <2>3, <3>1, <3>3, <3>4
  <2>4. CASE socket[i] # "established" BY <2>1, <2>4 DEF StateInv
  <2> QED BY <2>3, <2>4
<1> QED BY <1>1, IInvAlways, PTL

(* No assertion of the scheduler and no missing application or socket. *)
THEOREM TcpNeverCrashes == Spec => []NeverCrashes
<1>1. IInv => NeverCrashes
  <2> SUFFICES ASSUME IInv, NEW i \in Flows, socket[i] \in {"handshake", "established", "closing"}
               PROVE  hasSocket[i] /\ progressLog[i][1] = [ts |-> schedule[i].start, byte |-> 0]
    BY DEF IInv, NeverCrashes
  <2>1. FlowInv(i) /\ socket[i] \in OpenStates /\ socket[i] # "none" BY DEF IInv, OpenStates
  <2> QED BY <2>1 DEF FlowInv, StateInv, LogInv
<1> QED BY <1>1, IInvAlways, PTL
=============================================================================
