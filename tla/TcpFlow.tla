------------------------------- MODULE TcpFlow -------------------------------
(***************************************************************************)
(* TCP flows: TcpFlowScheduler starts one TcpFlowSendApplication per line  *)
(* of its schedule, each of which hands the bytes of its flow to a socket, *)
(* closes it, and keeps track of what became of them for the results.      *)
(*                                                                         *)
(* The socket is that of ns-3: here, a buffer that accepts bytes, loses    *)
(* them as the other side acknowledges them, and calls back.  It may fail  *)
(* to connect or close at any time, normally or with an error; after that  *)
(* it calls back no more.                                                  *)
(***************************************************************************)
EXTENDS EventList, Integers, Sequences, FiniteSets

CONSTANTS
    Schedules,     \* the schedules given: sequences of flows, by TCP flow id
    EndTimes,      \* simulation_end_time_ns
    SendSize,      \* bytes handed to the socket at a time
    BufferSize,    \* bytes the socket's buffer holds
    Rtts,          \* round-trip times a socket measures
    AnyValue,      \* values a variable that is not initialized can have
    MaxLines,      \* bound: lines of a progress log, before its last
    MaxRttLines    \* bound: lines of an RTT log, before its last

Flow == [start : Nat, size : Nat]

ASSUME FlowAssumption ==
    /\ Schedules \subseteq Seq(Flow) /\ EndTimes \subseteq Nat
    /\ SendSize \in Nat \ {0} /\ BufferSize \in Nat \ {0}
    /\ Rtts \subseteq Nat /\ AnyValue \subseteq Int /\ AnyValue # {}
    /\ MaxLines \in Nat /\ MaxRttLines \in Nat

VARIABLES
    schedule,      \* m_schedule
    endTime,       \* m_simulation_end_time_ns
    phase,         \* how far main has come, or how it ended too early
    now,           \* Simulator::Now
    uid,           \* the number of the next event
    events,        \* pending starts: the next flow, or an application
    apps,          \* number of applications in m_apps
    socket,        \* per flow, the socket's state
    buffer,        \* bytes in the socket's buffer
    acknowledged,  \* history: bytes the other side acknowledged
    hasSocket,     \* m_socket is not null
    connected,     \* m_connected
    totBytes,      \* m_totBytes
    closed,        \* m_connFailed, m_closedNormally, m_closedByError: the one set
    ackedBytes,    \* m_ackedBytes
    isCompleted,   \* m_isCompleted
    completion,    \* m_completionTimeNs
    progressLog,   \* tcp_flow_<id>_progress.csv
    rttLog,        \* tcp_flow_<id>_rtt.csv; the one of the window is alike
    results        \* the lines of tcp_flows.csv

config == <<schedule, endTime>>
starts == <<phase, uid, events, apps>>
tcp == <<socket, buffer, acknowledged>>
ending == <<hasSocket, closed, ackedBytes, isCompleted, completion>>
logs == <<progressLog, rttLog>>
vars == <<config, starts, now, tcp, connected, totBytes, ending, logs, results>>

Flows == 1..Len(schedule)
OfEach(value) == [i \in Flows |-> value]

Init ==
    /\ schedule \in Schedules /\ endTime \in EndTimes
    /\ phase = "reading" /\ now = 0 /\ uid = 0 /\ events = {} /\ apps = 0
    /\ socket = OfEach("none") /\ buffer = OfEach(0) /\ acknowledged = OfEach(0)
    /\ hasSocket = OfEach(FALSE) /\ connected = OfEach(FALSE) /\ totBytes = OfEach(0)
    /\ closed = OfEach("no") /\ ackedBytes = OfEach(0) /\ isCompleted = OfEach(FALSE)
    /\ completion = OfEach(-1)
    /\ progressLog = OfEach(<<>>) /\ rttLog = OfEach(<<>>) /\ results = <<>>

(***************************************************************************)
(* Starting the flows, one after the other.                                *)
(***************************************************************************)
(* What read_tcp_flow_schedule accepts; the nodes of flows are left out. *)
Acceptable ==
    /\ \A i \in Flows : schedule[i].start < endTime
    /\ \A i, j \in Flows : i < j => schedule[i].start <= schedule[j].start

(* Mutant of NextFlow: the start of a flow is taken for the time until it. *)
NextFlowAfterStart(i, t, n) ==
    IF i \notin Flows THEN {}
    ELSE {[kind |-> "next", flow |-> i, ts |-> t + schedule[i].start, uid |-> n]}

(* The event that starts flow i, if there is one. *)
NextFlow(i, t, n) ==
    IF i \notin Flows THEN {}
    ELSE {[kind |-> "next", flow |-> i, ts |-> t + (schedule[i].start - t), uid |-> n]}

ConstructScheduler ==
    /\ phase = "reading"
    /\ IF Acceptable
       THEN phase' = "running" /\ events' = NextFlow(1, 0, uid)
       ELSE phase' = "refused" /\ UNCHANGED events
    /\ uid' = uid + 1
    /\ UNCHANGED <<config, now, apps, tcp, connected, totBytes, ending, logs, results>>

Take(e) ==
    /\ phase = "running" /\ Runs(e, events, endTime)
    /\ now' = e.ts
    /\ uid' = uid + 2

(* The new application starts in an event of its own, at the same time. *)
StartNextFlow(e) ==
    /\ e.kind = "next" /\ Take(e)
    /\ \/ /\ schedule[e.flow].start = e.ts
          /\ apps' = apps + 1
          /\ events' = (events \ {e})
                 \cup {[kind |-> "app", flow |-> e.flow, ts |-> e.ts, uid |-> uid]}
                 \cup NextFlow(e.flow + 1, e.ts, uid + 1)
          /\ UNCHANGED phase
       \/ /\ schedule[e.flow].start # e.ts
          /\ phase' = "crashed"
          /\ UNCHANGED <<events, apps>>
    /\ UNCHANGED <<config, tcp, connected, totBytes, ending, logs, results>>

(* The socket is created and connects; the progress log begins with 0. *)
StartApplication(e) ==
    /\ e.kind = "app" /\ Take(e)
    /\ events' = events \ {e}
    /\ socket' = [socket EXCEPT ![e.flow] = "handshake"]
    /\ hasSocket' = [hasSocket EXCEPT ![e.flow] = TRUE]
    /\ progressLog' = [progressLog EXCEPT ![e.flow] = <<[ts |-> e.ts, byte |-> 0]>>]
    /\ UNCHANGED <<config, phase, apps, buffer, acknowledged, connected, totBytes,
                   closed, ackedBytes, isCompleted, completion, rttLog, results>>

(***************************************************************************)
(* Sending.                                                                *)
(***************************************************************************)
Unlimited(i) == schedule[i].size = 0

(* How many bytes the loop of SendData hands over when there is room: all  *)
(* that is left, or as many whole portions as fit and a part of the next.  *)
HandedOver(i, room) ==
    LET left == schedule[i].size - totBytes[i]
        whole == (room \div SendSize) * SendSize
    IN  IF ~Unlimited(i) /\ left <= room THEN {left} ELSE whole..room

(* Mutant of SendData: it looks for the end before it sends. *)
SendDataLookFirst(i, gone) ==
    \E n \in HandedOver(i, BufferSize - (buffer[i] - gone)) :
        LET all == totBytes[i] = schedule[i].size IN
        /\ totBytes' = [totBytes EXCEPT ![i] = @ + n]
        /\ buffer' = [buffer EXCEPT ![i] = @ - gone + n]
        /\ connected' = [connected EXCEPT ![i] = ~all]
        /\ socket' = [socket EXCEPT ![i] = IF all THEN "closing" ELSE "established"]

(* SendData of a connected flow; with the last byte it closes the socket,  *)
(* which stays open until its buffer is empty.                             *)
SendData(i, gone) ==
    \E n \in HandedOver(i, BufferSize - (buffer[i] - gone)) :
        LET all == totBytes[i] + n = schedule[i].size IN
        /\ totBytes' = [totBytes EXCEPT ![i] = @ + n]
        /\ buffer' = [buffer EXCEPT ![i] = @ - gone + n]
        /\ connected' = [connected EXCEPT ![i] = ~all]
        /\ socket' = [socket EXCEPT ![i] = IF all THEN "closing" ELSE "established"]

(***************************************************************************)
(* Callbacks of the socket, at any time t between two events.              *)
(***************************************************************************)
CallsBack(i, t, states) ==
    /\ phase = "running" /\ socket[i] \in states
    /\ now <= t /\ t < endTime /\ \A e \in events : t <= e.ts
    /\ now' = t
    /\ UNCHANGED <<config, uid, events, apps, results>>

ConnectionSucceeded(i, t) ==
    /\ CallsBack(i, t, {"handshake"})
    /\ SendData(i, 0)
    /\ UNCHANGED <<phase, acknowledged, ending, logs>>

(* Mutant of DataSend: the log gets what was handed over. *)
DataSendLogsTotal(i, n, t) ==
    /\ CallsBack(i, t, {"established", "closing"})
    /\ Len(progressLog[i]) < MaxLines
    /\ acknowledged' = [acknowledged EXCEPT ![i] = @ + n]
    /\ \/ connected[i] /\ SendData(i, n)
       \/ /\ ~connected[i]
          /\ buffer' = [buffer EXCEPT ![i] = @ - n]
          /\ UNCHANGED <<socket, connected, totBytes>>
    /\ progressLog' = [progressLog EXCEPT ![i] = Append(@, [ts |-> t, byte |-> totBytes'[i]])]
    /\ UNCHANGED <<phase, ending, rttLog>>

(* The other side acknowledged n bytes: there is room in the buffer.  What *)
(* is logged is GetAckedBytes of an open flow.                             *)
DataSend(i, n, t) ==
    /\ CallsBack(i, t, {"established", "closing"})
    /\ Len(progressLog[i]) < MaxLines
    /\ acknowledged' = [acknowledged EXCEPT ![i] = @ + n]
    /\ \/ connected[i] /\ SendData(i, n)
       \/ /\ ~connected[i]
          /\ buffer' = [buffer EXCEPT ![i] = @ - n]
          /\ UNCHANGED <<socket, connected, totBytes>>
    /\ progressLog' = [progressLog EXCEPT ![i] =
           Append(@, [ts |-> t, byte |-> totBytes'[i] - buffer'[i]])]
    /\ UNCHANGED <<phase, ending, rttLog>>

(* RttChange and InsertRttLog; CwndChange and InsertCwndLog are alike. *)
RttChange(i, rtt, t) ==
    /\ CallsBack(i, t, {"handshake", "established", "closing"})
    /\ Len(rttLog[i]) < MaxRttLines
    /\ rttLog' = [rttLog EXCEPT ![i] = Append(@, [ts |-> t, rtt |-> rtt])]
    /\ UNCHANGED <<phase, tcp, connected, totBytes, ending, progressLog>>

(* What the three ways to close have in common. *)
Ended(i, t, how, acked, complete) ==
    /\ closed' = [closed EXCEPT ![i] = how]
    /\ completion' = [completion EXCEPT ![i] = t]
    /\ ackedBytes' = [ackedBytes EXCEPT ![i] = acked]
    /\ isCompleted' = [isCompleted EXCEPT ![i] = complete]
    /\ hasSocket' = [hasSocket EXCEPT ![i] = FALSE]
    /\ socket' = [socket EXCEPT ![i] = how]
    /\ UNCHANGED <<phase, buffer, acknowledged, connected, totBytes, logs>>

ConnectionFailed(i, t) ==
    /\ CallsBack(i, t, {"handshake"})
    /\ Ended(i, t, "failed", 0, FALSE)

(* A normal close with bytes in the buffer makes the application throw,    *)
(* and the program ends.                                                   *)
SocketClosedNormal(i, t) ==
    /\ CallsBack(i, t, {"handshake", "established", "closing"})
    /\ \/ /\ buffer[i] = 0
          /\ Ended(i, t, "normal", totBytes[i], totBytes[i] = schedule[i].size)
       \/ /\ buffer[i] # 0
          /\ phase' = "thrown"
          /\ UNCHANGED <<tcp, connected, totBytes, ending, logs>>

(* Mutant of SocketClosedError: what is in the buffer is not taken off. *)
SocketClosedErrorTotal(i, t) ==
    /\ CallsBack(i, t, {"handshake", "established", "closing"})
    /\ Ended(i, t, "error", totBytes[i], FALSE)

SocketClosedError(i, t) ==
    /\ CallsBack(i, t, {"handshake", "established", "closing"})
    /\ Ended(i, t, "error", totBytes[i] - buffer[i], FALSE)

Stop ==
    /\ phase = "running" /\ NothingLeft(events, endTime)
    /\ phase' = "stopped" /\ now' = endTime
    /\ UNCHANGED <<config, uid, events, apps, tcp, connected, totBytes, ending, logs, results>>

(***************************************************************************)
(* Results.                                                                *)
(***************************************************************************)
(* GetAckedBytes; there is nothing to read if the socket is null. *)
GetAckedBytes(i) == IF closed[i] # "no" THEN ackedBytes[i] ELSE totBytes[i] - buffer[i]
Readable(i) == i <= apps /\ (closed[i] # "no" \/ hasSocket[i])

LastTime(i) == IF closed[i] # "no" THEN completion[i] ELSE now

(* m_current_rtt_ns is what was traced last; before that, anything. *)
CurrentRtt(i) ==
    IF rttLog[i] = <<>> THEN AnyValue ELSE {rttLog[i][Len(rttLog[i])].rtt}

FinishedState(i) ==
    CASE isCompleted[i] -> "YES"
      [] ~isCompleted[i] /\ closed[i] = "failed" -> "NO_CONN_FAIL"
      [] ~isCompleted[i] /\ closed[i] = "normal" -> "NO_BAD_CLOSE"
      [] ~isCompleted[i] /\ closed[i] = "error" -> "NO_ERR_CLOSE"
      [] ~isCompleted[i] /\ closed[i] = "no" -> "NO_ONGOING"

FinalizeDetailedLogs ==
    /\ progressLog' = [i \in Flows |->
           Append(progressLog[i], [ts |-> LastTime(i), byte |-> GetAckedBytes(i)])]
    /\ \E rtt \in [Flows -> Rtts \cup AnyValue] :
           /\ \A i \in Flows : rtt[i] \in CurrentRtt(i)
           /\ rttLog' = [i \in Flows |->
                  Append(rttLog[i], [ts |-> LastTime(i), rtt |-> rtt[i]])]

Row(i) ==
    [sent |-> GetAckedBytes(i), finished |-> FinishedState(i),
     duration |-> IF isCompleted[i] THEN completion[i] - schedule[i].start
                  ELSE endTime - schedule[i].start]

WriteResults ==
    /\ phase = "stopped"
    /\ \/ /\ \A i \in Flows : Readable(i)
          /\ phase' = "written"
          /\ FinalizeDetailedLogs
          /\ results' = [i \in Flows |-> Row(i)]
       \/ /\ \E i \in Flows : ~Readable(i)
          /\ phase' = "crashed"
          /\ UNCHANGED <<logs, results>>
    /\ UNCHANGED <<config, now, uid, events, apps, tcp, connected, totBytes, ending>>

SocketEvent == \E i \in Flows, t \in 0..(endTime - 1) :
    \/ ConnectionSucceeded(i, t)
    \/ ConnectionFailed(i, t)
    \/ \E n \in 0..buffer[i] : DataSend(i, n, t)
    \/ \E rtt \in Rtts : RttChange(i, rtt, t)
    \/ SocketClosedNormal(i, t)
    \/ SocketClosedError(i, t)

Next ==
    \/ ConstructScheduler
    \/ \E e \in events : StartNextFlow(e) \/ StartApplication(e)
    \/ SocketEvent
    \/ Stop
    \/ WriteResults

Spec == Init /\ [][Next]_vars

(***************************************************************************)
(* Correctness.                                                            *)
(***************************************************************************)
(* What became of flow i, told from its socket alone. *)
Outcome(i) ==
    CASE socket[i] = "normal" /\ acknowledged[i] = schedule[i].size -> "YES"
      [] socket[i] = "normal" /\ acknowledged[i] # schedule[i].size -> "NO_BAD_CLOSE"
      [] socket[i] = "failed" -> "NO_CONN_FAIL"
      [] socket[i] = "error" -> "NO_ERR_CLOSE"
      [] OTHER -> "NO_ONGOING"

(* What tcp_flows.csv says of a flow is what happened to its bytes and to  *)
(* its socket: "YES" if and only if all were acknowledged and the close    *)
(* was normal, as the documentation of the application has it.             *)
ResultsAreTrue == phase = "written" => \A i \in Flows :
    /\ results[i].sent = acknowledged[i]
    /\ results[i].finished = Outcome(i)
    /\ results[i].duration \in 0..(endTime - schedule[i].start)

(* The progress log of a flow never goes back, in time or in bytes, over   *)
(* all its callbacks and the line added when the run has ended, and that   *)
(* line has the number of bytes of the results.                            *)
ProgressLogTrue == \A i \in Flows :
    LET log == progressLog[i] IN
    /\ \A k \in 2..Len(log) : log[k-1].ts <= log[k].ts /\ log[k-1].byte <= log[k].byte
    /\ phase = "written" => log[Len(log)].byte = results[i].sent

(* An open connection is closed from the application's side exactly when   *)
(* its last byte has been handed over: none waits for a callback that      *)
(* would have to come after everything is acknowledged.                    *)
AllHandedOverIsClosed == \A i \in Flows :
    /\ socket[i] = "established" =>
         connected[i] /\ (totBytes[i] < schedule[i].size \/ (Unlimited(i) /\ totBytes[i] > 0))
    /\ socket[i] = "closing" => ~connected[i] /\ totBytes[i] = schedule[i].size

(* Every flow starts at its time, one after the other, and has started     *)
(* when the results are written: StartNextFlow's assertion holds, and no   *)
(* application or socket that is read is missing.                          *)
NeverCrashes ==
    /\ phase # "crashed"
    /\ \A i \in Flows : socket[i] \in {"handshake", "established", "closing"} =>
           hasSocket[i] /\ progressLog[i][1] = [ts |-> schedule[i].start, byte |-> 0]

(* "RTT has to be positive": what tcp-flow-end-to-end-test.h asserts of    *)
(* every line of the RTT log.                                              *)
RttPositive == \A i \in Flows : \A k \in 1..Len(rttLog[i]) : rttLog[i][k].rtt >= 0
=============================================================================
