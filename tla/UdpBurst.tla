------------------------------ MODULE UdpBurst ------------------------------
(***************************************************************************)
(* UDP bursts: UdpBurstScheduler reads a schedule and installs one         *)
(* UdpBurstApplication per host, which sends the bursts that begin there,  *)
(* paced by a gap, and counts those that end there.  The network between   *)
(* the hosts may lose, delay and reorder packets.                          *)
(***************************************************************************)
EXTENDS EventList, Integers, Sequences, FiniteSets

CONSTANTS
    Hosts,         \* number of endpoints of the topology
    Schedules,     \* the schedules given: sequences of bursts, by UDP burst id
    EndTimes,      \* simulation_end_time_ns
    Delay          \* time a packet spends in the network

(* A line of the schedule.  The target rate appears as the gap it makes    *)
(* between two packets, ceil(1500 bytes / rate).                           *)
Burst == [from : Nat, to : Nat, start : Nat, duration : Nat, gap : Nat \ {0}]

ASSUME BurstAssumption ==
    /\ Hosts \in Nat
    /\ Schedules \subseteq Seq(Burst)
    /\ EndTimes \subseteq Nat /\ Delay \subseteq Nat

Host == 1..Hosts
None == 0   \* not a burst

VARIABLES
    schedule,      \* the schedule of this run
    endTime,       \* m_simulation_end_time_ns
    phase,         \* how far main has come, "failed" after an exception
    now,           \* Simulator::Now
    uid,           \* the number of the next event
    events,        \* pending events of the applications and the network
    next,          \* per host, the burst m_next_internal_burst_idx stands for
    sentCounter,   \* m_outgoing_bursts_packets_sent_counter, by burst
    received,      \* m_incoming_bursts_received_counter, by burst
    outLog,        \* udp_burst_<id>_outgoing.csv: [seq, ts] per packet
    inLog,         \* udp_burst_<id>_incoming.csv
    results        \* the lines of udp_bursts_{outgoing, incoming}.csv

counters == <<sentCounter, outLog>>
arrived == <<received, inLog>>
vars == <<schedule, endTime, phase, now, uid, events, next, counters, arrived, results>>

Bursts == 1..Len(schedule)

Init ==
    /\ schedule \in Schedules /\ endTime \in EndTimes
    /\ phase = "reading" /\ now = 0 /\ uid = 0 /\ events = {}
    /\ next = [h \in Host |-> None]
    /\ sentCounter = [b \in Bursts |-> 0] /\ received = [b \in Bursts |-> 0]
    /\ outLog = [b \in Bursts |-> <<>>] /\ inLog = [b \in Bursts |-> <<>>]
    /\ results = [b \in Bursts |-> <<>>]

(* The first burst of host h among those from number b on, or None. *)
FirstFrom(h, b) ==
    LET own == {c \in Bursts : b <= c /\ schedule[c].from = h}
    IN  IF own = {} THEN None ELSE CHOOSE c \in own : \A d \in own : c <= d

(* What read_udp_burst_schedule accepts.  It makes the check for weakly    *)
(* ascending start times of RegisterOutgoingBurst succeed.                 *)
Acceptable ==
    /\ \A b \in Bursts :
           /\ schedule[b].from # schedule[b].to
           /\ schedule[b].from \in Host /\ schedule[b].to \in Host
           /\ schedule[b].start < endTime
    /\ \A b, c \in Bursts : b < c => schedule[b].start <= schedule[c].start

ConstructScheduler ==
    /\ phase = "reading"
    /\ \/ /\ Acceptable
          /\ phase' = "running"
          /\ events' = {[kind |-> "app", host |-> h, ts |-> 0, uid |-> h] : h \in Host}
          /\ uid' = Hosts + 1
          /\ next' = [h \in Host |-> FirstFrom(h, 1)]
       \/ ~Acceptable /\ phase' = "failed" /\ UNCHANGED <<events, uid, next>>
    /\ UNCHANGED <<schedule, endTime, now, counters, arrived, results>>

(***************************************************************************)
(* Sending.  An operator of this section gives the events it schedules,    *)
(* numbered from n on.                                                     *)
(***************************************************************************)
(* Mutant of NextPacket: one gap too many fits into the burst. *)
NextPacketUpToEnd(b, t, n) ==
    IF t + schedule[b].gap <= schedule[b].start + schedule[b].duration
    THEN {[kind |-> "packet", burst |-> b, ts |-> t + schedule[b].gap, uid |-> n]} ELSE {}

(* The next packet of burst b, if it begins before the burst is over. *)
NextPacket(b, t, n) ==
    IF t + schedule[b].gap < schedule[b].start + schedule[b].duration
    THEN {[kind |-> "packet", burst |-> b, ts |-> t + schedule[b].gap, uid |-> n]} ELSE {}

(* Mutant of NextBurst: scheduled by its start time, not by the time left. *)
NextBurstAtStart(h, b, t, n) ==
    IF b = None THEN {}
    ELSE {[kind |-> "burst", host |-> h, ts |-> t + schedule[b].start, uid |-> n]}

(* The start of burst b of host h, if there is one. *)
NextBurst(h, b, t, n) ==
    IF b = None THEN {}
    ELSE {[kind |-> "burst", host |-> h, ts |-> t + (schedule[b].start - t), uid |-> n]}

(* Mutant of TransmitFullPacket: the packet is counted before it is numbered. *)
TransmitCountedFirst(b, t, others) ==
    /\ sentCounter' = [sentCounter EXCEPT ![b] = @ + 1]
    /\ outLog' = [outLog EXCEPT ![b] = Append(@, [seq |-> sentCounter[b] + 1, ts |-> t])]
    /\ \/ events' = others
       \/ \E delay \in Delay : events' = others \cup
              {[kind |-> "arrival", burst |-> b, seq |-> sentCounter[b] + 1,
                ts |-> t + delay, uid |-> uid]}

(* A packet leaves; the network loses it or delivers it some time later. *)
TransmitFullPacket(b, t, others) ==
    /\ sentCounter' = [sentCounter EXCEPT ![b] = @ + 1]
    /\ outLog' = [outLog EXCEPT ![b] = Append(@, [seq |-> sentCounter[b], ts |-> t])]
    /\ \/ events' = others
       \/ \E delay \in Delay : events' = others \cup
              {[kind |-> "arrival", burst |-> b, seq |-> sentCounter[b],
                ts |-> t + delay, uid |-> uid]}

BurstSendOut(b, t, others) ==
    TransmitFullPacket(b, t, others \cup NextPacket(b, t, uid + 1))

(***************************************************************************)
(* The events.                                                             *)
(***************************************************************************)
Take(e) ==
    /\ phase = "running" /\ Runs(e, events, endTime)
    /\ now' = e.ts
    /\ uid' = uid + 3
    /\ UNCHANGED <<schedule, endTime, results>>

(* The applications start before any packet is sent: none of their sockets *)
(* is still closed when one arrives.                                       *)
StartApplication(e) ==
    /\ e.kind = "app" /\ Take(e)
    /\ events' = (events \ {e}) \cup NextBurst(e.host, next[e.host], e.ts, uid)
    /\ UNCHANGED <<phase, next, counters, arrived>>

StartNextBurst(e) ==
    LET b == next[e.host]
        after == FirstFrom(e.host, b + 1)
        due == b # None /\ schedule[b].start = e.ts
    IN  /\ e.kind = "burst" /\ Take(e)
        /\ \/ /\ due
              /\ BurstSendOut(b, e.ts,
                     (events \ {e}) \cup NextBurst(e.host, after, e.ts, uid + 2))
              /\ next' = [next EXCEPT ![e.host] = after]
              /\ UNCHANGED phase
           \/ /\ ~due
              /\ phase' = "failed"
              /\ UNCHANGED <<events, next, counters>>
        /\ UNCHANGED arrived

SendNextPacket(e) ==
    /\ e.kind = "packet" /\ Take(e)
    /\ BurstSendOut(e.burst, e.ts, events \ {e})
    /\ UNCHANGED <<phase, next, arrived>>

(* Mutant of HandleRead: a packet counts once per number not yet seen in   *)
(* order, so one that was overtaken is lost to the counter.                *)
HandleReadInOrder(e) ==
    /\ e.kind = "arrival" /\ Take(e)
    /\ LET late == \E i \in DOMAIN inLog[e.burst] : inLog[e.burst][i].seq > e.seq IN
       received' = IF late THEN received ELSE [received EXCEPT ![e.burst] = @ + 1]
    /\ inLog' = [inLog EXCEPT ![e.burst] = Append(@, [seq |-> e.seq, ts |-> e.ts])]
    /\ events' = events \ {e}
    /\ UNCHANGED <<phase, next, counters>>

HandleRead(e) ==
    /\ e.kind = "arrival" /\ Take(e)
    /\ received' = [received EXCEPT ![e.burst] = @ + 1]
    /\ inLog' = [inLog EXCEPT ![e.burst] = Append(@, [seq |-> e.seq, ts |-> e.ts])]
    /\ events' = events \ {e}
    /\ UNCHANGED <<phase, next, counters>>

Stop ==
    /\ phase = "running" /\ NothingLeft(events, endTime)
    /\ phase' = "stopped" /\ now' = endTime
    /\ UNCHANGED <<schedule, endTime, uid, events, next, counters, arrived, results>>

(* The time burst b had; rates are the packets counted over this time. *)
EffectiveDuration(b) ==
    IF schedule[b].start + schedule[b].duration >= endTime
    THEN endTime - schedule[b].start ELSE schedule[b].duration

WriteResults ==
    /\ phase = "stopped"
    /\ phase' = "written"
    /\ results' = [b \in Bursts |-> [sent |-> sentCounter[b], received |-> received[b],
                                     duration |-> EffectiveDuration(b)]]
    /\ UNCHANGED <<schedule, endTime, now, uid, events, next, counters, arrived>>

RunEvent == \E e \in events :
    StartApplication(e) \/ StartNextBurst(e) \/ SendNextPacket(e) \/ HandleRead(e)

Next == ConstructScheduler \/ RunEvent \/ Stop \/ WriteResults

Spec == Init /\ [][Next]_vars
-----------------------------------------------------------------------------
(***************************************************************************)
(* Correctness.                                                            *)
(***************************************************************************)
(* A line of a log: the number of a packet and a time. *)
Line == [seq : Nat, ts : Nat]

(***************************************************************************)
(* A schedule that is accepted makes no exception later: the start of a    *)
(* burst comes at its time and for a burst that is left, also when several *)
(* bursts of one host begin together or while others still send.           *)
(***************************************************************************)
NeverThrows == phase = "failed" => ~Acceptable

(***************************************************************************)
(* Packet k of a burst leaves k gaps after its start, with number k,       *)
(* whatever other bursts do.                                               *)
(***************************************************************************)
SentOnTime ==
    \A b \in Bursts :
        /\ Len(outLog[b]) = sentCounter[b]
        /\ \A k \in 1..sentCounter[b] : outLog[b][k] =
               [seq |-> k - 1, ts |-> schedule[b].start + (k - 1) * schedule[b].gap]

(***************************************************************************)
(* The result of a burst is its target rate to within a packet: over the   *)
(* time it had, a packet was sent for each gap that began, at least one.   *)
(***************************************************************************)
SentFillsDuration ==
    phase = "written" =>
        \A b \in Bursts :
            LET r == results[b]
                had == IF r.duration = 0 THEN 1 ELSE r.duration
            IN  (r.sent - 1) * schedule[b].gap < had /\ had <= r.sent * schedule[b].gap

(***************************************************************************)
(* What a host counts and logs as received was sent, earlier or now, and   *)
(* each packet once, in whatever order the network delivers.               *)
(***************************************************************************)
ReceivedWasSent ==
    \A b \in Bursts :
        /\ received[b] = Len(inLog[b]) /\ received[b] <= sentCounter[b]
        /\ \A i, j \in DOMAIN inLog[b] : i # j => inLog[b][i].seq # inLog[b][j].seq
        /\ \A i \in DOMAIN inLog[b] : \E k \in DOMAIN outLog[b] :
               outLog[b][k].seq = inLog[b][i].seq /\ outLog[b][k].ts <= inLog[b][i].ts
=============================================================================
