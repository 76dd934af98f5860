--------------------------- MODULE LaserNetDevice ---------------------------
(***************************************************************************)
(* PointToPointLaserNetDevice and PointToPointLaserChannel: the two ends   *)
(* of an inter-satellite link, with utilization tracking switched on.  A   *)
(* device transmits one packet at a time from a DropTail queue; a packet   *)
(* is received at the other end after its transmission time and the delay  *)
(* the distance of the satellites gives at the start of the transmission.  *)
(* The simulator runs until endTime and the results are collected then.    *)
(***************************************************************************)
EXTENDS UtilizationTracker

CONSTANTS
    Device,           \* the two ends
    TxTimes,          \* transmission times of the packets; the gap is left at 0
    Delay,            \* propagation delays
    MaxQueueSize,     \* packets the DropTail queue holds
    EndTimes,         \* bound: values of simulation_end_time_ns
    Resolution,       \* 1 / the tolerance that tells two utilizations apart
    MaxPackets        \* bound: packets handed to the devices in a run

ASSUME LaserAssumption ==
    /\ TxTimes \subseteq Nat \ {0} /\ Delay \subseteq Nat
    /\ MaxQueueSize \in Nat /\ EndTimes \subseteq Nat /\ MaxPackets \in Nat
    /\ Resolution \in Nat
    /\ Cardinality(Device) = 2

VARIABLES
    endTime,          \* simulation_end_time_ns, fixed by the configuration
    now,              \* Simulator::Now
    completions,      \* pending TransmitComplete events
    arrivals,         \* pending Receive events
    m_txMachineState, \* per device, "READY" or "BUSY"
    m_queue,          \* per device, the transmission times of the packets waiting
    tracker,          \* per device, the state of the utilization tracker
    aborted,          \* an assertion or NS_ABORT of the code has failed
    finalized,        \* the results have been collected
    islFile,          \* per device, its lines in isl_utilization.csv
    ptopFile,         \* per device, its lines in link_utilization_compressed.csv
    sent,             \* history: packets handed to the devices so far
    busySlots         \* history: per device, the units of time it was BUSY in

vars == <<endTime, now, completions, arrivals, m_txMachineState, m_queue, tracker,
          aborted, finalized, islFile, ptopFile, sent, busySlots>>
resultVars == <<finalized, islFile, ptopFile>>

Init ==
    /\ endTime \in EndTimes
    /\ now = 0 /\ completions = {} /\ arrivals = {}
    /\ m_txMachineState = [d \in Device |-> "READY"]
    /\ m_queue = [d \in Device |-> <<>>]
    /\ tracker = [d \in Device |-> NewTracker]
    /\ aborted = FALSE /\ finalized = FALSE /\ sent = 0
    /\ islFile = [d \in Device |-> {}] /\ ptopFile = [d \in Device |-> {}]
    /\ busySlots = [d \in Device |-> {}]

-----------------------------------------------------------------------------
Events == completions \cup arrivals

(* The clock moves to t, not beyond any pending event. *)
AdvanceTo(t) ==
    /\ now <= t /\ \A e \in Events : t <= e.ts
    /\ now' = t /\ UNCHANGED endTime
    /\ busySlots' = [d \in Device |->
           IF m_txMachineState[d] = "BUSY" THEN busySlots[d] \cup {s \in now..t : s < t}
           ELSE busySlots[d]]

(* m_link[wire].m_dst: the other end *)
OtherEnd(d) == CHOOSE e \in Device : e # d

(***************************************************************************)
(* TransmitStart and the channel's TransmitStart, called with the tracker  *)
(* state tr, in the transmit state "machine", at time t.                   *)
(***************************************************************************)
TransmitStart(d, tx, t, machine, tr, pending, failed) ==
    \E delay \in Delay :
        /\ m_txMachineState' = [m_txMachineState EXCEPT ![d] = "BUSY"]
        /\ tracker' = [tracker EXCEPT ![d] = TrackUtilization(tr, TRUE, t)]
        /\ aborted' = (failed \/ machine # "READY" \/ TimeUnaccounted(tr, TRUE, t))
        /\ completions' = pending \cup {[ts |-> t + tx, dev |-> d]}
        /\ arrivals' = arrivals \cup
               {[ts |-> t + tx + delay, dev |-> OtherEnd(d), start |-> t]}

(***************************************************************************)
(* Send: dropped by a full queue, queued behind the packet on the wire, or *)
(* transmitted at once.                                                    *)
(***************************************************************************)
SendDrop(d) ==
    /\ Len(m_queue[d]) >= MaxQueueSize
    /\ UNCHANGED <<completions, arrivals, m_txMachineState, m_queue, tracker, aborted>>

(* Mutant of SendEnqueue: the limit of the queue is off by one. *)
SendEnqueueOneMore(d, tx) ==
    /\ Len(m_queue[d]) <= MaxQueueSize /\ m_txMachineState[d] # "READY"
    /\ m_queue' = [m_queue EXCEPT ![d] = Append(@, tx)]
    /\ UNCHANGED <<completions, arrivals, m_txMachineState, tracker, aborted>>

SendEnqueue(d, tx) ==
    /\ Len(m_queue[d]) < MaxQueueSize /\ m_txMachineState[d] # "READY"
    /\ m_queue' = [m_queue EXCEPT ![d] = Append(@, tx)]
    /\ UNCHANGED <<completions, arrivals, m_txMachineState, tracker, aborted>>

SendNow(d, tx, t) ==
    LET q == Append(m_queue[d], tx) IN
    /\ Len(m_queue[d]) < MaxQueueSize /\ m_txMachineState[d] = "READY"
    /\ m_queue' = [m_queue EXCEPT ![d] = Tail(q)]
    /\ TransmitStart(d, Head(q), t, m_txMachineState[d], tracker[d], completions, FALSE)

Send(d, tx, t) ==
    /\ ~aborted /\ ~finalized
    /\ sent < MaxPackets
    /\ AdvanceTo(t)
    /\ sent' = sent + 1
    /\ SendDrop(d) \/ SendEnqueue(d, tx) \/ SendNow(d, tx, t)
    /\ UNCHANGED resultVars

(***************************************************************************)
(* TransmitComplete: the tracker sees the end of one transmission and, in  *)
(* the same instant, the start of the next if a packet waits.              *)
(***************************************************************************)
TransmitCompleteIdle(e, tr, failed) ==
    LET d == e.dev IN
    /\ m_queue[d] = <<>>
    /\ m_txMachineState' = [m_txMachineState EXCEPT ![d] = "READY"]
    /\ tracker' = [tracker EXCEPT ![d] = tr]
    /\ aborted' = failed
    /\ completions' = completions \ {e}
    /\ UNCHANGED <<arrivals, m_queue>>

TransmitCompleteNext(e, tr, failed) ==
    LET d == e.dev IN
    /\ m_queue[d] # <<>>
    /\ m_queue' = [m_queue EXCEPT ![d] = Tail(@)]
    /\ TransmitStart(d, Head(m_queue[d]), e.ts, "READY", tr, completions \ {e}, failed)

TransmitComplete(e) ==
    LET d == e.dev
        tr == TrackUtilization(tracker[d], FALSE, e.ts)
        failed == m_txMachineState[d] # "BUSY" \/ TimeUnaccounted(tracker[d], FALSE, e.ts)
    IN  /\ ~aborted /\ ~finalized
        /\ e \in completions /\ e.ts < endTime
        /\ AdvanceTo(e.ts)
        /\ TransmitCompleteIdle(e, tr, failed) \/ TransmitCompleteNext(e, tr, failed)
        /\ UNCHANGED <<resultVars, sent>>

(* Receive changes nothing but the layers above. *)
Receive(e) ==
    /\ ~aborted /\ ~finalized
    /\ e \in arrivals /\ e.ts < endTime
    /\ AdvanceTo(e.ts)
    /\ arrivals' = arrivals \ {e}
    /\ UNCHANGED <<completions, m_txMachineState, m_queue, tracker, aborted,
                   resultVars, sent>>

(***************************************************************************)
(* The simulation stops at endTime, before any other event of that time,   *)
(* and CollectUtilizationStatistics finalizes every device once.  A        *)
(* PtopLinkUtilizationTracker that listens to such a device is finalized   *)
(* then too and its results are written.                                   *)
(***************************************************************************)
CollectUtilizationStatistics ==
    LET final == [d \in Device |-> Finalized(tracker[d], endTime)] IN
    /\ ~aborted /\ ~finalized
    /\ AdvanceTo(endTime)
    /\ finalized' = TRUE
    /\ tracker' = final
    /\ aborted' = \E d \in Device :
           TimeUnaccounted(tracker[d], ~tracker[d].on, endTime)
    /\ islFile' = [d \in Device |-> IslFile(LaserIntervals(final[d]))]
    /\ ptopFile' = [d \in Device |-> PtopFile(PtopIntervals(final[d], endTime), Resolution)]
    /\ UNCHANGED <<completions, arrivals, m_txMachineState, m_queue, sent>>

Next ==
    \/ \E d \in Device, tx \in TxTimes, t \in 0..endTime : t < endTime /\ Send(d, tx, t)
    \/ \E e \in completions : TransmitComplete(e)
    \/ \E e \in arrivals : Receive(e)
    \/ CollectUtilizationStatistics

Spec == Init /\ [][Next]_vars
-----------------------------------------------------------------------------
(***************************************************************************)
(* Correctness.                                                            *)
(***************************************************************************)
Tracker == [prev : Nat, start : Nat, end : Nat, idle : Nat, busy : Nat,
            on : BOOLEAN, done : Seq(Nat)]
Line == [from : Nat, to : Nat, busy : Nat]

(* The types of the variables the simulation itself runs on. *)
MachineTypeOK ==
    /\ endTime \in EndTimes /\ now \in Nat
    /\ completions \subseteq [ts : Nat, dev : Device]
    /\ arrivals \subseteq [ts : Nat, dev : Device, start : Nat]
    /\ m_txMachineState \in [Device -> {"READY", "BUSY"}]
    /\ m_queue \in [Device -> Seq(TxTimes)]
    /\ tracker \in [Device -> Tracker]
    /\ aborted \in BOOLEAN /\ finalized \in BOOLEAN
    /\ sent \in 0..MaxPackets

(* Every variable has its type; the queue respects the DropTail limit and  *)
(* nothing happens after the end of the simulation.                        *)
TypeOK ==
    /\ MachineTypeOK
    /\ now <= endTime
    /\ \A d \in Device : Len(m_queue[d]) <= MaxQueueSize
    /\ islFile \in [Device -> SUBSET Line] /\ ptopFile \in [Device -> SUBSET Line]
    /\ busySlots \in [Device -> SUBSET (0..endTime)]

(***************************************************************************)
(* The check "Not all time is accounted for" of the tracker never fails,   *)
(* nor an assertion of the device: however transmissions start and end     *)
(* within, across and exactly on interval boundaries, the idle and busy    *)
(* time of each interval add up to its length.                             *)
(***************************************************************************)
AllTimeAccounted == ~aborted

(* The time the transmitter of d was really on in the units from..to-1.    *)
BusyTime(d, from, to) == Cardinality({s \in busySlots[d] : from <= s /\ s < to})

(***************************************************************************)
(* The busy time the tracker holds, for every interval that is over and    *)
(* for the part of the current one up to its last event, is the time the   *)
(* transmitter was really on in it.                                        *)
(***************************************************************************)
TrackedTimeIsBusyTime ==
    \A d \in Device :
        LET tr == tracker[d] IN
        /\ \A i \in DOMAIN tr.done :
               tr.done[i] = BusyTime(d, (i - 1) * Interval, i * Interval)
        /\ tr.busy = BusyTime(d, tr.start, tr.prev)

(* The lines leave no gap and do not overlap between 0 and end. *)
Tile(lines, end) ==
    /\ \A l \in lines : l.from < l.to /\ l.to <= end
    /\ \A t \in 0..(end - 1) :
           Cardinality({l \in lines : l.from <= t /\ t < l.to}) = 1

(***************************************************************************)
(* isl_utilization.csv covers all intervals that are over when the run     *)
(* ends; every line states the utilization each interval in it really had, *)
(* and neighbouring lines differ.                                          *)
(***************************************************************************)
IslFileIsTrue ==
    finalized =>
        \A d \in Device :
            /\ Tile(islFile[d], endTime - (endTime % Interval))
            /\ \A l \in islFile[d] : \A t \in l.from..(l.to - 1) :
                   t % Interval = 0 => l.busy = BusyTime(d, t, t + Interval)
            /\ \A l, k \in islFile[d] : l.to = k.from => l.busy # k.busy

(***************************************************************************)
(* link_utilization_compressed.csv covers the run to its very end, the     *)
(* incomplete last interval included, and every line states the time the   *)
(* transmitter was really on from its start to its end.                    *)
(***************************************************************************)
PtopFileIsTrue ==
    finalized =>
        \A d \in Device :
            /\ Tile(ptopFile[d], endTime)
            /\ \A l \in ptopFile[d] : l.busy = BusyTime(d, l.from, l.to)
=============================================================================
