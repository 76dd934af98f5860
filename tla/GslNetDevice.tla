---------------------------- MODULE GslNetDevice ----------------------------
(***************************************************************************)
(* GSLNetDevice and GSLChannel: the ground-to-satellite interfaces of all  *)
(* nodes, attached to one shared channel.  Each device keeps a DropTail    *)
(* queue of packets and, beside it, a second queue with the destination    *)
(* MAC address of each queued packet; the two are only kept in step by the *)
(* order in which the code touches them.                                   *)
(*                                                                         *)
(* The ns-3 simulator is the environment: it owns the clock and a list of  *)
(* pending events that it runs in order of time and, at equal times, in    *)
(* the order of scheduling.  The layers above a device (IP, applications,  *)
(* the bandwidth helper) may call it at any time up to the next event.     *)
(***************************************************************************)
EXTENDS Naturals, Sequences, FiniteSets

CONSTANTS
    Device,           \* the GSL devices; a device stands for its MAC address too
    Sender,           \* bound: the devices whose nodes have packets to send
    NoPacket,         \* the null packet pointer
    Size,             \* packet sizes
    Rate,             \* data rates
    InitialRate,      \* the rate the helper gives every device
    Delay,            \* propagation delays the movement of the nodes can produce
    TxTime(_, _),     \* DataRate::CalculateBytesTxTime: size, rate |-> time
    InterframeGap,    \* m_tInterframeGap
    MaxQueueSize,     \* packets the DropTail queue holds
    MaxPackets,       \* bound: packets handed to the devices in a run
    MaxCallTime       \* bound: last time at which a layer above calls a device

ASSUME TxTimeAssumption ==
    \A s \in Size, r \in Rate : TxTime(s, r) \in Nat
ASSUME DelayAssumption == Delay \subseteq Nat
ASSUME RateAssumption == InitialRate \in Rate
ASSUME GslBoundsAssumption ==
    /\ Sender \subseteq Device
    /\ InterframeGap \in Nat
    /\ MaxQueueSize \in Nat
    /\ MaxPackets \in Nat
    /\ MaxCallTime \in Nat

(***************************************************************************)
(* A packet.  "to" is the receiver the caller of Send asked for: a history *)
(* field that no action reads.                                             *)
(***************************************************************************)
Packet == [id : 0..(MaxPackets - 1), from : Device, to : Device, size : Size]

ASSUME NoPacketAssumption ==
    NoPacket \notin Packet /\ NoPacket \notin [pkt : Packet, dest : Device]

VARIABLES
    now,              \* Simulator::Now
    uid,              \* the number the simulator gives to the next event
    completions,      \* pending TransmitComplete events
    arrivals,         \* pending Receive events
    m_link,           \* devices GSLChannel::m_link maps a MAC address to
    m_linkUp,         \* per device
    m_txMachineState, \* per device, "READY" or "BUSY"
    m_currentPkt,     \* per device, a packet or NoPacket
    m_queue,          \* per device, the packets waiting
    m_queueDests,     \* per device, the destinations waiting
    m_bps,            \* per device, the data rate
    aborted,          \* an assertion or NS_ABORT of the code has failed
    sent,             \* history: calls of Send so far
    dropped,          \* history: packets for which Send returned false
    received          \* history: <<packet, device>> of each call of Receive

deviceVars == <<m_linkUp, m_txMachineState, m_currentPkt, m_queue, m_queueDests, m_bps>>
eventVars == <<now, uid, completions, arrivals>>
historyVars == <<sent, dropped, received>>
vars == <<eventVars, m_link, deviceVars, aborted, historyVars>>

-----------------------------------------------------------------------------
(***************************************************************************)
(* The simulator.                                                          *)
(***************************************************************************)
Events == completions \cup arrivals

(* e is the event the simulator runs next. *)
IsNextEvent(e) ==
    \A f \in Events : e.ts < f.ts \/ (e.ts = f.ts /\ e.uid <= f.uid)

(* A layer above can call a device at time t. *)
CallableAt(t) == now <= t /\ \A e \in Events : t <= e.ts

Init ==
    /\ now = 0 /\ uid = 0 /\ completions = {} /\ arrivals = {}
    /\ m_link = {}
    /\ m_linkUp = [d \in Device |-> FALSE]
    /\ m_txMachineState = [d \in Device |-> "READY"]
    /\ m_currentPkt = [d \in Device |-> NoPacket]
    /\ m_queue = [d \in Device |-> <<>>]
    /\ m_queueDests = [d \in Device |-> <<>>]
    /\ m_bps = [d \in Device |-> InitialRate]
    /\ aborted = FALSE
    /\ sent = 0 /\ dropped = {} /\ received = {}

-----------------------------------------------------------------------------
(***************************************************************************)
(* Attach: the helper attaches every device while it builds the topology,  *)
(* before the clock moves.                                                 *)
(***************************************************************************)
Attach(d) ==
    /\ ~aborted
    /\ now = 0 /\ d \notin m_link
    /\ m_link' = m_link \cup {d}
    /\ m_linkUp' = [m_linkUp EXCEPT ![d] = TRUE]
    /\ UNCHANGED <<eventVars, m_txMachineState, m_currentPkt, m_queue,
                   m_queueDests, m_bps, aborted, historyVars>>

(***************************************************************************)
(* SetDataRate, called by the bandwidth helper.  It changes the rate of    *)
(* later transmissions; the events of the running one stay as scheduled.   *)
(***************************************************************************)
SetDataRate(d, r, t) ==
    /\ ~aborted
    /\ CallableAt(t) /\ now' = t
    /\ m_bps' = [m_bps EXCEPT ![d] = r]
    /\ UNCHANGED <<uid, completions, arrivals, m_link, m_linkUp,
                   m_txMachineState, m_currentPkt, m_queue, m_queueDests,
                   aborted, historyVars>>

(* Mutant of TxCompleteTime: the transmission itself takes no time. *)
GapOnly(tx) == InterframeGap

(* How long the device stays BUSY for a transmission of duration tx. *)
TxCompleteTime(tx) == tx + InterframeGap

(***************************************************************************)
(* TransmitStart with GSLChannel::TransmitStart and TransmitTo.  "machine" *)
(* is the transmit state it is called in and "pending" the TransmitComplete*)
(* events that remain.  Two events are scheduled: the end of the           *)
(* transmission and, delayed by the distance of the two nodes at this      *)
(* moment, the reception.  start, tx and delay of an arrival are history.  *)
(***************************************************************************)
TransmitStart(d, p, dest, t, machine, pending, failed) ==
    \E delay \in Delay :
        LET tx == TxTime(p.size, m_bps[d]) IN
        /\ aborted' = (failed \/ machine # "READY" \/ dest \notin m_link)
        /\ m_txMachineState' = [m_txMachineState EXCEPT ![d] = "BUSY"]
        /\ m_currentPkt' = [m_currentPkt EXCEPT ![d] = p]
        /\ completions' = pending \cup
               {[ts |-> t + TxCompleteTime(tx), uid |-> uid, dev |-> d]}
        /\ arrivals' = arrivals \cup
               {[ts |-> t + tx + delay, uid |-> uid + 1, dev |-> dest, pkt |-> p,
                 start |-> t, tx |-> tx, delay |-> delay]}
        /\ uid' = uid + 2

-----------------------------------------------------------------------------
(***************************************************************************)
(* Send.                                                                   *)
(***************************************************************************)
(* Mutant of HasRoom: the limit is off by one. *)
HasRoomForOneMore(d) == Len(m_queue[d]) <= MaxQueueSize

(* DropTailQueue::Enqueue succeeds. *)
HasRoom(d) == Len(m_queue[d]) < MaxQueueSize

(* Mutant of SendDrop: the destination is queued before Enqueue has succeeded. *)
SendDropKeepsDest(d, p) ==
    /\ ~m_linkUp[d] \/ ~HasRoom(d)
    /\ dropped' = dropped \cup {p}
    /\ m_queueDests' = [m_queueDests EXCEPT ![d] = Append(@, p.to)]
    /\ UNCHANGED <<uid, completions, arrivals, m_linkUp, m_txMachineState,
                   m_currentPkt, m_queue, m_bps, aborted>>

(* The link is down, or the DropTail queue refuses the packet: Send drops  *)
(* it and returns false, and no destination is queued.                     *)
SendDrop(d, p) ==
    /\ ~m_linkUp[d] \/ ~HasRoom(d)
    /\ dropped' = dropped \cup {p}
    /\ UNCHANGED <<uid, completions, arrivals, deviceVars, aborted>>

(* Mutant of SendEnqueue: the newest packet is put in front. *)
SendEnqueueInFront(d, p, dest) ==
    /\ m_linkUp[d] /\ HasRoom(d)
    /\ m_txMachineState[d] # "READY"
    /\ m_queue' = [m_queue EXCEPT ![d] = <<p>> \o @]
    /\ m_queueDests' = [m_queueDests EXCEPT ![d] = <<dest>> \o @]
    /\ UNCHANGED <<uid, completions, arrivals, m_linkUp, m_txMachineState,
                   m_currentPkt, m_bps, aborted, dropped>>

(* The device is transmitting: the packet waits behind the others. *)
SendEnqueue(d, p, dest) ==
    /\ m_linkUp[d] /\ HasRoom(d)
    /\ m_txMachineState[d] # "READY"
    /\ m_queue' = [m_queue EXCEPT ![d] = Append(@, p)]
    /\ m_queueDests' = [m_queueDests EXCEPT ![d] = Append(@, dest)]
    /\ UNCHANGED <<uid, completions, arrivals, m_linkUp, m_txMachineState,
                   m_currentPkt, m_bps, aborted, dropped>>

(* The device is ready: the packet passes through both queues, and what is *)
(* at their front afterwards is transmitted.                               *)
SendNow(d, p, dest, t) ==
    LET q == Append(m_queue[d], p)
        dests == Append(m_queueDests[d], dest)
    IN  /\ m_linkUp[d] /\ HasRoom(d)
        /\ m_txMachineState[d] = "READY"
        /\ m_queue' = [m_queue EXCEPT ![d] = Tail(q)]
        /\ m_queueDests' = [m_queueDests EXCEPT ![d] = Tail(dests)]
        /\ TransmitStart(d, Head(q), Head(dests), t, m_txMachineState[d],
                         completions, FALSE)
        /\ UNCHANGED <<m_linkUp, m_bps, dropped>>

(* The ARP caches hold the addresses of the attached devices only, so IP   *)
(* never asks for another destination.                                     *)
Send(d, size, dest, t) ==
    LET p == [id |-> sent, from |-> d, to |-> dest, size |-> size] IN
    /\ ~aborted
    /\ sent < MaxPackets
    /\ dest \in m_link /\ dest # d
    /\ CallableAt(t) /\ now' = t
    /\ sent' = sent + 1
    /\ \/ SendDrop(d, p)
       \/ SendEnqueue(d, p, dest)
       \/ SendNow(d, p, dest, t)
    /\ UNCHANGED <<m_link, received>>

-----------------------------------------------------------------------------
(***************************************************************************)
(* TransmitComplete: the device becomes READY and, if a packet waits,      *)
(* starts on it at once with the destination at the front.                 *)
(***************************************************************************)
CompletionFails(d) == m_txMachineState[d] # "BUSY" \/ m_currentPkt[d] = NoPacket

(* Mutant of TransmitCompleteIdle: the waiting packets are not looked at. *)
TransmitCompleteForgetsQueue(e) ==
    LET d == e.dev IN
    /\ aborted' = CompletionFails(d)
    /\ m_txMachineState' = [m_txMachineState EXCEPT ![d] = "READY"]
    /\ m_currentPkt' = [m_currentPkt EXCEPT ![d] = NoPacket]
    /\ completions' = completions \ {e}
    /\ UNCHANGED <<uid, arrivals, m_queue, m_queueDests>>

TransmitCompleteIdle(e) ==
    LET d == e.dev IN
    /\ m_queue[d] = <<>>
    /\ aborted' = CompletionFails(d)
    /\ m_txMachineState' = [m_txMachineState EXCEPT ![d] = "READY"]
    /\ m_currentPkt' = [m_currentPkt EXCEPT ![d] = NoPacket]
    /\ completions' = completions \ {e}
    /\ UNCHANGED <<uid, arrivals, m_queue, m_queueDests>>

(* Mutant of TransmitCompleteNext: the device is not made READY first. *)
TransmitCompleteStaysBusy(e) ==
    LET d == e.dev IN
    /\ m_queue[d] # <<>>
    /\ m_queue' = [m_queue EXCEPT ![d] = Tail(@)]
    /\ m_queueDests' = [m_queueDests EXCEPT ![d] = Tail(@)]
    /\ TransmitStart(d, Head(m_queue[d]), Head(m_queueDests[d]), e.ts,
                     m_txMachineState[d], completions \ {e}, CompletionFails(d))

TransmitCompleteNext(e) ==
    LET d == e.dev IN
    /\ m_queue[d] # <<>>
    /\ m_queue' = [m_queue EXCEPT ![d] = Tail(@)]
    /\ m_queueDests' = [m_queueDests EXCEPT ![d] = Tail(@)]
    /\ TransmitStart(d, Head(m_queue[d]), Head(m_queueDests[d]), e.ts, "READY",
                     completions \ {e}, CompletionFails(d))

TransmitComplete(e) ==
    /\ ~aborted
    /\ e \in completions /\ IsNextEvent(e)
    /\ now' = e.ts
    /\ TransmitCompleteIdle(e) \/ TransmitCompleteNext(e)
    /\ UNCHANGED <<m_link, m_linkUp, m_bps, historyVars>>

(***************************************************************************)
(* Receive.  The packet leaves the device either way: dropped, if an error *)
(* model finds it corrupt, or up to the receive callback.                  *)
(***************************************************************************)
Receive(e) ==
    /\ ~aborted
    /\ e \in arrivals /\ IsNextEvent(e)
    /\ now' = e.ts
    /\ arrivals' = arrivals \ {e}
    /\ received' = received \cup {<<e.pkt, e.dev>>}
    /\ UNCHANGED <<uid, completions, m_link, deviceVars, aborted, sent, dropped>>

RunEvent == \/ \E e \in completions : TransmitComplete(e)
            \/ \E e \in arrivals : Receive(e)

Next ==
    \/ \E d \in Device : Attach(d)
    \/ \E d \in Sender, r \in Rate, t \in 0..MaxCallTime : SetDataRate(d, r, t)
    \/ \E d \in Sender, s \in Size, dest \in Device, t \in 0..MaxCallTime :
           Send(d, s, dest, t)
    \/ RunEvent

Spec == Init /\ [][Next]_vars

(* The simulator runs its events as long as there are any. *)
FairSpec == Spec /\ WF_vars(RunEvent)
-----------------------------------------------------------------------------
(***************************************************************************)
(* Correctness.                                                            *)
(***************************************************************************)
Completion == [ts : Nat, uid : Nat, dev : Device]
Arrival == [ts : Nat, uid : Nat, dev : Device, pkt : Packet,
            start : Nat, tx : Nat, delay : Delay]

(* Every variable has its type; the queue respects the DropTail limit. *)
TypeOK ==
    /\ now \in Nat /\ uid \in Nat
    /\ completions \subseteq Completion /\ arrivals \subseteq Arrival
    /\ m_link \subseteq Device
    /\ m_linkUp \in [Device -> BOOLEAN]
    /\ m_txMachineState \in [Device -> {"READY", "BUSY"}]
    /\ m_currentPkt \in [Device -> Packet \cup {NoPacket}]
    /\ m_queue \in [Device -> Seq(Packet)]
    /\ \A d \in Device : Len(m_queue[d]) <= MaxQueueSize
    /\ m_queueDests \in [Device -> Seq(Device)]
    /\ m_bps \in [Device -> Rate]
    /\ aborted \in BOOLEAN
    /\ sent \in 0..MaxPackets
    /\ dropped \subseteq Packet
    /\ received \subseteq (Packet \X Device)

(***************************************************************************)
(* No order of calls and events makes an assertion of the device fail      *)
(* ("Must be READY to transmit", "Must be BUSY if transmitting",           *)
(* "m_currentPkt zero") or brings an unknown MAC address to the channel.   *)
(***************************************************************************)
NeverAborts == ~aborted

(***************************************************************************)
(* A packet is on its way to, and is only ever received by, the device the *)
(* caller of Send named for it: overflow of the packet queue never shifts  *)
(* the queue of destinations against it.                                   *)
(***************************************************************************)
RightReceiver == /\ \A e \in arrivals : e.dev = e.pkt.to
                 /\ \A r \in received : r[2] = r[1].to

(***************************************************************************)
(* A later packet of the same device can overtake an earlier one on the    *)
(* channel only if the propagation delay fell, between the two, by more    *)
(* than the later packet's own transmission time plus the interframe gap,  *)
(* whatever the bandwidth helper did to the data rate in the meantime.     *)
(***************************************************************************)
OvertakingNeedsShrinkingDelay ==
    \A e, f \in arrivals :
        (/\ e.pkt.from = f.pkt.from
         /\ e.pkt.id < f.pkt.id
         /\ f.ts < e.ts) => f.delay + f.tx + InterframeGap < e.delay

(***************************************************************************)
(* The device is a work-conserving FIFO server: its two queues are one     *)
(* queue of jobs.                                                          *)
(***************************************************************************)
JobOf(p) == [pkt |-> p, dest |-> p.to]
Server == INSTANCE FifoServer WITH
    Server <- Device,
    Job <- [pkt : Packet, dest : Device],
    Capacity <- MaxQueueSize,
    Idle <- NoPacket,
    up <- {d \in Device : m_linkUp[d]},
    serving <- [d \in Device |-> IF m_currentPkt[d] = NoPacket THEN NoPacket
                                 ELSE JobOf(m_currentPkt[d])],
    waiting <- [d \in Device |-> [i \in 1..Len(m_queue[d]) |->
                   [pkt |-> m_queue[d][i], dest |-> m_queueDests[d][i]]]],
    flying <- {[pkt |-> e.pkt, dest |-> e.dev] : e \in arrivals},
    arrived <- {[pkt |-> r[1], dest |-> r[2]] : r \in received},
    refused <- {JobOf(p) : p \in dropped}

(* Every step of the device is a step of the FIFO server or invisible to it. *)
ImplementsFifoServer == Server!Spec

(***************************************************************************)
(* A packet Send has accepted is eventually received: the chain of         *)
(* TransmitComplete events that empties the queue never breaks.            *)
(***************************************************************************)
AcceptedPacketArrives ==
    \A i \in 0..(MaxPackets - 1) :
        (sent > i /\ \A p \in dropped : p.id # i)
            ~> (\E r \in received : r[1].id = i)
=============================================================================
