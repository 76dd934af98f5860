----------------------- MODULE SatelliteNetworkProofs -----------------------
(***************************************************************************)
(* Proofs about GslNetDevice, for every set of devices, sizes, rates and   *)
(* delays, every queue limit and every bound; and about the network such   *)
(* devices are part of (TopologySatelliteNetwork), for every list of       *)
(* shells, every number of ground stations and every file edited by hand.  *)
(***************************************************************************)
EXTENDS GslNetDevice, TopologySatelliteNetwork, FiniteSetTheorems, WellFoundedInduction, TLAPS


-----------------------------------------------------------------------------
(***************************************************************************)
(* The inductive invariant.                                                *)
(***************************************************************************)
(* Each device has exactly one pending TransmitComplete while it is BUSY,  *)
(* none while it is READY, and nothing waits behind a READY device.        *)
MachineInv ==
    /\ \A d \in Device :
           /\ m_txMachineState[d] = "READY" => m_currentPkt[d] = NoPacket
           /\ m_txMachineState[d] = "BUSY" => m_currentPkt[d] # NoPacket
           /\ m_txMachineState[d] = "READY" => m_queue[d] = <<>>
    /\ \A c \in completions : m_txMachineState[c.dev] = "BUSY"
    /\ \A b, c \in completions : b.dev = c.dev => b = c

(* The queue of destinations belongs, entry by entry, to that of packets.  *)
QueuesInv ==
    \A d \in Device :
        /\ Len(m_queueDests[d]) = Len(m_queue[d])
        /\ \A i \in 1..Len(m_queue[d]) :
               /\ m_queueDests[d][i] = m_queue[d][i].to
               /\ m_queue[d][i].to \in m_link
               /\ m_queue[d][i].from = d

(* Packets wait in the order of Send, behind all those already in flight.  *)
OrderInv ==
    /\ \A e \in arrivals : e.pkt.id < sent
    /\ \A d \in Device : \A i \in 1..Len(m_queue[d]) :
           /\ m_queue[d][i].id < sent
           /\ \A j \in 1..Len(m_queue[d]) :
                  i < j => m_queue[d][i].id < m_queue[d][j].id
           /\ \A e \in arrivals : e.pkt.from = d => e.pkt.id < m_queue[d][i].id

(* No event lies in the past, and the transmissions of a device follow one *)
(* another without overlap.                                                *)
TimeInv ==
    /\ \A e \in Events : now <= e.ts
    /\ \A e \in arrivals : e.ts = e.start + e.tx + e.delay
    /\ \A e \in arrivals, c \in completions :
           e.pkt.from = c.dev => e.start + e.tx + InterframeGap <= c.ts
    /\ \A e \in arrivals :
           m_txMachineState[e.pkt.from] = "READY"
               => e.start + e.tx + InterframeGap <= now
    /\ \A e, f \in arrivals :
           e.pkt.from = f.pkt.from /\ e.pkt.id < f.pkt.id
               => e.start + e.tx + InterframeGap <= f.start

IInv == /\ TypeOK
        /\ NeverAborts
        /\ MachineInv
        /\ QueuesInv
        /\ RightReceiver
        /\ OrderInv
        /\ TimeInv

-----------------------------------------------------------------------------
(* A packet that passes through a queue leaves it as long as it was. *)
LEMMA PassThrough ==
    ASSUME NEW S, NEW s \in Seq(S), NEW x \in S
    PROVE  /\ Head(Append(s, x)) \in S
           /\ Tail(Append(s, x)) \in Seq(S)
           /\ Len(Tail(Append(s, x))) = Len(s)
           /\ s = <<>> => Head(Append(s, x)) = x
  OBVIOUS

(* What is left of a queue when its front is taken. *)
LEMMA TailFacts ==
    ASSUME NEW S, NEW s \in Seq(S), s # <<>>
    PROVE  /\ Len(s) \in Nat /\ Len(Tail(s)) = Len(s) - 1
           /\ \A i \in 1..Len(Tail(s)) : i + 1 \in 1..Len(s) /\ Tail(s)[i] = s[i + 1]
  OBVIOUS

(* What the types say of a packet in flight. *)
LEMMA ArrivalTypes ==
    ASSUME TypeOK, NEW e \in arrivals
    PROVE  /\ e.ts \in Nat /\ e.start \in Nat /\ e.tx \in Nat /\ e.delay \in Nat
           /\ e.pkt \in Packet /\ e.pkt.from \in Device /\ e.pkt.id \in Nat
           /\ e.dev \in Device
<1>1. e \in Arrival
  BY DEF TypeOK
<1>2. /\ e.ts \in Nat /\ e.start \in Nat /\ e.tx \in Nat /\ e.delay \in Nat
      /\ e.pkt \in Packet /\ e.dev \in Device
  BY <1>1, DelayAssumption DEF Arrival
<1>3. \A p \in Packet : p.from \in Device /\ p.id \in Nat
  BY GslBoundsAssumption DEF Packet
<1>4. QED BY <1>2, <1>3

(* What starting a transmission changes, in the terms of the types. *)
LEMMA TransmitStartTypes ==
    ASSUME TypeOK,
           NEW d \in Device, NEW p \in Packet, NEW dest \in Device, NEW t \in Nat,
           NEW machine, NEW pending \in SUBSET Completion, NEW failed \in BOOLEAN,
           TransmitStart(d, p, dest, t, machine, pending, failed)
    PROVE  /\ uid' \in Nat
           /\ completions' \subseteq Completion
           /\ arrivals' \subseteq Arrival
           /\ m_txMachineState' \in [Device -> {"READY", "BUSY"}]
           /\ m_currentPkt' \in [Device -> Packet \cup {NoPacket}]
           /\ aborted' \in BOOLEAN
<1>1. PICK delay \in Delay :
        LET tx == TxTime(p.size, m_bps[d]) IN
        /\ aborted' = (failed \/ machine # "READY" \/ dest \notin m_link)
        /\ m_txMachineState' = [m_txMachineState EXCEPT ![d] = "BUSY"]
        /\ m_currentPkt' = [m_currentPkt EXCEPT ![d] = p]
        /\ completions' = pending \cup
               {[ts |-> t + TxCompleteTime(tx), uid |-> uid, dev |-> d]}
        /\ arrivals' = arrivals \cup
               {[ts |-> t + tx + delay, uid |-> uid + 1, dev |-> dest, pkt |-> p,
                 start |-> t, tx |-> tx, delay |-> delay]}
        /\ uid' = uid + 2
  BY DEF TransmitStart
<1>2. TxTime(p.size, m_bps[d]) \in Nat /\ delay \in Nat
  BY TxTimeAssumption, DelayAssumption DEF TypeOK, Packet
<1>3. /\ uid' \in Nat
      /\ m_txMachineState' \in [Device -> {"READY", "BUSY"}]
      /\ m_currentPkt' \in [Device -> Packet \cup {NoPacket}]
      /\ aborted' \in BOOLEAN
  BY <1>1 DEF TypeOK
<1>4. completions' \subseteq Completion
  <2>1. [ts |-> t + TxCompleteTime(TxTime(p.size, m_bps[d])), uid |-> uid, dev |-> d]
            \in Completion
    BY <1>2, GslBoundsAssumption DEF Completion, TxCompleteTime, TypeOK
  <2>2. QED BY <1>1, <2>1
<1>5. arrivals' \subseteq Arrival
  <2>1. [ts |-> t + TxTime(p.size, m_bps[d]) + delay, uid |-> uid + 1, dev |-> dest,
         pkt |-> p, start |-> t, tx |-> TxTime(p.size, m_bps[d]), delay |-> delay]
            \in Arrival
    BY <1>2 DEF Arrival, TypeOK
  <2>2. QED BY <1>1, <2>1 DEF TypeOK
<1>6. QED BY <1>3, <1>4, <1>5

(* The types alone are not inductive: the destination taken from the front *)
(* of its queue is one only because the two queues are equally long.       *)
LEMMA TypePreserved == TypeOK /\ QueuesInv /\ [Next]_vars => TypeOK'
<1> SUFFICES ASSUME TypeOK, QueuesInv, [Next]_vars PROVE TypeOK'
  OBVIOUS
<1>1. ASSUME NEW d \in Device, Attach(d) PROVE TypeOK'
  BY <1>1 DEF TypeOK, Attach, eventVars, historyVars
<1>2. ASSUME NEW d \in Sender, NEW r \in Rate, NEW t \in 0..MaxCallTime, SetDataRate(d, r, t)
      PROVE  TypeOK'
  BY <1>2, GslBoundsAssumption DEF TypeOK, SetDataRate, historyVars
<1>3. ASSUME NEW d \in Sender, NEW s \in Size, NEW dest \in Device, NEW t \in 0..MaxCallTime,
             Send(d, s, dest, t)
      PROVE  TypeOK'
  <2> DEFINE p == [id |-> sent, from |-> d, to |-> dest, size |-> s]
  <2>1. /\ sent < MaxPackets /\ now' = t /\ sent' = sent + 1
        /\ m_link' = m_link /\ received' = received
        /\ SendDrop(d, p) \/ SendEnqueue(d, p, dest) \/ SendNow(d, p, dest, t)
    BY <1>3 DEF Send
  <2>2. d \in Device /\ t \in Nat /\ sent \in Nat /\ MaxPackets \in Nat
    BY GslBoundsAssumption DEF TypeOK
  <2>3. p \in Packet
    BY <2>1, <2>2 DEF Packet
  <2>4. now' \in Nat /\ sent' \in 0..MaxPackets
    BY <2>1, <2>2
  <2> HIDE DEF p
  <2>5. CASE SendDrop(d, p)
    BY <2>1, <2>3, <2>4, <2>5 DEF TypeOK, SendDrop, deviceVars
  <2>6. CASE SendEnqueue(d, p, dest)
    <3>1. /\ Len(m_queue[d]) < MaxQueueSize
          /\ m_queue' = [m_queue EXCEPT ![d] = Append(@, p)]
          /\ m_queueDests' = [m_queueDests EXCEPT ![d] = Append(@, dest)]
      BY <2>6 DEF SendEnqueue, HasRoom
    <3>2. m_queue' \in [Device -> Seq(Packet)] /\ m_queueDests' \in [Device -> Seq(Device)]
      BY <3>1, <2>2, <2>3 DEF TypeOK
    <3>3. \A x \in Device : Len(m_queue'[x]) <= MaxQueueSize
      BY <3>1, <2>2, <2>3, GslBoundsAssumption DEF TypeOK
    <3>4. QED BY <2>1, <2>4, <2>6, <3>2, <3>3 DEF TypeOK, SendEnqueue
  <2>7. CASE SendNow(d, p, dest, t)
    <3> DEFINE q == Append(m_queue[d], p)
               ds == Append(m_queueDests[d], dest)
    <3>1. /\ Len(m_queue[d]) < MaxQueueSize
          /\ m_queue' = [m_queue EXCEPT ![d] = Tail(q)]
          /\ m_queueDests' = [m_queueDests EXCEPT ![d] = Tail(ds)]
          /\ TransmitStart(d, Head(q), Head(ds), t, m_txMachineState[d], completions, FALSE)
          /\ UNCHANGED <<m_linkUp, m_bps, dropped>>
      BY <2>7 DEF SendNow, HasRoom
    <3>2. m_queue[d] \in Seq(Packet) /\ m_queueDests[d] \in Seq(Device)
      BY <2>2 DEF TypeOK
    <3>3. /\ Head(q) \in Packet /\ Tail(q) \in Seq(Packet)
          /\ Len(Tail(q)) = Len(m_queue[d])
      BY <2>3, <3>2, PassThrough
    <3>4. Head(ds) \in Device /\ Tail(ds) \in Seq(Device)
      BY <3>2, PassThrough
    <3> HIDE DEF q, ds
    <3>5. m_queue' \in [Device -> Seq(Packet)] /\ m_queueDests' \in [Device -> Seq(Device)]
      BY <3>1, <3>3, <3>4 DEF TypeOK
    <3>6. \A x \in Device : Len(m_queue'[x]) <= MaxQueueSize
      BY <3>1, <3>3, <2>2 DEF TypeOK
    <3>7. completions \in SUBSET Completion
      BY DEF TypeOK
    <3>8. QED BY <2>1, <2>2, <2>4, <3>1, <3>3, <3>4, <3>5, <3>6, <3>7, TransmitStartTypes DEF TypeOK
  <2>8. QED BY <2>1, <2>5, <2>6, <2>7
<1>4. ASSUME NEW e \in completions, TransmitComplete(e) PROVE TypeOK'
  <2>1. e \in Completion /\ e.dev \in Device /\ e.ts \in Nat
    BY DEF TypeOK, Completion
  <2>2. CASE TransmitCompleteIdle(e)
    BY <1>4, <2>1, <2>2 DEF TypeOK, TransmitComplete, TransmitCompleteIdle, CompletionFails, historyVars
  <2>3. CASE TransmitCompleteNext(e)
    <3> DEFINE d == e.dev
    <3>1. /\ m_queue[d] # <<>>
          /\ m_queue' = [m_queue EXCEPT ![d] = Tail(@)]
          /\ m_queueDests' = [m_queueDests EXCEPT ![d] = Tail(@)]
          /\ TransmitStart(d, Head(m_queue[d]), Head(m_queueDests[d]), e.ts, "READY",
                           completions \ {e}, CompletionFails(d))
      BY <2>3 DEF TransmitCompleteNext
    <3>2. d \in Device /\ e.ts \in Nat
      BY <2>1
    <3> HIDE DEF d
    <3>3. /\ m_queue[d] \in Seq(Packet) /\ m_queueDests[d] \in Seq(Device)
          /\ Len(m_queueDests[d]) = Len(m_queue[d]) /\ Len(m_queue[d]) <= MaxQueueSize
      BY <3>2 DEF TypeOK, QueuesInv
    <3>4. /\ Head(m_queue[d]) \in Packet /\ Tail(m_queue[d]) \in Seq(Packet)
          /\ Len(Tail(m_queue[d])) <= MaxQueueSize
          /\ Head(m_queueDests[d]) \in Device /\ Tail(m_queueDests[d]) \in Seq(Device)
      BY <3>1, <3>3, GslBoundsAssumption
    <3>5. m_queue' \in [Device -> Seq(Packet)] /\ m_queueDests' \in [Device -> Seq(Device)]
      BY <3>1, <3>4 DEF TypeOK
    <3>6. \A x \in Device : Len(m_queue'[x]) <= MaxQueueSize
      BY <3>1, <3>2, <3>4 DEF TypeOK
    <3>7. completions \ {e} \in SUBSET Completion /\ CompletionFails(d) \in BOOLEAN
      BY DEF TypeOK, CompletionFails
    <3>8. now' \in Nat /\ UNCHANGED <<m_link, m_linkUp, m_bps, sent, dropped, received>>
      BY <1>4, <3>2 DEF TransmitComplete, historyVars
    <3>9. /\ uid' \in Nat
          /\ completions' \subseteq Completion
          /\ arrivals' \subseteq Arrival
          /\ m_txMachineState' \in [Device -> {"READY", "BUSY"}]
          /\ m_currentPkt' \in [Device -> Packet \cup {NoPacket}]
          /\ aborted' \in BOOLEAN
      BY <3>1, <3>2, <3>4, <3>7, TransmitStartTypes
    <3>10. QED BY <3>5, <3>6, <3>8, <3>9 DEF TypeOK
  <2>4. QED BY <1>4, <2>2, <2>3 DEF TransmitComplete
<1>5. ASSUME NEW e \in arrivals, Receive(e) PROVE TypeOK'
  <2>1. e.ts \in Nat /\ e.pkt \in Packet /\ e.dev \in Device
    BY DEF TypeOK, Arrival
  <2>2. /\ now' = e.ts /\ arrivals' = arrivals \ {e}
        /\ received' = received \cup {<<e.pkt, e.dev>>}
        /\ UNCHANGED <<uid, completions, m_link, m_linkUp, m_txMachineState, m_currentPkt,
                       m_queue, m_queueDests, m_bps, aborted, sent, dropped>>
    BY <1>5 DEF Receive, deviceVars
  <2>3. received' \subseteq (Packet \X Device) /\ arrivals' \subseteq Arrival
    BY <2>1, <2>2 DEF TypeOK
  <2>4. now' \in Nat
    BY <2>1, <2>2
  <2>5. QED BY <2>2, <2>3, <2>4 DEF TypeOK
<1>6. CASE UNCHANGED vars
  BY <1>6 DEF TypeOK, vars, eventVars, deviceVars, historyVars
<1>7. QED BY <1>1, <1>2, <1>3, <1>4, <1>5, <1>6 DEF Next, RunEvent
(***************************************************************************)
(* TransmitStart of packet p to dest at time t, called at a moment when    *)
(* every transmission of the device d is over and its TransmitComplete     *)
(* event has been taken off the list, and what it leaves behind.           *)
(***************************************************************************)
Starts(d, p, dest, t, pending) ==
    /\ d \in Device /\ p \in Packet /\ dest \in m_link /\ t \in Nat
    /\ pending \subseteq completions
    /\ TransmitStart(d, p, dest, t, "READY", pending, FALSE)
    /\ p.from = d /\ now <= t /\ now' = t
    /\ \A e \in Events : t <= e.ts
    /\ \A c \in pending : c.dev # d
    /\ \A e \in arrivals : e.pkt.from = d =>
           e.pkt.id < p.id /\ e.start + e.tx + InterframeGap <= t

Started(d, p, dest) ==
    /\ aborted' = FALSE
    /\ m_txMachineState' = [m_txMachineState EXCEPT ![d] = "BUSY"]
    /\ m_currentPkt' = [m_currentPkt EXCEPT ![d] = p]
    /\ \A c \in completions' : m_txMachineState'[c.dev] = "BUSY"
    /\ \A b, c \in completions' : b.dev = c.dev => b = c
    /\ \A e \in arrivals' : e \in arrivals \/ (e.pkt = p /\ e.dev = dest)
    /\ TimeInv'

(* What TransmitStart keeps of the invariant: it starts an idle device. *)
LEMMA TransmitStartKeeps ==
    ASSUME NEW d, NEW p, NEW dest, NEW t, NEW pending,
           TypeOK, MachineInv, TimeInv, Starts(d, p, dest, t, pending)
    PROVE  Started(d, p, dest)
<1> USE DEF Starts
<1> DEFINE tx == TxTime(p.size, m_bps[d])
           done == [ts |-> t + TxCompleteTime(tx), uid |-> uid, dev |-> d]
<1>1. PICK delay \in Delay :
        /\ aborted' = (FALSE \/ "READY" # "READY" \/ dest \notin m_link)
        /\ m_txMachineState' = [m_txMachineState EXCEPT ![d] = "BUSY"]
        /\ m_currentPkt' = [m_currentPkt EXCEPT ![d] = p]
        /\ completions' = pending \cup {done}
        /\ arrivals' = arrivals \cup
               {[ts |-> t + tx + delay, uid |-> uid + 1, dev |-> dest, pkt |-> p,
                 start |-> t, tx |-> tx, delay |-> delay]}
  BY DEF TransmitStart
<1> DEFINE rx == [ts |-> t + tx + delay, uid |-> uid + 1, dev |-> dest, pkt |-> p,
                  start |-> t, tx |-> tx, delay |-> delay]
<1>2. tx \in Nat /\ delay \in Nat /\ InterframeGap \in Nat /\ now \in Nat
  BY TxTimeAssumption, DelayAssumption, GslBoundsAssumption DEF TypeOK, Packet
<1> HIDE DEF tx
<1>3. /\ done.dev = d /\ done.ts = t + (tx + InterframeGap)
      /\ rx.ts = t + tx + delay /\ rx.dev = dest /\ rx.pkt = p
      /\ rx.start = t /\ rx.tx = tx /\ rx.delay = delay
  BY DEF TxCompleteTime
<1> HIDE DEF done, rx
<1>4. /\ aborted' = FALSE
      /\ m_txMachineState' = [m_txMachineState EXCEPT ![d] = "BUSY"]
      /\ m_currentPkt' = [m_currentPkt EXCEPT ![d] = p]
      /\ completions' = pending \cup {done}
      /\ arrivals' = arrivals \cup {rx}
  BY <1>1 DEF rx
<1>5. \A e \in arrivals : /\ e.ts \in Nat /\ e.start \in Nat /\ e.tx \in Nat /\ e.delay \in Nat
                          /\ e.pkt \in Packet /\ e.pkt.from \in Device /\ e.pkt.id \in Nat
  BY ArrivalTypes
<1>6. \A c \in completions : c.ts \in Nat /\ c.dev \in Device
  BY DEF TypeOK, Completion
<1>7. p.id \in Nat
  BY DEF Packet
<1>8. \A c \in completions' : m_txMachineState'[c.dev] = "BUSY"
  BY <1>3, <1>4, <1>6 DEF MachineInv, TypeOK
<1>9. \A b, c \in completions' : b.dev = c.dev => b = c
  BY <1>3, <1>4 DEF MachineInv
<1>10. \A e \in arrivals' : e \in arrivals \/ (e.pkt = p /\ e.dev = dest)
  BY <1>3, <1>4
<1>11. TimeInv'
  <2>1. \A e \in arrivals' : e.ts = e.start + e.tx + e.delay
    BY <1>3, <1>4 DEF TimeInv
  <2>2. \A e \in arrivals', c \in completions' :
           e.pkt.from = c.dev => e.start + e.tx + InterframeGap <= c.ts
    <3>1. \A e \in arrivals, c \in pending :
             e.pkt.from = c.dev => e.start + e.tx + InterframeGap <= c.ts
      BY DEF TimeInv
    <3>2. \A e \in arrivals :
             e.pkt.from = done.dev => e.start + e.tx + InterframeGap <= done.ts
      BY <1>2, <1>3, <1>5
    <3>3. \A c \in pending : rx.pkt.from # c.dev
      BY <1>3
    <3>4. rx.start + rx.tx + InterframeGap <= done.ts
      BY <1>2, <1>3
    <3>5. QED BY <1>4, <3>1, <3>2, <3>3, <3>4
  <2>3. \A e \in arrivals' :
           m_txMachineState'[e.pkt.from] = "READY"
               => e.start + e.tx + InterframeGap <= now'
    <3>1. m_txMachineState'[rx.pkt.from] = "BUSY"
      BY <1>3, <1>4 DEF TypeOK
    <3>2. \A e \in arrivals : m_txMachineState'[e.pkt.from] = "READY"
               => e.start + e.tx + InterframeGap <= now'
      BY <1>2, <1>4, <1>5 DEF TimeInv, TypeOK
    <3>3. QED BY <1>4, <3>1, <3>2
  <2>4. \A e, f \in arrivals' :
           e.pkt.from = f.pkt.from /\ e.pkt.id < f.pkt.id
               => e.start + e.tx + InterframeGap <= f.start
    <3>1. \A f \in arrivals : f.pkt.from = rx.pkt.from => ~(rx.pkt.id < f.pkt.id)
      BY <1>3, <1>5, <1>7
    <3>2. \A e \in arrivals : e.pkt.from = rx.pkt.from
               => e.start + e.tx + InterframeGap <= rx.start
      BY <1>3
    <3>3. ~(rx.pkt.id < rx.pkt.id)
      BY <1>3, <1>7
    <3>4. QED BY <1>4, <3>1, <3>2, <3>3 DEF TimeInv
  <2>5. \A e \in Events' : now' <= e.ts
    <3>1. now' <= done.ts /\ now' <= rx.ts
      BY <1>2, <1>3
    <3>2. QED BY <1>4, <3>1 DEF Events
  <2>6. QED BY <2>1, <2>2, <2>3, <2>4, <2>5 DEF TimeInv
<1>12. QED BY <1>4, <1>8, <1>9, <1>10, <1>11 DEF Started
(* Every step of the devices and the channel keeps the invariant. *)
THEOREM InvariantPreserved == IInv /\ [Next]_vars => IInv'
<1> SUFFICES ASSUME IInv, [Next]_vars PROVE IInv'
  OBVIOUS
<1> USE DEF NeverAborts
<1>1. TypeOK /\ MachineInv /\ QueuesInv /\ RightReceiver /\ OrderInv /\ TimeInv /\ ~aborted
  BY DEF IInv
<1>2. TypeOK'
  BY <1>1, TypePreserved
<1>3. ASSUME NEW d \in Device, Attach(d) PROVE IInv'
  <2>1. /\ m_link \subseteq m_link' /\ aborted' = FALSE
        /\ UNCHANGED <<now, completions, arrivals, m_txMachineState, m_currentPkt, m_queue,
                       m_queueDests, sent, received>>
    BY <1>1, <1>3 DEF Attach, eventVars, historyVars
  <2>2. MachineInv' /\ QueuesInv'
    BY <1>1, <2>1 DEF MachineInv, QueuesInv
  <2>3. RightReceiver' /\ OrderInv' /\ TimeInv'
    BY <1>1, <2>1 DEF RightReceiver, OrderInv, TimeInv, Events
  <2>4. QED BY <1>2, <2>1, <2>2, <2>3 DEF IInv
<1>4. ASSUME NEW d \in Sender, NEW r \in Rate, NEW t \in 0..MaxCallTime, SetDataRate(d, r, t)
      PROVE  IInv'
  <2>1. /\ now <= now' /\ now' \in Nat /\ aborted' = FALSE
        /\ \A e \in Events : now' <= e.ts
        /\ UNCHANGED <<completions, arrivals, m_link, m_txMachineState, m_currentPkt, m_queue,
                       m_queueDests, sent, received>>
    BY <1>1, <1>2, <1>4 DEF SetDataRate, historyVars, CallableAt, TypeOK
  <2>2. MachineInv' /\ QueuesInv' /\ RightReceiver' /\ OrderInv'
    BY <1>1, <2>1 DEF MachineInv, QueuesInv, RightReceiver, OrderInv
  <2>3. TimeInv'
    BY <1>1, <2>1, ArrivalTypes, GslBoundsAssumption DEF TimeInv, TypeOK, Events
  <2>4. QED BY <1>2, <2>1, <2>2, <2>3 DEF IInv
<1>5. ASSUME NEW d \in Sender, NEW s \in Size, NEW dest \in Device, NEW t \in 0..MaxCallTime,
             Send(d, s, dest, t)
      PROVE  IInv'
  <2> DEFINE p == [id |-> sent, from |-> d, to |-> dest, size |-> s]
  <2>1. /\ sent < MaxPackets /\ dest \in m_link /\ now <= t /\ now' = t /\ sent' = sent + 1
        /\ \A e \in Events : t <= e.ts
        /\ m_link' = m_link /\ received' = received
        /\ SendDrop(d, p) \/ SendEnqueue(d, p, dest) \/ SendNow(d, p, dest, t)
    BY <1>5 DEF Send, CallableAt
  <2>2. d \in Device /\ t \in Nat /\ now \in Nat /\ sent \in Nat
    BY <1>1, GslBoundsAssumption DEF TypeOK
  <2>3. p \in Packet /\ p.id = sent /\ p.from = d /\ p.to = dest
    BY <2>1, <2>2, GslBoundsAssumption DEF Packet
  <2> HIDE DEF p
  <2>4. ASSUME NEW x \in Device, NEW i \in 1..Len(m_queue[x])
        PROVE  m_queue[x] \in Seq(Packet) /\ m_queue[x][i] \in Packet /\ m_queue[x][i].id \in Nat
    <3>1. m_queue[x] \in Seq(Packet)
      BY <1>1 DEF TypeOK
    <3>2. m_queue[x][i] \in Packet
      BY <3>1
    <3>3. QED BY <3>1, <3>2, GslBoundsAssumption DEF Packet
  <2>5. CASE SendDrop(d, p)
    <3>1. aborted' = FALSE /\
          UNCHANGED <<completions, arrivals, m_txMachineState, m_currentPkt, m_queue, m_queueDests>>
      BY <1>1, <2>5 DEF SendDrop, deviceVars
    <3>2. MachineInv' /\ QueuesInv' /\ RightReceiver'
      BY <1>1, <2>1, <3>1 DEF MachineInv, QueuesInv, RightReceiver
    <3>3. OrderInv'
      BY <1>1, <2>1, <2>2, <2>4, <3>1, ArrivalTypes DEF OrderInv
    <3>4. TimeInv'
      BY <1>1, <2>1, <2>2, <3>1, ArrivalTypes, GslBoundsAssumption DEF TimeInv, Events
    <3>5. QED BY <1>2, <3>1, <3>2, <3>3, <3>4 DEF IInv
  <2>6. CASE SendEnqueue(d, p, dest)
    <3>1. /\ m_txMachineState[d] # "READY" /\ aborted' = FALSE
          /\ m_queue' = [m_queue EXCEPT ![d] = Append(@, p)]
          /\ m_queueDests' = [m_queueDests EXCEPT ![d] = Append(@, dest)]
          /\ UNCHANGED <<completions, arrivals, m_txMachineState, m_currentPkt>>
      BY <1>1, <2>6 DEF SendEnqueue
    <3>2. MachineInv'
      BY <1>1, <2>2, <3>1 DEF MachineInv, TypeOK
    <3>3. RightReceiver'
      BY <1>1, <2>1, <3>1 DEF RightReceiver
    <3>4. /\ m_queue'[d] = Append(m_queue[d], p) /\ m_queueDests'[d] = Append(m_queueDests[d], dest)
          /\ m_queue[d] \in Seq(Packet) /\ m_queueDests[d] \in Seq(Device)
          /\ \A x \in Device \ {d} : m_queue'[x] = m_queue[x] /\ m_queueDests'[x] = m_queueDests[x]
      BY <1>1, <2>2, <3>1 DEF TypeOK
    <3>5. /\ Len(m_queue'[d]) = Len(m_queue[d]) + 1 /\ Len(m_queue[d]) \in Nat
          /\ m_queue'[d][Len(m_queue[d]) + 1] = p
          /\ \A i \in 1..Len(m_queue[d]) : m_queue'[d][i] = m_queue[d][i]
      BY <2>3, <3>4
    <3>6. /\ Len(m_queueDests'[d]) = Len(m_queueDests[d]) + 1
          /\ m_queueDests'[d][Len(m_queueDests[d]) + 1] = dest
          /\ \A i \in 1..Len(m_queueDests[d]) : m_queueDests'[d][i] = m_queueDests[d][i]
      BY <3>4
    <3>7. QueuesInv'
      <4>1. ASSUME NEW x \in Device, x # d
            PROVE  /\ Len(m_queueDests'[x]) = Len(m_queue'[x])
                   /\ \A i \in 1..Len(m_queue'[x]) :
                          /\ m_queueDests'[x][i] = m_queue'[x][i].to
                          /\ m_queue'[x][i].to \in m_link'
                          /\ m_queue'[x][i].from = x
        BY <1>1, <2>1, <3>4, <4>1 DEF QueuesInv
      <4>2. Len(m_queueDests[d]) = Len(m_queue[d])
        BY <1>1, <2>2 DEF QueuesInv
      <4>3. ASSUME NEW i \in 1..Len(m_queue'[d])
            PROVE  /\ m_queueDests'[d][i] = m_queue'[d][i].to
                   /\ m_queue'[d][i].to \in m_link'
                   /\ m_queue'[d][i].from = d
        <5>1. CASE i = Len(m_queue[d]) + 1
          BY <2>1, <2>3, <3>5, <3>6, <4>2, <5>1
        <5>2. CASE i \in 1..Len(m_queue[d])
          <6>1. /\ m_queue'[d][i] = m_queue[d][i]
                /\ m_queueDests'[d][i] = m_queueDests[d][i]
            BY ONLY <3>5, <3>6, <4>2, <5>2
          <6>2. /\ m_queueDests[d][i] = m_queue[d][i].to
                /\ m_queue[d][i].to \in m_link
                /\ m_queue[d][i].from = d
            BY <1>1, <2>2, <5>2 DEF QueuesInv
          <6>3. m_link' = m_link
            BY <2>1
          <6>4. QED BY ONLY <6>1, <6>2, <6>3
        <5>3. QED BY ONLY <3>5, <5>1, <5>2, i \in 1..Len(m_queue'[d])
      <4>4. QED BY <3>5, <3>6, <4>1, <4>2, <4>3 DEF QueuesInv
    <3>8. OrderInv'
      <4>1. \A e \in arrivals' : e.pkt.id < sent'
        BY <1>1, <2>1, <2>2, <3>1, ArrivalTypes DEF OrderInv
      <4>2. ASSUME NEW x \in Device, x # d, NEW i \in 1..Len(m_queue'[x])
            PROVE  /\ m_queue'[x][i].id < sent'
                   /\ \A j \in 1..Len(m_queue'[x]) :
                          i < j => m_queue'[x][i].id < m_queue'[x][j].id
                   /\ \A e \in arrivals' : e.pkt.from = x => e.pkt.id < m_queue'[x][i].id
        <5>1. m_queue'[x] = m_queue[x] /\ i \in 1..Len(m_queue[x])
          BY <3>4, <4>2
        <5>2. m_queue[x][i].id < sent'
          BY <1>1, <2>1, <2>2, <2>4, <5>1 DEF OrderInv
        <5>3. QED BY <1>1, <3>1, <5>1, <5>2 DEF OrderInv
      <4>3. ASSUME NEW i \in 1..Len(m_queue'[d])
            PROVE  /\ m_queue'[d][i].id < sent'
                   /\ \A j \in 1..Len(m_queue'[d]) :
                          i < j => m_queue'[d][i].id < m_queue'[d][j].id
                   /\ \A e \in arrivals' : e.pkt.from = d => e.pkt.id < m_queue'[d][i].id
        <5>1. CASE i = Len(m_queue[d]) + 1
          BY <1>1, <2>1, <2>2, <2>3, <3>1, <3>5, <5>1 DEF OrderInv
        <5>2. CASE i \in 1..Len(m_queue[d])
          <6>1. m_queue'[d][i] = m_queue[d][i] /\ m_queue[d][i].id \in Nat /\ m_queue[d][i].id < sent
            BY <1>1, <2>2, <2>4, <3>5, <5>2 DEF OrderInv
          <6>2. \A j \in 1..Len(m_queue'[d]) : i < j => m_queue'[d][i].id < m_queue'[d][j].id
            <7> TAKE j \in 1..Len(m_queue'[d])
            <7>1. CASE j = Len(m_queue[d]) + 1
              BY <2>3, <3>5, <6>1, <7>1
            <7>2. CASE j \in 1..Len(m_queue[d])
              BY <1>1, <2>2, <3>5, <5>2, <7>2 DEF OrderInv
            <7>3. QED BY <3>5, <7>1, <7>2
          <6>3. QED BY <1>1, <2>1, <2>2, <3>1, <5>2, <6>1, <6>2 DEF OrderInv
        <5>3. QED BY <3>5, <5>1, <5>2
      <4>4. QED BY <4>1, <4>2, <4>3 DEF OrderInv
    <3>9. TimeInv'
      BY <1>1, <2>1, <2>2, <3>1, ArrivalTypes, GslBoundsAssumption DEF TimeInv, Events
    <3>10. QED BY <1>2, <3>1, <3>2, <3>3, <3>7, <3>8, <3>9 DEF IInv
  <2>7. CASE SendNow(d, p, dest, t)
    <3>1. /\ m_txMachineState[d] = "READY"
          /\ m_queue' = [m_queue EXCEPT ![d] = Tail(Append(m_queue[d], p))]
          /\ m_queueDests' = [m_queueDests EXCEPT ![d] = Tail(Append(m_queueDests[d], dest))]
          /\ TransmitStart(d, Head(Append(m_queue[d], p)), Head(Append(m_queueDests[d], dest)),
                           t, m_txMachineState[d], completions, FALSE)
      BY <2>7 DEF SendNow
    <3>2. m_queue[d] = <<>> /\ m_queueDests[d] = <<>>
      BY <1>1, <2>2, <3>1 DEF MachineInv, QueuesInv, TypeOK
    <3>3. /\ Head(Append(m_queue[d], p)) = p /\ Tail(Append(m_queue[d], p)) = <<>>
          /\ Head(Append(m_queueDests[d], dest)) = dest
          /\ Tail(Append(m_queueDests[d], dest)) = <<>>
      BY <3>2
    <3>4. m_queue' = m_queue /\ m_queueDests' = m_queueDests
      BY <1>1, <2>2, <3>1, <3>2, <3>3 DEF TypeOK
    <3>5. TransmitStart(d, p, dest, t, "READY", completions, FALSE)
      BY <3>1, <3>3
    <3>6. \A c \in completions : c.dev # d
      BY <1>1, <3>1 DEF MachineInv
    <3>7. \A e \in arrivals : e.pkt.from = d =>
             e.pkt.id < p.id /\ e.start + e.tx + InterframeGap <= t
      BY <1>1, <2>1, <2>2, <2>3, <3>1, ArrivalTypes, GslBoundsAssumption DEF OrderInv, TimeInv
    <3>8. completions \subseteq completions
      OBVIOUS
    <3>9. /\ aborted' = FALSE
          /\ m_txMachineState' = [m_txMachineState EXCEPT ![d] = "BUSY"]
          /\ m_currentPkt' = [m_currentPkt EXCEPT ![d] = p]
          /\ \A c \in completions' : m_txMachineState'[c.dev] = "BUSY"
          /\ \A b, c \in completions' : b.dev = c.dev => b = c
          /\ \A e \in arrivals' : e \in arrivals \/ (e.pkt = p /\ e.dev = dest)
          /\ TimeInv'
      <4>1. dest \in m_link /\ now <= t /\ now' = t /\ \A e \in Events : t <= e.ts
        BY <2>1
      <4>2. TypeOK /\ MachineInv /\ TimeInv /\ d \in Device /\ t \in Nat /\ p \in Packet
            /\ p.from = d
        BY <1>1, <2>2, <2>3
      <4>3. Starts(d, p, dest, t, completions)
        BY ONLY <3>5, <3>6, <3>7, <3>8, <4>1, <4>2 DEF Starts
      <4>4. Started(d, p, dest)
        BY ONLY <4>2, <4>3, TransmitStartKeeps, Zenon
      <4>5. QED BY ONLY <4>4 DEF Started
    <3>10. MachineInv'
      BY <1>1, <2>2, <2>3, <3>4, <3>9, NoPacketAssumption DEF MachineInv, TypeOK
    <3>11. QueuesInv' /\ RightReceiver'
      BY <1>1, <2>1, <2>3, <3>4, <3>9 DEF QueuesInv, RightReceiver
    <3>12. OrderInv'
      <4>1. \A e \in arrivals' : e.pkt.id < sent'
        BY <1>1, <2>1, <2>2, <2>3, <3>9, ArrivalTypes DEF OrderInv
      <4>2. ASSUME NEW x \in Device, NEW i \in 1..Len(m_queue[x])
            PROVE  /\ m_queue[x][i].id < sent'
                   /\ \A j \in 1..Len(m_queue[x]) :
                          i < j => m_queue[x][i].id < m_queue[x][j].id
                   /\ \A e \in arrivals' : e.pkt.from = x => e.pkt.id < m_queue[x][i].id
        <5>1. x # d
          BY <3>2
        <5>2. m_queue[x][i].id < sent'
          BY <1>1, <2>1, <2>2, <2>4 DEF OrderInv
        <5>3. \A e \in arrivals' : e.pkt.from = x => e.pkt.id < m_queue[x][i].id
          BY <1>1, <2>3, <3>9, <5>1 DEF OrderInv
        <5>4. QED BY <1>1, <5>2, <5>3 DEF OrderInv
      <4>3. QED BY <3>4, <4>1, <4>2 DEF OrderInv
    <3>13. QED BY <1>2, <3>9, <3>10, <3>11, <3>12 DEF IInv
  <2>8. QED BY <2>1, <2>5, <2>6, <2>7
<1>6. ASSUME NEW e \in completions, TransmitComplete(e) PROVE IInv'
  <2> DEFINE d == e.dev
  <2>1. /\ now' = e.ts /\ UNCHANGED <<m_link, sent, received>>
        /\ TransmitCompleteIdle(e) \/ TransmitCompleteNext(e)
    BY <1>6 DEF TransmitComplete, historyVars
  <2>2. /\ d \in Device /\ e.ts \in Nat /\ now \in Nat /\ sent \in Nat
        /\ m_queue[d] \in Seq(Packet) /\ m_queueDests[d] \in Seq(Device)
    BY <1>1, GslBoundsAssumption DEF TypeOK, Completion
  <2>3. m_txMachineState[d] = "BUSY" /\ m_currentPkt[d] # NoPacket /\ ~CompletionFails(d)
    BY <1>1, <2>2 DEF MachineInv, CompletionFails
  <2>4. \A c \in completions \ {e} : c.dev # d
    BY <1>1 DEF MachineInv
  <2>5. \A a \in arrivals : a.pkt.from = d => a.start + a.tx + InterframeGap <= e.ts
    BY <1>1 DEF TimeInv
  <2>6. now <= e.ts /\ \A f \in Events : f.ts \in Nat /\ e.ts <= f.ts
    <3>1. \A f \in Events : f.ts \in Nat
      BY <1>1, ArrivalTypes DEF TypeOK, Completion, Events
    <3>2. IsNextEvent(e)
      BY <1>6 DEF TransmitComplete
    <3>3. QED BY <1>1, <2>2, <3>1, <3>2 DEF IsNextEvent, TimeInv, Events
  <2>7. CASE TransmitCompleteIdle(e)
    <3>1. /\ m_queue[d] = <<>> /\ aborted' = FALSE
          /\ m_txMachineState' = [m_txMachineState EXCEPT ![d] = "READY"]
          /\ m_currentPkt' = [m_currentPkt EXCEPT ![d] = NoPacket]
          /\ completions' = completions \ {e}
          /\ UNCHANGED <<arrivals, m_queue, m_queueDests>>
      BY <2>3, <2>7 DEF TransmitCompleteIdle
    <3>2. \A c \in completions : c.dev \in Device
      BY <1>1 DEF TypeOK, Completion
    <3>3. MachineInv'
      BY <1>1, <2>2, <2>4, <3>1, <3>2 DEF MachineInv, TypeOK
    <3>4. QueuesInv' /\ RightReceiver' /\ OrderInv'
      BY <1>1, <2>1, <3>1 DEF QueuesInv, RightReceiver, OrderInv
    <3>5. TimeInv'
      <4>1. \A a \in arrivals' : m_txMachineState'[a.pkt.from] = "READY"
                => a.start + a.tx + InterframeGap <= now'
        BY <1>1, <2>1, <2>2, <2>5, <2>6, <3>1, ArrivalTypes, GslBoundsAssumption
           DEF TimeInv, TypeOK
      <4>2. \A f \in Events' : now' <= f.ts
        BY <2>1, <2>6, <3>1 DEF Events
      <4>3. QED BY <1>1, <3>1, <4>1, <4>2 DEF TimeInv
    <3>6. QED BY <1>2, <3>1, <3>3, <3>4, <3>5 DEF IInv
  <2>8. CASE TransmitCompleteNext(e)
    <3> DEFINE p == Head(m_queue[d])
               dest == Head(m_queueDests[d])
    <3>1. /\ m_queue[d] # <<>>
          /\ m_queue' = [m_queue EXCEPT ![d] = Tail(@)]
          /\ m_queueDests' = [m_queueDests EXCEPT ![d] = Tail(@)]
          /\ TransmitStart(d, p, dest, e.ts, "READY", completions \ {e}, CompletionFails(d))
      BY <2>8 DEF TransmitCompleteNext
    <3>2. TransmitStart(d, p, dest, e.ts, "READY", completions \ {e}, FALSE)
      BY <2>3, <3>1 DEF TransmitStart
    <3>3. /\ 1 \in 1..Len(m_queue[d]) /\ p = m_queue[d][1]
          /\ Len(m_queueDests[d]) = Len(m_queue[d]) /\ dest = m_queueDests[d][1]
      BY <1>1, <2>2, <3>1 DEF QueuesInv
    <3>4. /\ p \in Packet /\ p.id \in Nat /\ p.id < sent /\ p.from = d /\ p.to = dest
          /\ dest \in m_link
      <4>1. p \in Packet
        BY <2>2, <3>3
      <4>2. p.id \in Nat
        BY <4>1, GslBoundsAssumption DEF Packet
      <4>3. p.id < sent /\ p.from = d /\ p.to = dest /\ p.to \in m_link
        BY <1>1, <2>2, <3>3 DEF QueuesInv, OrderInv
      <4>4. QED BY <4>1, <4>2, <4>3
    <3>5. \A a \in arrivals : a.pkt.from = d =>
             a.pkt.id < p.id /\ a.start + a.tx + InterframeGap <= e.ts
      BY <1>1, <2>2, <2>5, <3>3 DEF OrderInv
    <3>6. completions \ {e} \subseteq completions
      OBVIOUS
    <3> HIDE DEF p, dest
    <3>7. /\ aborted' = FALSE
          /\ m_txMachineState' = [m_txMachineState EXCEPT ![d] = "BUSY"]
          /\ m_currentPkt' = [m_currentPkt EXCEPT ![d] = p]
          /\ \A c \in completions' : m_txMachineState'[c.dev] = "BUSY"
          /\ \A b, c \in completions' : b.dev = c.dev => b = c
          /\ \A a \in arrivals' : a \in arrivals \/ (a.pkt = p /\ a.dev = dest)
          /\ TimeInv'
      <4>1. /\ dest \in m_link /\ now <= e.ts /\ now' = e.ts
            /\ \A f \in Events : e.ts <= f.ts
        BY <2>1, <2>6, <3>4
      <4>2. /\ TypeOK /\ MachineInv /\ TimeInv /\ d \in Device /\ e.ts \in Nat
            /\ p \in Packet /\ p.from = d
        BY <1>1, <2>2, <3>4
      <4>3. Starts(d, p, dest, e.ts, completions \ {e})
        BY ONLY <2>4, <3>2, <3>5, <3>6, <4>1, <4>2 DEF Starts
      <4>4. Started(d, p, dest)
        BY ONLY <4>2, <4>3, TransmitStartKeeps, Zenon
      <4>5. QED BY ONLY <4>4 DEF Started
    <3>8. /\ m_queue'[d] = Tail(m_queue[d]) /\ m_queueDests'[d] = Tail(m_queueDests[d])
          /\ \A x \in Device \ {d} : m_queue'[x] = m_queue[x] /\ m_queueDests'[x] = m_queueDests[x]
      BY <1>1, <2>2, <3>1 DEF TypeOK
    <3>9. /\ Len(m_queue'[d]) = Len(m_queue[d]) - 1 /\ Len(m_queue[d]) \in Nat
          /\ \A i \in 1..Len(m_queue'[d]) : /\ i + 1 \in 1..Len(m_queue[d])
                                           /\ m_queue'[d][i] = m_queue[d][i + 1]
      <4>1. /\ Len(m_queue[d]) \in Nat /\ Len(Tail(m_queue[d])) = Len(m_queue[d]) - 1
            /\ \A i \in 1..Len(Tail(m_queue[d])) :
                   /\ i + 1 \in 1..Len(m_queue[d])
                   /\ Tail(m_queue[d])[i] = m_queue[d][i + 1]
        BY <2>2, <3>1, TailFacts
      <4>2. QED BY <3>8, <4>1
    <3>10. /\ Len(m_queueDests'[d]) = Len(m_queue[d]) - 1
           /\ \A i \in 1..Len(m_queue'[d]) : m_queueDests'[d][i] = m_queueDests[d][i + 1]
      <4>1. m_queueDests[d] # <<>>
        BY <2>2, <3>1, <3>3
      <4>2. /\ Len(Tail(m_queueDests[d])) = Len(m_queueDests[d]) - 1
            /\ \A i \in 1..Len(Tail(m_queueDests[d])) :
                   Tail(m_queueDests[d])[i] = m_queueDests[d][i + 1]
        BY <2>2, <4>1, TailFacts
      <4>3. QED BY <3>3, <3>8, <3>9, <4>2
    <3>11. MachineInv'
      BY <1>1, <2>2, <3>4, <3>7, <3>8, NoPacketAssumption DEF MachineInv, TypeOK
    <3>12. RightReceiver'
      BY <1>1, <2>1, <3>4, <3>7 DEF RightReceiver
    <3>13. QueuesInv'
      <4>1. ASSUME NEW x \in Device, x # d
            PROVE  /\ Len(m_queueDests'[x]) = Len(m_queue'[x])
                   /\ \A i \in 1..Len(m_queue'[x]) :
                          /\ m_queueDests'[x][i] = m_queue'[x][i].to
                          /\ m_queue'[x][i].to \in m_link'
                          /\ m_queue'[x][i].from = x
        BY <1>1, <2>1, <3>8, <4>1 DEF QueuesInv
      <4>2. ASSUME NEW i \in 1..Len(m_queue'[d])
            PROVE  /\ m_queueDests'[d][i] = m_queue'[d][i].to
                   /\ m_queue'[d][i].to \in m_link'
                   /\ m_queue'[d][i].from = d
        <5>1. /\ i + 1 \in 1..Len(m_queue[d])
              /\ m_queue'[d][i] = m_queue[d][i + 1]
              /\ m_queueDests'[d][i] = m_queueDests[d][i + 1]
          BY ONLY <3>9, <3>10, i \in 1..Len(m_queue'[d])
        <5>2. /\ m_queueDests[d][i + 1] = m_queue[d][i + 1].to
              /\ m_queue[d][i + 1].to \in m_link
              /\ m_queue[d][i + 1].from = d
          BY <1>1, <2>2, <5>1 DEF QueuesInv
        <5>3. m_link' = m_link
          BY <2>1
        <5>4. QED BY ONLY <5>1, <5>2, <5>3
      <4>3. QED BY <3>9, <3>10, <4>1, <4>2 DEF QueuesInv
    <3>14. OrderInv'
      <4>1. \A a \in arrivals' : a.pkt.id < sent'
        BY <1>1, <2>1, <3>4, <3>7 DEF OrderInv
      <4>2. ASSUME NEW x \in Device, x # d, NEW i \in 1..Len(m_queue'[x])
            PROVE  /\ m_queue'[x][i].id < sent'
                   /\ \A j \in 1..Len(m_queue'[x]) :
                          i < j => m_queue'[x][i].id < m_queue'[x][j].id
                   /\ \A a \in arrivals' : a.pkt.from = x => a.pkt.id < m_queue'[x][i].id
        BY <1>1, <2>1, <3>4, <3>7, <3>8, <4>2 DEF OrderInv
      <4>3. ASSUME NEW i \in 1..Len(m_queue'[d])
            PROVE  /\ m_queue'[d][i].id < sent'
                   /\ \A j \in 1..Len(m_queue'[d]) :
                          i < j => m_queue'[d][i].id < m_queue'[d][j].id
                   /\ \A a \in arrivals' : a.pkt.from = d => a.pkt.id < m_queue'[d][i].id
        <5>1. m_queue'[d][i].id < sent'
          BY <1>1, <2>1, <2>2, <3>9 DEF OrderInv
        <5>2. \A j \in 1..Len(m_queue'[d]) : i < j => m_queue'[d][i].id < m_queue'[d][j].id
          <6> TAKE j \in 1..Len(m_queue'[d])
          <6>1. /\ i + 1 \in 1..Len(m_queue[d])
                /\ m_queue'[d][i] = m_queue[d][i + 1]
            BY ONLY <3>9, i \in 1..Len(m_queue'[d])
          <6>2. /\ j + 1 \in 1..Len(m_queue[d])
                /\ m_queue'[d][j] = m_queue[d][j + 1]
            BY ONLY <3>9, j \in 1..Len(m_queue'[d])
          <6>3. i < j => i + 1 < j + 1
            BY ONLY <3>9, i \in 1..Len(m_queue'[d]), j \in 1..Len(m_queue'[d])
          <6>4. i + 1 < j + 1 => m_queue[d][i + 1].id < m_queue[d][j + 1].id
            BY <1>1, <2>2, <6>1, <6>2 DEF OrderInv
          <6>5. QED BY ONLY <6>1, <6>2, <6>3, <6>4
        <5>3. p.id < m_queue'[d][i].id
          BY <1>1, <2>2, <3>3, <3>9 DEF OrderInv
        <5>4. \A a \in arrivals : a.pkt.from = d => a.pkt.id < m_queue'[d][i].id
          BY <1>1, <2>2, <3>9 DEF OrderInv
        <5>5. QED BY <3>7, <5>1, <5>2, <5>3, <5>4
      <4>4. QED BY <4>1, <4>2, <4>3 DEF OrderInv
    <3>15. QED BY <1>2, <3>7, <3>11, <3>12, <3>13, <3>14 DEF IInv
  <2>9. QED BY <2>1, <2>7, <2>8
<1>7. ASSUME NEW e \in arrivals, Receive(e) PROVE IInv'
  <2>1. /\ now' = e.ts /\ arrivals' = arrivals \ {e}
        /\ received' = received \cup {<<e.pkt, e.dev>>}
        /\ aborted' = FALSE /\ IsNextEvent(e)
        /\ UNCHANGED <<completions, m_link, m_txMachineState, m_currentPkt, m_queue,
                       m_queueDests, sent>>
    BY <1>1, <1>7 DEF Receive, deviceVars
  <2>2. now \in Nat /\ e.ts \in Nat /\ now <= e.ts
    BY <1>1, ArrivalTypes DEF TypeOK, TimeInv, Events
  <2>3. \A f \in Events : f.ts \in Nat /\ e.ts <= f.ts
    <3>1. \A f \in Events : f.ts \in Nat
      BY <1>1, ArrivalTypes DEF TypeOK, Completion, Events
    <3>2. QED BY <2>1, <2>2, <3>1 DEF IsNextEvent
  <2>4. MachineInv' /\ QueuesInv' /\ OrderInv'
    BY <1>1, <2>1 DEF MachineInv, QueuesInv, OrderInv
  <2>5. RightReceiver'
    <3>1. e.dev = e.pkt.to
      BY <1>1 DEF RightReceiver
    <3>2. QED BY <1>1, <2>1, <3>1 DEF RightReceiver
  <2>6. TimeInv'
    <3>1. \A f \in Events' : now' <= f.ts
      BY <2>1, <2>3 DEF Events
    <3>2. \A a \in arrivals' : m_txMachineState'[a.pkt.from] = "READY"
              => a.start + a.tx + InterframeGap <= now'
      BY <1>1, <2>1, <2>2, ArrivalTypes, GslBoundsAssumption DEF TimeInv
    <3>3. QED BY <1>1, <2>1, <3>1, <3>2 DEF TimeInv
  <2>7. QED BY <1>2, <2>1, <2>4, <2>5, <2>6 DEF IInv
<1>8. CASE UNCHANGED vars
  <2>1. UNCHANGED <<now, completions, arrivals, m_link, m_txMachineState, m_currentPkt, m_queue,
                    m_queueDests, aborted, sent, received>>
    BY <1>8 DEF vars, eventVars, deviceVars, historyVars
  <2>2. QED BY <1>1, <1>2, <2>1
            DEF IInv, MachineInv, QueuesInv, RightReceiver, OrderInv, TimeInv, Events
<1>9. QED BY <1>3, <1>4, <1>5, <1>6, <1>7, <1>8 DEF Next, RunEvent
(* The invariant holds of idle devices with empty queues. *)
THEOREM InvariantInitially == Init => IInv
<1> SUFFICES ASSUME Init PROVE IInv
  OBVIOUS
<1>1. TypeOK
  <2>1. m_queue \in [Device -> Seq(Packet)] /\ m_queueDests \in [Device -> Seq(Device)]
    BY DEF Init
  <2>2. \A d \in Device : Len(m_queue[d]) <= MaxQueueSize
    BY GslBoundsAssumption DEF Init
  <2>3. /\ m_currentPkt \in [Device -> Packet \cup {NoPacket}]
        /\ m_txMachineState \in [Device -> {"READY", "BUSY"}]
        /\ m_bps \in [Device -> Rate] /\ m_linkUp \in [Device -> BOOLEAN]
    BY RateAssumption DEF Init
  <2>4. sent \in 0..MaxPackets
    BY GslBoundsAssumption DEF Init
  <2>5. QED BY <2>1, <2>2, <2>3, <2>4 DEF Init, TypeOK
<1>2. MachineInv /\ QueuesInv /\ RightReceiver /\ OrderInv /\ TimeInv /\ NeverAborts
  BY DEF Init, MachineInv, QueuesInv, RightReceiver, OrderInv, TimeInv, Events, NeverAborts
<1>3. QED BY <1>1, <1>2 DEF IInv

(* A packet can be overtaken only by a large fall of the delay. *)
LEMMA TimeOrdersArrivals == IInv => OvertakingNeedsShrinkingDelay
<1> SUFFICES ASSUME IInv,
                    NEW e \in arrivals, NEW f \in arrivals,
                    e.pkt.from = f.pkt.from, e.pkt.id < f.pkt.id, f.ts < e.ts
             PROVE  f.delay + f.tx + InterframeGap < e.delay
  BY DEF OvertakingNeedsShrinkingDelay
<1>1. TypeOK /\ TimeInv
  BY DEF IInv
<1>2. /\ e.ts = e.start + e.tx + e.delay /\ f.ts = f.start + f.tx + f.delay
      /\ e.start + e.tx + InterframeGap <= f.start
  BY <1>1 DEF TimeInv
<1>3. /\ e.start \in Nat /\ e.tx \in Nat /\ e.delay \in Nat
      /\ f.start \in Nat /\ f.tx \in Nat /\ f.delay \in Nat /\ InterframeGap \in Nat
  BY <1>1, ArrivalTypes, GslBoundsAssumption
<1>4. QED BY <1>2, <1>3

(***************************************************************************)
(* The variables keep their types and the queue its limit.                 *)
(***************************************************************************)
THEOREM GslTypeCorrect == Spec => []TypeOK
<1>1. IInv => TypeOK
  BY DEF IInv
<1>2. QED BY <1>1, InvariantInitially, InvariantPreserved, PTL DEF Spec

(***************************************************************************)
(* No assertion of GSLNetDevice or abort of GSLChannel can be reached.     *)
(***************************************************************************)
THEOREM GslNeverAborts == Spec => []NeverAborts
<1>1. IInv => NeverAborts
  BY DEF IInv
<1>2. QED BY <1>1, InvariantInitially, InvariantPreserved, PTL DEF Spec

(***************************************************************************)
(* Every packet reaches the device its sender named, and no other.         *)
(***************************************************************************)
THEOREM GslRightReceiver == Spec => []RightReceiver
<1>1. IInv => RightReceiver
  BY DEF IInv
<1>2. QED BY <1>1, InvariantInitially, InvariantPreserved, PTL DEF Spec

(***************************************************************************)
(* Reordering on the channel needs a delay that fell by more than the      *)
(* overtaking packet's transmission time and the interframe gap.           *)
(***************************************************************************)
THEOREM GslOvertaking == Spec => []OvertakingNeedsShrinkingDelay
<1>1. QED BY TimeOrdersArrivals, InvariantInitially, InvariantPreserved, PTL DEF Spec
-----------------------------------------------------------------------------
(***************************************************************************)
(* The refinement: every step of the devices is a step of FifoServer or    *)
(* leaves its variables alone.                                             *)
(***************************************************************************)
Jobs == [pkt : Packet, dest : Device]
Paired(q, dests) == [i \in 1..Len(q) |-> [pkt |-> q[i], dest |-> dests[i]]]

(* The variables of FifoServer. *)
Up == {d \in Device : m_linkUp[d]}
Serving == [d \in Device |-> IF m_currentPkt[d] = NoPacket THEN NoPacket
                             ELSE JobOf(m_currentPkt[d])]
Waiting == [d \in Device |-> Paired(m_queue[d], m_queueDests[d])]
Flying == {[pkt |-> e.pkt, dest |-> e.dev] : e \in arrivals}
Arrived == {[pkt |-> r[1], dest |-> r[2]] : r \in received}
Refused == {JobOf(p) : p \in dropped}
serverVars == <<Up, Serving, Waiting, Flying, Arrived, Refused>>

(* A packet is in flight once. *)
FlightInv == \A e, f \in arrivals : e.pkt = f.pkt => e = f

(* The front, the rest and the end of two queues side by side. *)
LEMMA ZipFacts ==
    ASSUME NEW q \in Seq(Packet), NEW r \in Seq(Device), Len(r) = Len(q)
    PROVE  /\ Paired(q, r) \in Seq(Jobs) /\ Len(Paired(q, r)) = Len(q)
           /\ Paired(q, r) = <<>> <=> q = <<>>
           /\ \A p \in Packet, d \in Device :
                  Paired(Append(q, p), Append(r, d)) = Append(Paired(q, r), [pkt |-> p, dest |-> d])
           /\ q # <<>> => /\ Head(Paired(q, r)) = [pkt |-> Head(q), dest |-> Head(r)]
                          /\ Tail(Paired(q, r)) = Paired(Tail(q), Tail(r))
<1> DEFINE z == Paired(q, r)
<1>1. PICK l \in Nat : l = Len(q) /\ l = Len(r) OBVIOUS
<1>2. \A i \in 1..l : q[i] \in Packet /\ r[i] \in Device BY <1>1
<1>3. z = [i \in 1..l |-> [pkt |-> q[i], dest |-> r[i]]] BY <1>1 DEF Paired
<1>4. \A i \in 1..l : [pkt |-> q[i], dest |-> r[i]] \in Jobs BY <1>2 DEF Jobs
<1>5. z \in Seq(Jobs) /\ Len(z) = l /\ \A i \in 1..l : z[i] = [pkt |-> q[i], dest |-> r[i]]
  BY <1>3, <1>4
<1>6. (z = <<>> <=> l = 0) /\ (q = <<>> <=> l = 0)
  <2> HIDE DEF z
  <2> QED BY <1>1, <1>5
<1>7. ASSUME NEW p \in Packet, NEW d \in Device
      PROVE  Paired(Append(q, p), Append(r, d)) = Append(z, [pkt |-> p, dest |-> d])
  <2> DEFINE j == [pkt |-> p, dest |-> d]
             qp == Append(q, p)
             rd == Append(r, d)
             zj == Append(z, j)
  <2>1. /\ Len(qp) = l + 1 /\ (\A i \in 1..l : qp[i] = q[i]) /\ qp[l + 1] = p
        /\ (\A i \in 1..l : rd[i] = r[i]) /\ rd[l + 1] = d
    BY <1>1
  <2>2. j \in Jobs BY DEF Jobs
  <2>3. /\ zj \in Seq(Jobs) /\ Len(zj) = l + 1 /\ (\A i \in 1..l : zj[i] = z[i])
        /\ zj[l + 1] = j
    <3> HIDE DEF z, j
    <3> QED BY <1>5, <2>2
  <2>4. Paired(qp, rd) = [i \in 1..(l + 1) |-> [pkt |-> qp[i], dest |-> rd[i]]] BY <2>1 DEF Paired
  <2>5. \A i \in 1..(l + 1) : i \in 1..l \/ i = l + 1 OBVIOUS
  <2>6. ASSUME NEW i \in 1..(l + 1) PROVE zj[i] = [pkt |-> qp[i], dest |-> rd[i]]
    <3>1. CASE i \in 1..l
      <4>1. zj[i] = [pkt |-> q[i], dest |-> r[i]] BY <1>5, <2>3, <3>1
      <4>2. qp[i] = q[i] /\ rd[i] = r[i] BY <2>1, <3>1
      <4> HIDE DEF zj, qp, rd
      <4> QED BY <4>1, <4>2
    <3>2. CASE i = l + 1
      <4>1. zj[i] = j /\ qp[i] = p /\ rd[i] = d BY <2>1, <2>3, <3>2
      <4> HIDE DEF zj, qp, rd
      <4> QED BY <4>1
    <3> QED BY <2>5, <3>1, <3>2
  <2>7. zj = [i \in 1..(l + 1) |-> zj[i]]
    <3> HIDE DEF zj
    <3> QED BY <2>3
  <2> HIDE DEF zj, qp, rd
  <2>8. zj = Paired(qp, rd) BY <2>4, <2>6, <2>7
  <2> QED BY <2>8 DEF zj, qp, rd
<1>8. ASSUME q # <<>>
      PROVE  /\ Head(z) = [pkt |-> Head(q), dest |-> Head(r)]
             /\ Tail(z) = Paired(Tail(q), Tail(r))
  <2>1. 0 < l BY <1>1, <1>6, <1>8
  <2>2. Head(q) = q[1] /\ Head(r) = r[1] /\ Head(z) = z[1]
    <3>1. r # <<>> BY <1>1, <2>1
    <3>2. z # <<>> BY <1>6, <2>1
    <3> QED BY <1>5, <1>8, <3>1, <3>2
  <2>3. Head(z) = [pkt |-> Head(q), dest |-> Head(r)] BY <1>5, <2>1, <2>2
  <2>4. PICK k \in Nat : l = k + 1
    <3>1. l - 1 \in Nat /\ l = (l - 1) + 1 BY <2>1
    <3> QED BY <3>1
  <2>5. /\ Len(Tail(q)) = k /\ \A i \in 1..k : Tail(q)[i] = q[i + 1] /\ i + 1 \in 1..l
    <3>1. Len(Tail(q)) = Len(q) - 1 /\ \A i \in 1..Len(Tail(q)) : Tail(q)[i] = q[i + 1]
      BY <1>8, TailFacts
    <3>2. Len(Tail(q)) = k BY <1>1, <2>4, <3>1
    <3>3. \A i \in 1..k : i + 1 \in 1..l BY <2>4
    <3> QED BY <3>1, <3>2, <3>3
  <2>6. \A i \in 1..k : Tail(r)[i] = r[i + 1] BY <1>1, <2>1, <2>4
  <2>7. Tail(z) \in Seq(Jobs) /\ Len(Tail(z)) = k /\ \A i \in 1..k : Tail(z)[i] = z[i + 1]
    <3>1. z # <<>> BY <1>6, <2>1
    <3> HIDE DEF z
    <3> QED BY <1>5, <2>4, <3>1
  <2>8. Paired(Tail(q), Tail(r)) = [i \in 1..k |-> [pkt |-> Tail(q)[i], dest |-> Tail(r)[i]]]
    BY <2>5 DEF Paired
  <2>9. \A i \in 1..k : Tail(z)[i] = [pkt |-> Tail(q)[i], dest |-> Tail(r)[i]]
    <3> SUFFICES ASSUME NEW i \in 1..k
                 PROVE  Tail(z)[i] = [pkt |-> Tail(q)[i], dest |-> Tail(r)[i]]
      OBVIOUS
    <3>1. Tail(z)[i] = z[i + 1] BY <2>7
    <3>2. z[i + 1] = [pkt |-> q[i + 1], dest |-> r[i + 1]] BY <1>5, <2>5
    <3>3. Tail(q)[i] = q[i + 1] /\ Tail(r)[i] = r[i + 1] BY <2>5, <2>6
    <3> QED BY ONLY <3>1, <3>2, <3>3
  <2>10. Tail(z) = [i \in 1..k |-> Tail(z)[i]]
    <3> PICK x \in Seq(Jobs) : x = Tail(z) BY <2>7
    <3>1. Len(x) = k BY <2>7
    <3>2. x = [i \in 1..k |-> x[i]] BY ONLY x \in Seq(Jobs), k \in Nat, <3>1
    <3> QED BY <3>2
  <2>11. Tail(z) = Paired(Tail(q), Tail(r))
    <3> HIDE DEF z
    <3> QED BY <2>8, <2>9, <2>10
  <2> QED BY <2>3, <2>11
<1> QED BY <1>1, <1>5, <1>6, <1>7, <1>8 DEF z

(* A transmission puts one packet in flight. *)
LEMMA StartedFlight ==
    ASSUME NEW d, NEW p, NEW dest, NEW t, NEW machine, NEW pending, NEW failed,
           TransmitStart(d, p, dest, t, machine, pending, failed)
    PROVE  \E a : arrivals' = arrivals \cup {a} /\ a.pkt = p /\ a.dev = dest
<1>1. PICK delay \in Delay : \E tx : arrivals' = arrivals \cup
          {[ts |-> t + tx + delay, uid |-> uid + 1, dev |-> dest, pkt |-> p,
            start |-> t, tx |-> tx, delay |-> delay]}
  BY Zenon DEF TransmitStart
<1>2. PICK tx : arrivals' = arrivals \cup
          {[ts |-> t + tx + delay, uid |-> uid + 1, dev |-> dest, pkt |-> p,
            start |-> t, tx |-> tx, delay |-> delay]}
  BY <1>1
<1> DEFINE a == [ts |-> t + tx + delay, uid |-> uid + 1, dev |-> dest, pkt |-> p,
                 start |-> t, tx |-> tx, delay |-> delay]
<1>3. arrivals' = arrivals \cup {a} /\ a.pkt = p /\ a.dev = dest BY <1>2
<1> HIDE DEF a
<1> QED BY <1>3

(* Every step keeps each packet on its way only once. *)
LEMMA FlightPreserved == IInv /\ FlightInv /\ [Next]_vars => FlightInv'
<1> SUFFICES ASSUME IInv, FlightInv, [Next]_vars PROVE FlightInv' OBVIOUS
<1>t. /\ TypeOK /\ OrderInv /\ QueuesInv /\ MachineInv /\ sent \in Nat
      /\ \A e \in arrivals : e.pkt.id \in Nat
  BY ArrivalTypes, GslBoundsAssumption DEF IInv, TypeOK
<1>1. ASSUME arrivals' \subseteq arrivals PROVE FlightInv' BY <1>1 DEF FlightInv
<1>2. ASSUME NEW d, NEW p, NEW dest, NEW t, NEW machine, NEW pending, NEW failed,
             TransmitStart(d, p, dest, t, machine, pending, failed),
             \A e \in arrivals : e.pkt # p
      PROVE  FlightInv'
  <2>1. PICK a : arrivals' = arrivals \cup {a} /\ a.pkt = p BY <1>2, StartedFlight
  <2> QED BY <1>2, <2>1 DEF FlightInv
<1>3. ASSUME NEW d \in Device, Attach(d) PROVE FlightInv' BY <1>1, <1>3 DEF Attach, eventVars
<1>4. ASSUME NEW d \in Sender, NEW r \in Rate, NEW t \in 0..MaxCallTime, SetDataRate(d, r, t)
      PROVE  FlightInv'
  BY <1>1, <1>4 DEF SetDataRate
<1>5. ASSUME NEW d \in Sender, NEW s \in Size, NEW dest \in Device, NEW t \in 0..MaxCallTime,
             Send(d, s, dest, t)
      PROVE  FlightInv'
  <2> DEFINE p == [id |-> sent, from |-> d, to |-> dest, size |-> s]
  <2>0. d \in Device BY GslBoundsAssumption
  <2>1. CASE SendDrop(d, p) BY <1>1, <2>1 DEF SendDrop
  <2>2. CASE SendEnqueue(d, p, dest) BY <1>1, <2>2 DEF SendEnqueue
  <2>3. CASE SendNow(d, p, dest, t)
    <3>1. m_queue[d] = <<>> BY <1>t, <2>0, <2>3 DEF SendNow, MachineInv
    <3>2. p.id = sent OBVIOUS
    <3> HIDE DEF p
    <3>3. \A e \in arrivals : e.pkt # p BY <1>t, <3>2 DEF OrderInv
    <3>4. Head(Append(m_queue[d], p)) = p BY <3>1
    <3> QED BY <1>2, <2>3, <3>3, <3>4 DEF SendNow
  <2> QED BY <1>5, <2>1, <2>2, <2>3 DEF Send
<1>6. ASSUME NEW e \in completions, TransmitComplete(e) PROVE FlightInv'
  <2>1. CASE TransmitCompleteIdle(e) BY <1>1, <2>1 DEF TransmitCompleteIdle
  <2>2. CASE TransmitCompleteNext(e)
    <3>1. e.dev \in Device BY <1>t DEF TypeOK, Completion
    <3>2. PICK q : q = m_queue[e.dev] OBVIOUS
    <3>3. q \in Seq(Packet) /\ q # <<>> BY <1>t, <2>2, <3>1, <3>2 DEF TypeOK, TransmitCompleteNext
    <3>4. 1 \in 1..Len(q) /\ Head(q) = q[1] BY <3>3
    <3>5. q[1].from = e.dev
          /\ \A a \in arrivals : a.pkt.from = e.dev => a.pkt.id < q[1].id
      BY <1>t, <3>1, <3>2, <3>4 DEF QueuesInv, OrderInv
    <3>6. \A a \in arrivals : a.pkt # Head(q) BY <1>t, <3>4, <3>5
    <3> QED BY <1>2, <2>2, <3>2, <3>6 DEF TransmitCompleteNext
  <2> QED BY <1>6, <2>1, <2>2 DEF TransmitComplete
<1>7. ASSUME NEW e \in arrivals, Receive(e) PROVE FlightInv' BY <1>1, <1>7 DEF Receive
<1>8. CASE UNCHANGED vars BY <1>1, <1>8 DEF vars, eventVars
<1> QED BY <1>3, <1>4, <1>5, <1>6, <1>7, <1>8 DEF Next, RunEvent

(***************************************************************************)
(* One step of the devices.                                                *)
(***************************************************************************)
ServerStep ==
    \/ UNCHANGED serverVars
    \/ \E d \in Device :
         \/ Up' = Up \cup {d} /\ UNCHANGED <<Serving, Waiting, Flying, Arrived, Refused>>
         \/ /\ Serving[d] # NoPacket /\ Waiting[d] = <<>>
            /\ Serving' = [Serving EXCEPT ![d] = NoPacket]
            /\ UNCHANGED <<Up, Waiting, Flying, Arrived, Refused>>
         \/ /\ Serving[d] # NoPacket /\ Waiting[d] # <<>>
            /\ Serving' = [Serving EXCEPT ![d] = Head(Waiting[d])]
            /\ Waiting' = [Waiting EXCEPT ![d] = Tail(Waiting[d])]
            /\ Flying' = Flying \cup {Head(Waiting[d])}
            /\ UNCHANGED <<Up, Arrived, Refused>>
    \/ \E d \in Device, j \in Jobs :
         \/ /\ d \notin Up \/ Len(Waiting[d]) >= MaxQueueSize
            /\ Refused' = Refused \cup {j}
            /\ UNCHANGED <<Up, Serving, Waiting, Flying, Arrived>>
         \/ /\ d \in Up /\ Serving[d] = NoPacket
            /\ Serving' = [Serving EXCEPT ![d] = j]
            /\ Flying' = Flying \cup {j}
            /\ UNCHANGED <<Up, Waiting, Arrived, Refused>>
         \/ /\ d \in Up /\ Serving[d] # NoPacket /\ Len(Waiting[d]) < MaxQueueSize
            /\ Waiting' = [Waiting EXCEPT ![d] = Append(Waiting[d], j)]
            /\ UNCHANGED <<Up, Serving, Flying, Arrived, Refused>>
    \/ \E j \in Jobs :
         /\ j \in Flying
         /\ Flying' = Flying \ {j} /\ Arrived' = Arrived \cup {j}
         /\ UNCHANGED <<Up, Serving, Waiting, Refused>>

(* ServerStep says what a step of FifoServer is, in the devices' variables. *)
LEMMA ServerStepIs == ServerStep => [Server!Next]_(Server!vars)
BY DEF ServerStep, serverVars, Up, Serving, Waiting, Flying, Arrived, Refused, Jobs, Paired,
       Server!Next, Server!vars, Server!ComeUp, Server!FinishAndIdle, Server!FinishAndContinue,
       Server!Refuse, Server!AcceptIdle, Server!AcceptBusy, Server!Arrive

(* At first all abstract queues are empty. *)
LEMMA ServerInitially == Init => Server!Init
BY DEF Init, Server!Init

(* A job is not the null packet. *)
LEMMA JobFacts ==
    ASSUME TypeOK, NEW d \in Device
    PROVE  /\ Serving[d] = NoPacket <=> m_currentPkt[d] = NoPacket
           /\ d \in Up <=> m_linkUp[d]
           /\ Waiting[d] = Paired(m_queue[d], m_queueDests[d])
           /\ \A p \in Packet : JobOf(p) \in Jobs /\ p # NoPacket /\ JobOf(p) # NoPacket
<1>1. \A p \in Packet : JobOf(p) \in Jobs /\ p # NoPacket /\ JobOf(p) # NoPacket
  BY NoPacketAssumption DEF JobOf, Jobs, Packet
<1>2. m_currentPkt[d] \in Packet \cup {NoPacket} BY DEF TypeOK
<1>3. Serving[d] = NoPacket <=> m_currentPkt[d] = NoPacket BY <1>1, <1>2 DEF Serving
<1> QED BY <1>1, <1>3 DEF Up, Waiting

(* Starting a transmission, in the variables of FifoServer. *)
LEMMA StartServes ==
    ASSUME TypeOK, NEW d \in Device, NEW p \in Packet, NEW t, NEW machine, NEW pending,
           NEW failed, TransmitStart(d, p, p.to, t, machine, pending, failed)
    PROVE  /\ Serving' = [Serving EXCEPT ![d] = JobOf(p)]
           /\ Flying' = Flying \cup {JobOf(p)}
<1>1. PICK a : arrivals' = arrivals \cup {a} /\ a.pkt = p /\ a.dev = p.to BY StartedFlight
<1>2. Flying' = Flying \cup {JobOf(p)} BY <1>1 DEF Flying, JobOf
<1>3. m_currentPkt' = [m_currentPkt EXCEPT ![d] = p] BY DEF TransmitStart
<1>4. m_currentPkt \in [Device -> Packet \cup {NoPacket}] BY DEF TypeOK
<1>5. p # NoPacket BY JobFacts
<1>6. \A c \in Device : Serving'[c] = IF c = d THEN JobOf(p) ELSE Serving[c]
  BY <1>3, <1>4, <1>5 DEF Serving
<1>7. Serving = [c \in Device |-> Serving[c]] /\ Serving' = [c \in Device |-> Serving'[c]]
  BY DEF Serving
<1>8. Serving' = [c \in Device |-> IF c = d THEN JobOf(p) ELSE Serving[c]]
  BY ONLY <1>6, <1>7, Zenon
<1> QED BY <1>2, <1>7, <1>8

(* Every step of the devices is one of FifoServer or none. *)
LEMMA StepImplements == IInv /\ FlightInv /\ [Next]_vars => ServerStep
<1> SUFFICES ASSUME IInv, FlightInv, [Next]_vars PROVE ServerStep OBVIOUS
<1>t. /\ TypeOK /\ QueuesInv /\ MachineInv
      /\ m_queue \in [Device -> Seq(Packet)] /\ m_queueDests \in [Device -> Seq(Device)]
  BY DEF IInv, TypeOK
<1>1. ASSUME UNCHANGED <<m_linkUp, m_currentPkt, m_queue, m_queueDests, arrivals,
                         received, dropped>>
      PROVE  ServerStep
  BY <1>1 DEF ServerStep, serverVars, Up, Serving, Waiting, Flying, Arrived, Refused
<1>z. ASSUME NEW d \in Device
      PROVE  /\ m_queue[d] \in Seq(Packet) /\ m_queueDests[d] \in Seq(Device)
             /\ Len(m_queueDests[d]) = Len(m_queue[d])
             /\ Waiting[d] = Paired(m_queue[d], m_queueDests[d])
             /\ Len(Waiting[d]) = Len(m_queue[d])
             /\ Waiting[d] = <<>> <=> m_queue[d] = <<>>
  <2>1. m_queue[d] \in Seq(Packet) /\ m_queueDests[d] \in Seq(Device)
        /\ Len(m_queueDests[d]) = Len(m_queue[d])
    BY <1>t DEF QueuesInv
  <2>2. Waiting[d] = Paired(m_queue[d], m_queueDests[d]) BY <1>t, JobFacts
  <2> QED BY <2>1, <2>2, ZipFacts
<1>w. ASSUME NEW d \in Device, NEW q, NEW r, m_queue' = [m_queue EXCEPT ![d] = q],
             m_queueDests' = [m_queueDests EXCEPT ![d] = r]
      PROVE  Waiting' = [Waiting EXCEPT ![d] = Paired(q, r)]
  <2>1. \A c \in Device : Waiting'[c] = IF c = d THEN Paired(q, r) ELSE Waiting[c]
    BY <1>t, <1>w DEF Waiting
  <2>2. Waiting = [c \in Device |-> Waiting[c]] /\ Waiting' = [c \in Device |-> Waiting'[c]]
    BY DEF Waiting
  <2>3. Waiting' = [c \in Device |-> IF c = d THEN Paired(q, r) ELSE Waiting[c]]
    BY ONLY <2>1, <2>2, Zenon
  <2> QED BY <2>2, <2>3
<1>2. ASSUME NEW d \in Device, Attach(d) PROVE ServerStep
  <2>1. Up' = Up \cup {d} BY <1>2, <1>t DEF Attach, Up, TypeOK
  <2>2. UNCHANGED <<Serving, Waiting, Flying, Arrived, Refused>>
    BY <1>2 DEF Attach, Serving, Waiting, Flying, Arrived, Refused, eventVars, historyVars
  <2> QED BY <2>1, <2>2 DEF ServerStep
<1>3. ASSUME NEW d \in Sender, NEW r \in Rate, NEW t \in 0..MaxCallTime, SetDataRate(d, r, t)
      PROVE  ServerStep
  BY <1>1, <1>3 DEF SetDataRate, historyVars
<1>4. ASSUME NEW d \in Sender, NEW s \in Size, NEW dest \in Device, NEW t \in 0..MaxCallTime,
             Send(d, s, dest, t)
      PROVE  ServerStep
  <2> DEFINE p == [id |-> sent, from |-> d, to |-> dest, size |-> s]
  <2>0. d \in Device /\ p.to = dest /\ UNCHANGED received /\ sent < MaxPackets
    BY <1>4, GslBoundsAssumption DEF Send
  <2>1. p \in Packet
    <3>1. sent \in 0..MaxPackets BY <1>t DEF TypeOK
    <3>2. sent \in 0..(MaxPackets - 1) BY <2>0, <3>1, GslBoundsAssumption
    <3> QED BY <2>0, <3>2 DEF Packet
  <2> HIDE DEF p
  <2>2. JobOf(p) \in Jobs /\ JobOf(p) = [pkt |-> p, dest |-> dest]
    BY <1>t, <2>0, <2>1, JobFacts DEF JobOf
  <2>3. CASE SendDrop(d, p)
    <3>1. d \notin Up \/ Len(Waiting[d]) >= MaxQueueSize
      <4>1. d \in Up => m_linkUp[d] BY DEF Up
      <4>2. Len(m_queue[d]) \in Nat BY <1>z, <2>0
      <4> QED BY <1>z, <2>0, <2>3, <4>1, <4>2, GslBoundsAssumption DEF SendDrop, HasRoom
    <3>2. Refused' = Refused \cup {JobOf(p)} BY <2>3 DEF SendDrop, Refused
    <3>3. UNCHANGED <<Up, Serving, Waiting, Flying, Arrived>>
      BY <2>0, <2>3 DEF SendDrop, Up, Serving, Waiting, Flying, Arrived, deviceVars
    <3> QED BY <2>0, <2>2, <3>1, <3>2, <3>3 DEF ServerStep
  <2>4. CASE SendEnqueue(d, p, dest)
    <3>1. d \in Up /\ Len(Waiting[d]) < MaxQueueSize
      BY <1>z, <2>0, <2>4 DEF SendEnqueue, HasRoom, Up
    <3>2. Serving[d] # NoPacket
      <4>1. m_txMachineState[d] = "BUSY" BY <1>t, <2>0, <2>4 DEF SendEnqueue, TypeOK
      <4> QED BY <1>t, <2>0, <4>1, JobFacts DEF MachineInv
    <3>3. Waiting' = [Waiting EXCEPT ![d] = Append(Waiting[d], JobOf(p))]
      <4>1. Waiting' = [Waiting EXCEPT ![d] = Paired(Append(m_queue[d], p), Append(m_queueDests[d], dest))]
        BY <1>w, <2>0, <2>4 DEF SendEnqueue
      <4>2. Paired(Append(m_queue[d], p), Append(m_queueDests[d], dest)) = Append(Waiting[d], JobOf(p))
        <5> DEFINE q == m_queue[d]
                   r == m_queueDests[d]
        <5>1. /\ q \in Seq(Packet) /\ r \in Seq(Device) /\ Len(r) = Len(q)
              /\ Waiting[d] = Paired(q, r)
          BY <1>z, <2>0
        <5> HIDE DEF q, r
        <5>2. \A x \in Packet, c \in Device :
                 Paired(Append(q, x), Append(r, c)) = Append(Paired(q, r), [pkt |-> x, dest |-> c])
          BY ONLY <5>1, ZipFacts
        <5>3. Paired(Append(q, p), Append(r, dest)) = Append(Paired(q, r), JobOf(p))
          BY <2>0, <2>1, <2>2, <5>2, Zenon
        <5> QED BY <5>1, <5>3 DEF q, r
      <4> QED BY <4>1, <4>2
    <3>4. UNCHANGED <<Up, Serving, Flying, Arrived, Refused>>
      BY <2>0, <2>4 DEF SendEnqueue, Up, Serving, Flying, Arrived, Refused
    <3> QED BY <2>0, <2>2, <3>1, <3>2, <3>3, <3>4 DEF ServerStep
  <2>5. CASE SendNow(d, p, dest, t)
    <3>1. d \in Up BY <2>0, <2>5 DEF SendNow, Up
    <3>2. Serving[d] = NoPacket /\ m_queue[d] = <<>>
      BY <1>t, <2>0, <2>5, JobFacts DEF SendNow, MachineInv
    <3>3. /\ Head(Append(m_queue[d], p)) = p /\ Tail(Append(m_queue[d], p)) = m_queue[d]
          /\ Head(Append(m_queueDests[d], dest)) = dest
          /\ Tail(Append(m_queueDests[d], dest)) = m_queueDests[d]
      <4>1. m_queueDests[d] = <<>> BY <1>z, <2>0, <3>2
      <4> QED BY <3>2, <4>1
    <3>4. /\ TransmitStart(d, p, dest, t, m_txMachineState[d], completions, FALSE)
          /\ m_queue' = [m_queue EXCEPT ![d] = m_queue[d]]
          /\ m_queueDests' = [m_queueDests EXCEPT ![d] = m_queueDests[d]]
          /\ UNCHANGED <<m_linkUp, dropped>>
      BY <2>5, <3>3, Zenon DEF SendNow
    <3>5. m_queue' = m_queue /\ m_queueDests' = m_queueDests BY <1>t, <2>0, <3>4
    <3>6. Serving' = [Serving EXCEPT ![d] = JobOf(p)] /\ Flying' = Flying \cup {JobOf(p)}
      BY <1>t, <2>0, <2>1, <3>4, StartServes
    <3>7. UNCHANGED <<Up, Waiting, Arrived, Refused>>
      BY <2>0, <3>4, <3>5 DEF Up, Waiting, Arrived, Refused
    <3> QED BY <2>0, <2>2, <3>1, <3>2, <3>6, <3>7 DEF ServerStep
  <2> QED BY <1>4, <2>3, <2>4, <2>5 DEF Send, p
<1>5. ASSUME NEW e \in completions, TransmitComplete(e) PROVE ServerStep
  <2> DEFINE d == e.dev
  <2>1. d \in Device BY <1>t DEF TypeOK, Completion
  <2>2. Serving[d] # NoPacket
    <3>1. m_txMachineState[d] = "BUSY" BY <1>t DEF MachineInv
    <3> QED BY <1>t, <2>1, <3>1, JobFacts DEF MachineInv
  <2>3. UNCHANGED <<m_linkUp, received, dropped>> BY <1>5 DEF TransmitComplete, historyVars
  <2>4. UNCHANGED <<Up, Arrived, Refused>> BY <2>3 DEF Up, Arrived, Refused
  <2>5. CASE TransmitCompleteIdle(e)
    <3>1. /\ m_queue[d] = <<>> /\ m_currentPkt' = [m_currentPkt EXCEPT ![d] = NoPacket]
          /\ UNCHANGED <<arrivals, m_queue, m_queueDests>>
      BY <2>5 DEF TransmitCompleteIdle
    <3> HIDE DEF d
    <3>2. Waiting[d] = <<>> BY <1>z, <2>1, <3>1
    <3>3. Serving' = [Serving EXCEPT ![d] = NoPacket]
      <4>1. m_currentPkt \in [Device -> Packet \cup {NoPacket}] BY <1>t DEF TypeOK
      <4>2. \A c \in Device : Serving'[c] = IF c = d THEN NoPacket ELSE Serving[c]
        BY <3>1, <4>1 DEF Serving
      <4>3. Serving = [c \in Device |-> Serving[c]] /\ Serving' = [c \in Device |-> Serving'[c]]
        BY DEF Serving
      <4>4. Serving' = [c \in Device |-> IF c = d THEN NoPacket ELSE Serving[c]]
        BY ONLY <4>2, <4>3, Zenon
      <4> QED BY <4>3, <4>4
    <3>4. UNCHANGED <<Waiting, Flying>> BY <3>1 DEF Waiting, Flying
    <3> QED BY <2>1, <2>2, <2>4, <3>2, <3>3, <3>4 DEF ServerStep
  <2>6. CASE TransmitCompleteNext(e)
    <3> DEFINE q == m_queue[d]
               r == m_queueDests[d]
               p == Head(q)
    <3>1. /\ q # <<>>
          /\ m_queue' = [m_queue EXCEPT ![d] = Tail(q)]
          /\ m_queueDests' = [m_queueDests EXCEPT ![d] = Tail(r)]
          /\ TransmitStart(d, p, Head(r), e.ts, "READY", completions \ {e}, CompletionFails(d))
      BY <2>6 DEF TransmitCompleteNext
    <3>2. q \in Seq(Packet) /\ r \in Seq(Device) /\ Len(r) = Len(q) /\ Waiting[d] = Paired(q, r)
      BY <1>z, <2>1
    <3>3. p = q[1] /\ p \in Packet /\ 1 \in 1..Len(q) BY <3>1, <3>2
    <3>4. Head(r) = p.to
      <4>1. r[1] = q[1].to BY <1>t, <2>1, <3>3 DEF QueuesInv
      <4>2. r # <<>> BY <3>2, <3>3
      <4> QED BY <3>2, <3>3, <4>1, <4>2
    <3>5. Head(Waiting[d]) = JobOf(p) /\ Tail(Waiting[d]) = Paired(Tail(q), Tail(r))
      <4> HIDE DEF q, r
      <4>1. /\ Head(Paired(q, r)) = [pkt |-> Head(q), dest |-> Head(r)]
            /\ Tail(Paired(q, r)) = Paired(Tail(q), Tail(r))
        BY ONLY <3>1, <3>2, ZipFacts
      <4>2. [pkt |-> p, dest |-> p.to] = JobOf(p) BY DEF JobOf
      <4> QED BY <3>2, <3>4, <4>1, <4>2, Zenon
    <3>6. Waiting' = [Waiting EXCEPT ![d] = Paired(Tail(q), Tail(r))] BY <1>w, <2>1, <3>1
    <3>7. TransmitStart(d, p, p.to, e.ts, "READY", completions \ {e}, CompletionFails(d))
      BY <3>1, <3>4
    <3> HIDE DEF p, q, r, d
    <3>8. Serving' = [Serving EXCEPT ![d] = JobOf(p)] /\ Flying' = Flying \cup {JobOf(p)}
      BY <1>t, <2>1, <3>3, <3>7, StartServes
    <3>9. Waiting[d] # <<>> BY <1>z, <2>1, <3>1 DEF q
    <3>10. /\ Serving' = [Serving EXCEPT ![d] = Head(Waiting[d])]
           /\ Waiting' = [Waiting EXCEPT ![d] = Tail(Waiting[d])]
           /\ Flying' = Flying \cup {Head(Waiting[d])}
      BY <3>5, <3>6, <3>8, Zenon
    <3> QED BY <2>1, <2>2, <2>4, <3>9, <3>10 DEF ServerStep
  <2> QED BY <1>5, <2>5, <2>6 DEF TransmitComplete
<1>6. ASSUME NEW e \in arrivals, Receive(e) PROVE ServerStep
  <2> DEFINE j == [pkt |-> e.pkt, dest |-> e.dev]
  <2>1. /\ arrivals' = arrivals \ {e} /\ received' = received \cup {<<e.pkt, e.dev>>}
        /\ UNCHANGED <<m_linkUp, m_currentPkt, m_queue, m_queueDests, dropped>>
    BY <1>6 DEF Receive, deviceVars
  <2>2. j \in Jobs /\ j \in Flying
    <3>1. e.pkt \in Packet /\ e.dev \in Device BY <1>t, ArrivalTypes
    <3> QED BY <3>1 DEF Jobs, Flying
  <2>3. Flying' = Flying \ {j}
    <3>1. ASSUME NEW f \in arrivals, [pkt |-> f.pkt, dest |-> f.dev] = j PROVE f = e
      <4>1. [pkt |-> f.pkt, dest |-> f.dev].pkt = f.pkt /\ j.pkt = e.pkt OBVIOUS
      <4>2. f.pkt = e.pkt BY <3>1, <4>1
      <4> QED BY <4>2 DEF FlightInv
    <3> HIDE DEF j
    <3>2. \A f \in arrivals : [pkt |-> f.pkt, dest |-> f.dev] # j => f # e BY DEF j
    <3> QED BY <2>1, <3>1, <3>2 DEF Flying
  <2>4. Arrived' = Arrived \cup {j}
    <3>1. <<e.pkt, e.dev>>[1] = e.pkt /\ <<e.pkt, e.dev>>[2] = e.dev OBVIOUS
    <3> QED BY <2>1, <3>1 DEF Arrived
  <2>5. UNCHANGED <<Up, Serving, Waiting, Refused>> BY <2>1 DEF Up, Serving, Waiting, Refused
  <2> HIDE DEF j
  <2> QED BY <2>2, <2>3, <2>4, <2>5 DEF ServerStep
<1>7. CASE UNCHANGED vars BY <1>1, <1>7 DEF vars, eventVars, deviceVars, historyVars
<1> QED BY <1>2, <1>3, <1>4, <1>5, <1>6, <1>7 DEF Next, RunEvent

(***************************************************************************)
(* The devices implement FifoServer: packet and destination queue together *)
(* are one bounded FIFO queue of jobs, and the device never idles while it *)
(* holds one.                                                              *)
(***************************************************************************)
THEOREM GslImplementsFifoServer == Spec => ImplementsFifoServer
<1>1. Init => IInv /\ FlightInv /\ Server!Init
  BY InvariantInitially, ServerInitially DEF Init, FlightInv
<1>2. IInv /\ FlightInv /\ [Next]_vars => (IInv /\ FlightInv)'
  BY InvariantPreserved, FlightPreserved
<1>3. IInv /\ FlightInv /\ [Next]_vars => [Server!Next]_(Server!vars)
  BY StepImplements, ServerStepIs
<1> QED BY <1>1, <1>2, <1>3, PTL DEF Spec, ImplementsFifoServer, Server!Spec

-----------------------------------------------------------------------------
(***************************************************************************)
(* Lists, running totals and sets of numbers in order, which both the      *)
(* reader of a network and its writer count with.                          *)
(***************************************************************************)
(* Natural numbers are well ordered. *)
LEMMA LeastElement ==
    ASSUME NEW T, T \subseteq Nat, T # {}
    PROVE  \E x \in T : \A y \in T : x <= y
<1>1. PICK x \in T : \A y \in T : ~ (<<y, x>> \in OpToRel(<, Nat))
  BY NatLessThanWellFounded, WFMin
<1>2. \A y \in T : ~ (y < x) BY <1>1 DEF OpToRel
<1> QED BY <1>2

(* Two lists, one after the other. *)
LEMMA Concatenated ==
    ASSUME NEW S, NEW s \in Seq(S), NEW t \in Seq(S)
    PROVE  /\ s \o t \in Seq(S) /\ Len(s) \in Nat /\ Len(t) \in Nat
           /\ Len(s \o t) = Len(s) + Len(t)
           /\ \A i \in 1..(Len(s) + Len(t)) : (s \o t)[i] = IF i <= Len(s) THEN s[i] ELSE t[i - Len(s)]
<1>1. s \o t \in Seq(S) OBVIOUS
<1>2. Len(s) \in Nat /\ Len(t) \in Nat OBVIOUS
<1>3. Len(s \o t) = Len(s) + Len(t) OBVIOUS
<1>4. \A i \in 1..(Len(s) + Len(t)) : (s \o t)[i] = IF i <= Len(s) THEN s[i] ELSE t[i - Len(s)]
  OBVIOUS
<1> QED BY <1>1, <1>2, <1>3, <1>4

(* A function may be defined step by step. *)
Steps(n, S, a, F, g) ==
    g \in [0..n -> S] /\ g[0] = a /\ \A i \in 1..n : g[i] = F[i][g[i - 1]]
(* What is defined step by step exists: by the least number without. *)
LEMMA StepByStep ==
    ASSUME NEW n \in Nat, NEW S, NEW a \in S, NEW F \in [1..n -> [S -> S]]
    PROVE  \E g : Steps(n, S, a, F, g)
<1> DEFINE Good(h, m) == Steps(m, S, a, F, h)
           T == {m \in 0..n : \A h : ~ Good(h, m)}
<1>1. SUFFICES T = {}
  <2>1. n \in 0..n OBVIOUS
  <2> HIDE DEF Good
  <2>2. \E h : Good(h, n) BY <1>1, <2>1
  <2> QED BY <2>2 DEF Good
<1>2. SUFFICES ASSUME T # {} PROVE FALSE OBVIOUS
<1>3. PICK m \in T : \A l \in T : m <= l
  <2>1. T \subseteq Nat OBVIOUS
  <2> HIDE DEF T
  <2> QED BY <1>2, <2>1, LeastElement
<1>4. m \in 0..n /\ \A h : ~ Good(h, m)
  <2> HIDE DEF Good
  <2> QED BY <1>3
<1>5. CASE m = 0
  <2> DEFINE h == [i \in 0..0 |-> a]
  <2>1. h \in [0..0 -> S] /\ h[0] = a /\ \A i \in 1..0 : FALSE OBVIOUS
  <2>2. Good(h, 0)
    <3> HIDE DEF h
    <3> QED BY <2>1 DEF Steps
  <2> HIDE DEF Good, h
  <2> QED BY <1>4, <1>5, <2>2
<1>6. CASE m # 0
  <2>1. m - 1 \in 0..n /\ m \in 1..n /\ ~ (m <= m - 1) BY <1>4, <1>6
  <2>2. m - 1 \notin T
    <3> HIDE DEF T
    <3> QED BY <1>3, <2>1
  <2>3. PICK g : Good(g, m - 1)
    <3> HIDE DEF Good
    <3> QED BY <2>1, <2>2
  <2> DEFINE h == [i \in 0..m |-> IF i = m THEN F[m][g[m - 1]] ELSE g[i]]
  <2>4. m - 1 \in 0..(m - 1) /\ \A i \in 0..m : i # m => i \in 0..(m - 1) BY <2>1
  <2>5. g \in [0..(m - 1) -> S] BY <2>3 DEF Steps
  <2>6. F[m] \in [S -> S] /\ g[m - 1] \in S BY <2>1, <2>4, <2>5
  <2>7. F[m][g[m - 1]] \in S BY <2>6
  <2>8. h \in [0..m -> S] BY <2>4, <2>5, <2>7
  <2>9. h[0] = a
    <3>1. 0 \in 0..m /\ 0 # m BY <2>1
    <3> QED BY <2>3, <3>1 DEF Steps
  <2>10. ASSUME NEW i \in 1..m PROVE h[i] = F[i][h[i - 1]]
    <3>1. i \in 0..m /\ i - 1 \in 0..m /\ i - 1 # m BY <2>1
    <3>2. h[i - 1] = g[i - 1] BY <3>1
    <3>3. CASE i = m BY <3>1, <3>2, <3>3
    <3>4. CASE i # m
      <4>1. i \in 1..(m - 1) BY <3>4, <2>1
      <4>2. h[i] = g[i] BY <3>1, <3>4
      <4>3. g[i] = F[i][g[i - 1]] BY <2>3, <4>1 DEF Steps
      <4> HIDE DEF h
      <4> QED BY <3>2, <4>2, <4>3
    <3> QED BY <3>3, <3>4
  <2>11. Good(h, m)
    <3> HIDE DEF h
    <3> QED BY <2>8, <2>9, <2>10 DEF Steps
  <2> HIDE DEF Good, h
  <2> QED BY <1>4, <2>11
<1> QED BY <1>5, <1>6

(* The running total of a list of natural numbers. *)
LEMMA RunningTotal ==
    ASSUME NEW list \in Seq(Nat)
    PROVE  /\ Running(list) \in [0..Len(list) -> Nat] /\ Running(list)[0] = 0
           /\ \A i \in 1..Len(list) : Running(list)[i] = Running(list)[i - 1] + list[i]
<1> DEFINE n == Len(list)
           F == [i \in 1..n |-> [x \in Nat |-> x + list[i]]]
           Def(g) == [i \in 0..n |-> IF i = 0 THEN 0 ELSE g[i - 1] + list[i]]
<1>1. n \in Nat /\ \A i \in 1..n : list[i] \in Nat OBVIOUS
<1>2. F \in [1..n -> [Nat -> Nat]]
  <2> HIDE DEF n
  <2> QED BY <1>1
<1>3. \A i \in 1..n : \A x \in Nat : F[i][x] = x + list[i] OBVIOUS
<1> HIDE DEF F, n
<1>4. PICK g : g \in [0..n -> Nat] /\ g[0] = 0 /\ \A i \in 1..n : g[i] = F[i][g[i - 1]]
  <2>1. 0 \in Nat OBVIOUS
  <2>2. \E g : Steps(n, Nat, 0, F, g) BY <1>1, <1>2, <2>1, StepByStep
  <2> QED BY <2>2 DEF Steps
<1>5. \A i \in 1..n : g[i] = g[i - 1] + list[i]
  <2>1. \A i \in 1..n : i - 1 \in 0..n BY <1>1
  <2> QED BY <1>3, <1>4, <2>1
<1>6. g = Def(g)
  <2>1. \A i \in 0..n : i = 0 \/ i \in 1..n BY <1>1
  <2>2. \A i \in 0..n : g[i] = IF i = 0 THEN 0 ELSE g[i - 1] + list[i] BY <1>4, <1>5, <2>1
  <2>3. DOMAIN g = 0..n /\ g = [i \in DOMAIN g |-> g[i]] BY <1>4
  <2> QED BY <2>2, <2>3
<1>7. Running(list) = CHOOSE h : h = Def(h) BY DEF Running, n
<1>8. Running(list) = Def(Running(list))
  <2> HIDE DEF Def
  <2> QED BY <1>6, <1>7
<1> DEFINE r == Running(list)
<1>9. r = [i \in 0..n |-> IF i = 0 THEN 0 ELSE r[i - 1] + list[i]] BY <1>8
<1> HIDE DEF r
<1>10. r[0] = 0 /\ \A i \in 1..n : r[i] = r[i - 1] + list[i]
  <2>1. \A i \in 1..n : i \in 0..n /\ i # 0 BY <1>1
  <2>2. 0 \in 0..n BY <1>1
  <2> QED BY <1>9, <2>1, <2>2
<1>11. \A i \in 0..n : r[i] = g[i]
  <2> DEFINE T == {i \in 0..n : r[i] # g[i]}
  <2>1. SUFFICES ASSUME T # {} PROVE FALSE OBVIOUS
  <2>2. PICK m \in T : \A l \in T : m <= l
    <3>1. T \subseteq Nat OBVIOUS
    <3> HIDE DEF T
    <3> QED BY <2>1, <3>1, LeastElement
  <2>3. m \in 0..n /\ r[m] # g[m] OBVIOUS
  <2>4. m # 0 BY <1>4, <1>10, <2>3
  <2>5. m \in 1..n /\ m - 1 \in 0..n /\ ~ (m <= m - 1) BY <1>1, <2>3, <2>4
  <2>6. r[m - 1] = g[m - 1] BY <2>2, <2>5
  <2> QED BY <1>5, <1>10, <2>3, <2>5, <2>6
<1>12. r \in [0..n -> Nat]
  <2>1. DOMAIN r = 0..n /\ r = [i \in DOMAIN r |-> r[i]] BY <1>9
  <2>2. \A i \in 0..n : r[i] \in Nat BY <1>4, <1>11
  <2> QED BY <2>1, <2>2
<1> QED BY <1>10, <1>12 DEF r, n

(* Lists joined one after the other. *)
Joined(A, ss, g) ==
    /\ g \in [0..Len(ss) -> Seq(A)] /\ g[0] = <<>>
    /\ \A i \in 1..Len(ss) : g[i] = g[i - 1] \o ss[i]
    /\ FlattenSeq(ss) = g[Len(ss)]
(* FlattenSeq joins the lists one after the other. *)
LEMMA ListsJoined ==
    ASSUME NEW A, NEW ss \in Seq(Seq(A))
    PROVE  \E g : Joined(A, ss, g)
<1> DEFINE n == Len(ss)
           S == Seq(A)
           F == [i \in 1..n |-> [x \in S |-> x \o ss[i]]]
           Def(g) == [i \in 1..n |-> IF i = 1 THEN ss[i] ELSE g[i - 1] \o ss[i]]
<1>1. n \in Nat /\ (\A i \in 1..n : ss[i] \in S) /\ <<>> \in S OBVIOUS
<1>2. F \in [1..n -> [S -> S]]
  <2>1. \A i \in 1..n : \A x \in S : x \o ss[i] \in S
    <3> HIDE DEF n
    <3>1. \A x, y \in Seq(A) : x \o y \in Seq(A) OBVIOUS
    <3> QED BY <1>1, <3>1
  <2> HIDE DEF n, S
  <2> QED BY <2>1
<1>3. \A i \in 1..n : \A x \in S : F[i][x] = x \o ss[i] OBVIOUS
<1> HIDE DEF F, n, S
<1>4. PICK g : g \in [0..n -> S] /\ g[0] = <<>> /\ \A i \in 1..n : g[i] = F[i][g[i - 1]]
  <2>2. \E g : Steps(n, S, <<>>, F, g) BY <1>1, <1>2, StepByStep
  <2> QED BY <2>2 DEF Steps
<1>5. \A i \in 1..n : g[i] = g[i - 1] \o ss[i]
  <2>1. \A i \in 1..n : i - 1 \in 0..n BY <1>1
  <2> QED BY <1>3, <1>4, <2>1
<1>6. CASE n = 0
  <2>1. FlattenSeq(ss) = ss BY <1>6 DEF FlattenSeq, n
  <2>2. ss = <<>> BY <1>6 DEF n
  <2> QED BY <1>4, <1>5, <1>6, <2>1, <2>2 DEF n, S, Joined
<1>7. CASE n # 0
  <2> DEFINE f == [i \in 1..n |-> g[i]]
  <2>1. 1 \in 1..n /\ n \in 1..n /\ \A i \in 1..n : i # 1 => i - 1 \in 1..n BY <1>1, <1>7
  <2>2. g[1] = ss[1]
    <3>1. g[1] = <<>> \o ss[1]
      <4>1. 1 - 1 = 0 OBVIOUS
      <4>2. g[1] = g[1 - 1] \o ss[1] BY <1>5, <2>1
      <4> QED BY <1>4, <4>1, <4>2
    <3>2. \A s \in Seq(A) : <<>> \o s = s OBVIOUS
    <3> QED BY <1>1, <2>1, <3>1, <3>2 DEF S
  <2>3. f = Def(f)
    <3>1. \A i \in 1..n : g[i] = IF i = 1 THEN ss[i] ELSE f[i - 1] \o ss[i]
      BY <1>5, <2>1, <2>2
    <3> QED BY <3>1
  <2>4. FlattenSeq(ss) = (CHOOSE h : h = Def(h))[n] BY <1>7 DEF FlattenSeq, n
  <2> DEFINE r == CHOOSE h : h = Def(h)
  <2>5. r = Def(r)
    <3> HIDE DEF Def, f
    <3> QED BY <2>3
  <2> HIDE DEF r, f
  <2>6. \A i \in 1..n : r[i] = IF i = 1 THEN ss[i] ELSE r[i - 1] \o ss[i] BY <2>5
  <2>7. \A i \in 1..n : r[i] = g[i]
    <3> DEFINE T == {i \in 1..n : r[i] # g[i]}
    <3>1. SUFFICES ASSUME T # {} PROVE FALSE OBVIOUS
    <3>2. PICK m \in T : \A l \in T : m <= l
      <4>1. T \subseteq Nat OBVIOUS
      <4> HIDE DEF T
      <4> QED BY <3>1, <4>1, LeastElement
    <3>3. m \in 1..n /\ r[m] # g[m] OBVIOUS
    <3>4. m # 1 BY <2>2, <2>6, <3>3
    <3>5. m - 1 \in 1..n /\ ~ (m <= m - 1) BY <1>1, <3>3, <3>4
    <3>6. r[m - 1] = g[m - 1] BY <3>2, <3>5
    <3> QED BY <1>5, <2>6, <3>3, <3>4, <3>6
  <2> QED BY <1>4, <1>5, <2>1, <2>4, <2>7 DEF n, r, S, Joined
<1> QED BY <1>6, <1>7

(* In order, a finite set of numbers. *)
Rank(S, m) == Cardinality({x \in S : x < m})

(* Below two members of a set there are as many only if they are one. *)
LEMMA RankFacts ==
    ASSUME NEW S, S \subseteq Nat, IsFiniteSet(S)
    PROVE  /\ Cardinality(S) \in Nat
           /\ \A m \in S : Rank(S, m) \in 0..(Cardinality(S) - 1)
           /\ \A l, m \in S : Rank(S, l) = Rank(S, m) => l = m
           /\ \A r \in 0..(Cardinality(S) - 1) : \E m \in S : Rank(S, m) = r
<1> DEFINE m == Cardinality(S)
           Lower(e) == {x \in S : x < e}
           rank == [e \in S |-> Rank(S, e)]
<1>0. \A e : Rank(S, e) = Cardinality(Lower(e)) BY DEF Rank
<1>2. m \in Nat BY FS_CardinalityType
<1>6. \A e \in S : IsFiniteSet(Lower(e)) /\ Cardinality(Lower(e)) \in Nat
  <2> TAKE e \in S
  <2>1. Lower(e) \in SUBSET S OBVIOUS
  <2> HIDE DEF Lower
  <2>2. IsFiniteSet(Lower(e)) BY <2>1, FS_Subset
  <2> QED BY <2>2, FS_CardinalityType
<1>7. ASSUME NEW d \in S, NEW e \in S, d < e PROVE Cardinality(Lower(d)) < Cardinality(Lower(e))
  <2>1. Lower(d) \in SUBSET Lower(e)
    <3>1. \A x \in S : x \in Nat OBVIOUS
    <3>2. \A x \in S : x < d => x < e BY <1>7, <3>1
    <3> QED BY <3>2
  <2>2. d \in Lower(e) /\ d \notin Lower(d) BY <1>7
  <2> HIDE DEF Lower
  <2>3. Cardinality(Lower(d)) <= Cardinality(Lower(e)) /\ Cardinality(Lower(d)) # Cardinality(Lower(e))
    BY <1>6, <2>1, <2>2, FS_Subset
  <2>4. Cardinality(Lower(d)) \in Nat /\ Cardinality(Lower(e)) \in Nat BY <1>6
  <2> QED BY <2>3, <2>4
<1>8. ASSUME NEW e \in S PROVE Rank(S, e) \in 0..(m - 1)
  <2>1. Lower(e) \in SUBSET S /\ e \notin Lower(e) OBVIOUS
  <2> HIDE DEF Lower, m
  <2>2. Cardinality(Lower(e)) <= m /\ Cardinality(Lower(e)) # m
    BY <2>1, FS_Subset DEF m
  <2>3. Cardinality(Lower(e)) \in 0..(m - 1) BY <1>2, <1>6, <2>2
  <2> QED BY <1>0, <2>3
<1>9. rank \in [S -> 0..(m - 1)]
  <2> HIDE DEF Lower, m
  <2> QED BY <1>8
<1>10. \A d, e \in S : Rank(S, d) = Rank(S, e) => d = e
  <2> TAKE d \in S, e \in S
  <2>1. HAVE Rank(S, d) = Rank(S, e)
  <2> HIDE DEF Lower
  <2>2. Cardinality(Lower(d)) = Cardinality(Lower(e)) BY <1>0, <2>1
  <2>3. ~ (d < e) /\ ~ (e < d) BY <1>6, <1>7, <2>2
  <2> QED BY <2>3
<1>11. \A r \in 0..(m - 1) : \E e \in S : rank[e] = r
  <2>0. \A d, e \in S : rank[d] = rank[e] => d = e BY <1>10
  <2> HIDE DEF rank
  <2>1. rank \in Injection(S, 0..(m - 1))
    <3> HIDE DEF m
    <3> QED BY <1>9, <2>0 DEF Injection, IsInjective
  <2>2. IsFiniteSet(0..(m - 1)) /\ Cardinality(0..(m - 1)) = m
    <3>1. 0 \in Int /\ m - 1 \in Int /\ (0 > m - 1 => m = 0) /\ (m - 1) - 0 + 1 = m BY <1>2
    <3> HIDE DEF m
    <3> QED BY <3>1, FS_Interval
  <2>3. rank \in Surjection(S, 0..(m - 1))
    <3> HIDE DEF m
    <3>1. Cardinality(S) = m BY DEF m
    <3> QED BY <2>1, <2>2, <3>1, FS_Injection
  <2> QED BY <2>3 DEF Surjection
<1> HIDE DEF Lower
<1> QED BY <1>2, <1>8, <1>10, <1>11

(* A set of numbers in order has each of them, and at the place that counts those below. *)
LEMMA InOrder ==
    ASSUME NEW S, S \subseteq Nat, IsFiniteSet(S)
    PROVE  /\ Ascending(S) \in Seq(S) /\ Len(Ascending(S)) = Cardinality(S)
           /\ \A i \in 1..Cardinality(S) : Ascending(S)[i] \in S /\ Rank(S, Ascending(S)[i]) = i - 1
           /\ \A m \in S : Rank(S, m) + 1 \in 1..Cardinality(S) /\ Ascending(S)[Rank(S, m) + 1] = m
<1> DEFINE n == Cardinality(S)
           a == Ascending(S)
<1>1. /\ n \in Nat
      /\ \A m \in S : Rank(S, m) \in 0..(n - 1)
      /\ \A l, m \in S : Rank(S, l) = Rank(S, m) => l = m
      /\ \A r \in 0..(n - 1) : \E m \in S : Rank(S, m) = r
  BY RankFacts
<1>2. a = [i \in 1..n |-> CHOOSE m \in S : Rank(S, m) = i - 1] BY DEF Ascending, Rank
<1> HIDE DEF n, a
<1>3. \A i \in 1..n : a[i] \in S /\ Rank(S, a[i]) = i - 1
  <2> TAKE i \in 1..n
  <2>1. i - 1 \in 0..(n - 1) BY <1>1
  <2>2. \E m \in S : Rank(S, m) = i - 1 BY <1>1, <2>1
  <2>3. a[i] = CHOOSE m \in S : Rank(S, m) = i - 1 BY <1>2
  <2> QED BY <2>2, <2>3
<1>4. a \in Seq(S) /\ Len(a) = n
  <2>1. a \in [1..n -> S] BY <1>2, <1>3
  <2> QED BY <1>1, <2>1
<1>5. ASSUME NEW m \in S PROVE Rank(S, m) + 1 \in 1..n /\ a[Rank(S, m) + 1] = m
  <2>1. PICK r \in 0..(n - 1) : r = Rank(S, m) BY <1>1
  <2>2. r + 1 \in 1..n /\ (r + 1) - 1 = r BY <1>1
  <2>3. a[r + 1] \in S /\ Rank(S, a[r + 1]) = r BY <1>3, <2>2
  <2> QED BY <1>1, <2>1, <2>2, <2>3
<1> QED BY <1>3, <1>4, <1>5 DEF n, a

(* Two lists in order make one, if all numbers of the second are greater. *)
LEMMA OrderJoined ==
    ASSUME NEW S, S \subseteq Nat, IsFiniteSet(S), NEW T, T \subseteq Nat, IsFiniteSet(T),
           \A x \in S : \A y \in T : x < y
    PROVE  Ascending(S) \o Ascending(T) = Ascending(S \cup T)
<1> DEFINE U == S \cup T
           s == Cardinality(S)
           t == Cardinality(T)
           a == Ascending(S)
           b == Ascending(T)
           c == Ascending(U)
<1>1. U \subseteq Nat /\ IsFiniteSet(U) /\ s \in Nat /\ t \in Nat /\ Cardinality(U) = s + t
  <2>1. s \in Nat /\ t \in Nat BY FS_CardinalityType
  <2>2. S \cap T = {}
    <3>1. \A x \in S : x \in Nat OBVIOUS
    <3> QED BY <3>1
  <2>3. Cardinality(S \cap T) = 0 BY <2>2, FS_EmptySet
  <2>4. IsFiniteSet(U) /\ Cardinality(U) = s + t - Cardinality(S \cap T) BY FS_Union
  <2> QED BY <2>1, <2>3, <2>4
<1>2. \A x \in S : Rank(U, x) = Rank(S, x)
  <2> TAKE x \in S
  <2>1. x \in Nat /\ \A y \in T : y \in Nat /\ x < y OBVIOUS
  <2>2. \A y \in T : ~ (y < x) BY <2>1
  <2>3. {y \in U : y < x} = {y \in S : y < x} BY <2>2
  <2> QED BY <2>3 DEF Rank
<1>3. \A x \in T : Rank(U, x) = s + Rank(T, x)
  <2> TAKE x \in T
  <2> DEFINE V == {y \in T : y < x}
  <2>1. {y \in U : y < x} = S \cup V OBVIOUS
  <2>2. V \in SUBSET T OBVIOUS
  <2>3. IsFiniteSet(V)
    <3> HIDE DEF V
    <3> QED BY <2>2, FS_Subset
  <2>4. S \cap V = {}
    <3>1. \A y \in S : y \in Nat OBVIOUS
    <3>2. \A y \in S : y \notin T BY <3>1
    <3> QED BY <3>2
  <2>5. Cardinality(S \cap V) = 0 BY <2>4, FS_EmptySet
  <2>6. Rank(T, x) = Cardinality(V) BY DEF Rank
  <2> HIDE DEF V
  <2>7. Cardinality(S \cup V) = s + Cardinality(V) - Cardinality(S \cap V) BY <2>3, FS_Union
  <2>8. Cardinality(V) \in Nat BY <2>3, FS_CardinalityType
  <2>9. Cardinality(S \cup V) = s + Cardinality(V) BY <1>1, <2>5, <2>7, <2>8
  <2> QED BY <2>1, <2>6, <2>9 DEF Rank
<1>4. /\ a \in Seq(S) /\ Len(a) = s
      /\ \A i \in 1..s : a[i] \in S /\ Rank(S, a[i]) = i - 1
  BY InOrder
<1>5. /\ b \in Seq(T) /\ Len(b) = t
      /\ \A i \in 1..t : b[i] \in T /\ Rank(T, b[i]) = i - 1
  BY InOrder
<1>6. /\ c \in Seq(U) /\ Len(c) = s + t
      /\ \A m \in U : c[Rank(U, m) + 1] = m
  <2> HIDE DEF U, c
  <2>1. /\ Ascending(U) \in Seq(U) /\ Len(Ascending(U)) = Cardinality(U)
        /\ \A m \in U : Ascending(U)[Rank(U, m) + 1] = m
    BY <1>1, InOrder
  <2> QED BY <1>1, <2>1 DEF c
<1>7. a \in Seq(U) /\ b \in Seq(U)
  <2>1. (\A i \in 1..s : a[i] \in U) /\ (\A i \in 1..t : b[i] \in U) BY <1>4, <1>5
  <2>2. a = [i \in 1..s |-> a[i]] /\ b = [i \in 1..t |-> b[i]] BY <1>4, <1>5
  <2> HIDE DEF U, s, t, a, b
  <2>3. a \in [1..s -> U] /\ b \in [1..t -> U] BY <2>1, <2>2
  <2> QED BY <1>1, <2>3
<1> HIDE DEF U, s, t, a, b, c
<1>8. /\ a \o b \in Seq(U) /\ Len(a \o b) = s + t
      /\ \A i \in 1..(s + t) : (a \o b)[i] = IF i <= s THEN a[i] ELSE b[i - s]
  BY <1>4, <1>5, <1>7, Concatenated
<1>9. ASSUME NEW i \in 1..(s + t) PROVE (a \o b)[i] = c[i]
  <2>1. CASE i <= s
    <3>1. i \in 1..s /\ (i - 1) + 1 = i BY <1>1, <2>1
    <3>2. a[i] \in S /\ a[i] \in U /\ Rank(U, a[i]) = i - 1 BY <1>2, <1>4, <3>1 DEF U
    <3>3. c[i] = a[i] BY <1>6, <3>1, <3>2
    <3> QED BY <1>8, <2>1, <3>3
  <2>2. CASE ~ (i <= s)
    <3>1. i - s \in 1..t /\ (s + ((i - s) - 1)) + 1 = i BY <1>1, <2>2
    <3>2. b[i - s] \in T /\ b[i - s] \in U BY <1>5, <3>1 DEF U
    <3>3. Rank(U, b[i - s]) = s + ((i - s) - 1) BY <1>3, <1>5, <3>1, <3>2
    <3>4. c[i] = b[i - s] BY <1>6, <3>1, <3>2, <3>3
    <3> QED BY <1>8, <2>2, <3>4
  <2> QED BY <2>1, <2>2
<1>10. a \o b = c
  <2>1. \A p \in Seq(U) : p = [i \in 1..Len(p) |-> p[i]] OBVIOUS
  <2>2. PICK p \in Seq(U) : p = a \o b BY <1>8
  <2>3. p = [i \in 1..(s + t) |-> p[i]] /\ c = [i \in 1..(s + t) |-> c[i]]
    BY <1>6, <1>8, <2>1, <2>2
  <2>4. \A i \in 1..(s + t) : p[i] = c[i] BY <1>9, <2>2
  <2> QED BY <2>2, <2>3, <2>4
<1> QED BY <1>10 DEF a, b, c, U
-----------------------------------------------------------------------------
(***************************************************************************)
(* What gen_state.py writes.                                               *)
(***************************************************************************)
(* A number and the next one have different remainders. *)
LEMMA NextRemainder ==
    ASSUME NEW a \in Nat, NEW n \in Nat, n >= 2
    PROVE  a % n \in 0..(n - 1) /\ (a + 1) % n \in 0..(n - 1) /\ a % n # (a + 1) % n
<1>1. a % n \in 0..(n - 1) /\ (a + 1) % n \in 0..(n - 1) OBVIOUS
<1>2. a \div n \in Nat /\ (a + 1) \div n \in Nat OBVIOUS
<1>3. a = n * (a \div n) + (a % n) /\ a + 1 = n * ((a + 1) \div n) + ((a + 1) % n) OBVIOUS
<1>4. ASSUME a % n = (a + 1) % n PROVE FALSE
  <2>1. PICK q \in Nat : q = a \div n BY <1>2
  <2>2. PICK p \in Nat : p = (a + 1) \div n BY <1>2
  <2>3. PICK r \in Nat : r = a % n BY <1>1
  <2>4. a = n * q + r /\ a + 1 = n * p + r BY <1>3, <1>4, <2>1, <2>2, <2>3
  <2>5. n * q + 1 = n * p
    <3>1. n * q \in Nat /\ n * p \in Nat OBVIOUS
    <3> QED BY <2>4, <3>1
  <2>6. CASE p <= q
    <3>1. n * p <= n * q BY <2>6
    <3>2. n * p \in Nat /\ n * q \in Nat OBVIOUS
    <3> QED BY <2>5, <3>1, <3>2
  <2>7. CASE p > q
    <3>1. n * (q + 1) <= n * p BY <2>7
    <3>2. n * (q + 1) = n * q + n OBVIOUS
    <3>3. n * p \in Nat /\ n * q \in Nat OBVIOUS
    <3> QED BY <2>5, <3>1, <3>2, <3>3
  <2> QED BY <2>6, <2>7
<1> QED BY <1>1, <1>4

(* Rows of a table: places of different rows are different, and all are in the table. *)
LEMMA PlaceInTable ==
    ASSUME NEW o \in Nat, NEW w \in Nat, NEW x \in 0..(o - 1), NEW y \in 0..(w - 1)
    PROVE  x * w + y \in 0..(o * w - 1)
<1>1. x * w \in Nat /\ o * w \in Nat /\ (o - 1) * w = o * w - w OBVIOUS
<1>2. x * w <= (o - 1) * w OBVIOUS
<1> QED BY <1>1, <1>2

(* Rows of a table of some width begin at different places. *)
LEMMA OtherRow ==
    ASSUME NEW w \in Nat, w >= 1, NEW x \in Nat, NEW z \in Nat, x # z
    PROVE  x * w # z * w
<1>1. CASE x < z
  <2>1. (x + 1) * w <= z * w BY <1>1
  <2>2. (x + 1) * w = x * w + w /\ x * w \in Nat /\ z * w \in Nat OBVIOUS
  <2> QED BY <2>1, <2>2
<1>2. CASE z < x
  <2>1. (z + 1) * w <= x * w BY <1>2
  <2>2. (z + 1) * w = z * w + w /\ x * w \in Nat /\ z * w \in Nat OBVIOUS
  <2> QED BY <2>1, <2>2
<1> QED BY <1>1, <1>2

(* Links between two different satellites below n. *)
LinksAmong(n) == {p \in (0..(n - 1)) \X (0..(n - 1)) : p[1] # p[2]}

(* The links of a shell join different satellites of it. *)
LEMMA GridLinks ==
    ASSUME NEW shell \in [orbits : Nat, spo : Nat], shell.orbits >= 3, shell.spo >= 3,
           NEW offset \in Nat
    PROVE  /\ Satellites(shell) \in Nat
           /\ PlusGridIsls(shell, offset) \in Seq(LinksAmong(offset + Satellites(shell)))
<1> DEFINE Id(i, j) == offset + ((i % shell.orbits) * shell.spo) + (j % shell.spo)
           Link(a, b) == IF a < b THEN <<a, b>> ELSE <<b, a>>
           I(n) == ((n - 1) \div 2) \div shell.spo
           J(n) == ((n - 1) \div 2) % shell.spo
           total == offset + Satellites(shell)
<1>1. PICK o \in Nat, w \in Nat : o = shell.orbits /\ w = shell.spo /\ o >= 3 /\ w >= 3
  OBVIOUS
<1>2. Satellites(shell) = o * w /\ o * w \in Nat BY <1>1 DEF Satellites
<1>3. ASSUME NEW i \in Nat, NEW j \in Nat
      PROVE  Id(i, j) \in 0..(total - 1)
  <2>1. i % o \in 0..(o - 1) /\ j % w \in 0..(w - 1) BY <1>1
  <2>2. PICK x \in 0..(o - 1), y \in 0..(w - 1) : x = i % o /\ y = j % w BY <2>1
  <2>3. x * w + y \in 0..(o * w - 1) BY <2>2, PlaceInTable
  <2>4. x * w \in Nat BY <2>2
  <2>5. offset + (x * w) + y \in 0..(offset + o * w - 1) BY <1>2, <2>3, <2>4
  <2> QED BY <1>1, <1>2, <2>2, <2>5
<1>4. ASSUME NEW i \in Nat, NEW j \in Nat
      PROVE  Id(i, j) # Id(i, j + 1) /\ Id(i, j) # Id(i + 1, j)
  <2>01. o >= 2 /\ w >= 2 BY <1>1
  <2>02. i % o \in 0..(o - 1) /\ (i + 1) % o \in 0..(o - 1) /\ i % o # (i + 1) % o
    BY ONLY i \in Nat, o \in Nat, <2>01, NextRemainder
  <2>03. j % w \in 0..(w - 1) /\ (j + 1) % w \in 0..(w - 1) /\ j % w # (j + 1) % w
    BY ONLY j \in Nat, w \in Nat, <2>01, NextRemainder
  <2>1. /\ i % o \in 0..(o - 1) /\ (i + 1) % o \in 0..(o - 1) /\ i % o # (i + 1) % o
        /\ j % w \in 0..(w - 1) /\ (j + 1) % w \in 0..(w - 1) /\ j % w # (j + 1) % w
    BY <2>02, <2>03
  <2>2. PICK x \in 0..(o - 1), z \in 0..(o - 1) : x = i % o /\ z = (i + 1) % o BY <2>1
  <2>3. PICK y \in 0..(w - 1), v \in 0..(w - 1) : y = j % w /\ v = (j + 1) % w BY <2>1
  <2>4. x # z /\ y # v BY <2>1, <2>2, <2>3
  <2>5. x * w # z * w BY <1>1, <2>4, OtherRow
  <2>6. x * w \in Nat /\ z * w \in Nat OBVIOUS
  <2>7. offset + (x * w) + y # offset + (x * w) + v /\ offset + (x * w) + y # offset + (z * w) + y
    BY <2>4, <2>5, <2>6
  <2>8. Id(i, j) = offset + (x * w) + y /\ Id(i, j + 1) = offset + (x * w) + v
        /\ Id(i + 1, j) = offset + (z * w) + y
    BY <1>1, <2>2, <2>3
  <2> HIDE DEF Id
  <2> QED BY <2>7, <2>8
<1> HIDE DEF Id
<1>5. ASSUME NEW a \in 0..(total - 1), NEW b \in 0..(total - 1), a # b
      PROVE  Link(a, b) \in LinksAmong(total)
  <2> HIDE DEF total
  <2>1. <<a, b>> \in LinksAmong(total) /\ <<b, a>> \in LinksAmong(total) BY <1>5 DEF LinksAmong
  <2> QED BY <2>1
<1> HIDE DEF Link
<1>6. ASSUME NEW n \in 1..(2 * (o * w)) PROVE I(n) \in Nat /\ J(n) \in Nat
  <2>1. (n - 1) \div 2 \in Nat BY <1>2
  <2>2. PICK k \in Nat : k = (n - 1) \div 2 BY <2>1
  <2>3. k \div w \in Nat /\ k % w \in Nat BY <1>1
  <2> QED BY <1>1, <2>2, <2>3
<1>7. PlusGridIsls(shell, offset) =
        [n \in 1..2 * Satellites(shell) |->
            IF n % 2 = 1 THEN Link(Id(I(n), J(n)), Id(I(n), J(n) + 1))
                         ELSE Link(Id(I(n), J(n)), Id(I(n) + 1, J(n)))]
  BY DEF PlusGridIsls, Link, Id
<1> HIDE DEF I, J
<1>8. ASSUME NEW n \in 1..2 * Satellites(shell)
      PROVE  PlusGridIsls(shell, offset)[n] \in LinksAmong(total)
  <2>1. n \in 1..(2 * (o * w)) BY <1>2
  <2>2. PICK i \in Nat, j \in Nat : i = I(n) /\ j = J(n) BY <1>6, <2>1
  <2>3. i + 1 \in Nat /\ j + 1 \in Nat OBVIOUS
  <2>4. Link(Id(i, j), Id(i, j + 1)) \in LinksAmong(total)
    BY <1>3, <1>4, <1>5, <2>3
  <2>5. Link(Id(i, j), Id(i + 1, j)) \in LinksAmong(total)
    BY <1>3, <1>4, <1>5, <2>3
  <2> QED BY <1>7, <2>2, <2>4, <2>5
<1>9. 2 * Satellites(shell) \in Nat BY <1>2
<1> HIDE DEF total
<1>10. PlusGridIsls(shell, offset) \in [1..2 * Satellites(shell) -> LinksAmong(total)]
  BY <1>7, <1>8
<1>11. PlusGridIsls(shell, offset) \in Seq(LinksAmong(total)) BY <1>9, <1>10
<1> QED BY <1>2, <1>11 DEF total

(* A running total does not fall. *)
LEMMA TotalGrows ==
    ASSUME NEW list \in Seq(Nat)
    PROVE  \A i \in 0..Len(list) : Running(list)[i] <= Running(list)[Len(list)]
<1> DEFINE n == Len(list)
           r == Running(list)
           T == {j \in 0..n : r[n - j] > r[n]}
<1>1. /\ n \in Nat /\ r \in [0..n -> Nat] /\ \A i \in 1..n : r[i] = r[i - 1] + list[i]
      /\ \A i \in 1..n : list[i] \in Nat
  BY RunningTotal
<1> HIDE DEF n, r
<1>2. T = {}
  <2> SUFFICES ASSUME T # {} PROVE FALSE OBVIOUS
  <2>1. PICK j \in T : \A l \in T : j <= l
    <3>1. T \subseteq Nat OBVIOUS
    <3> HIDE DEF T
    <3> QED BY <3>1, LeastElement
  <2>2. j \in 0..n /\ r[n - j] > r[n] OBVIOUS
  <2>3. j # 0
    <3> SUFFICES ASSUME j = 0 PROVE FALSE OBVIOUS
    <3>1. n - j = n /\ n \in 0..n BY <1>1
    <3>2. r[n] \in Nat BY <1>1, <3>1
    <3> QED BY <2>2, <3>1, <3>2
  <2>4. j - 1 \in 0..n /\ ~ (j <= j - 1) /\ n - (j - 1) \in 1..n /\ (n - (j - 1)) - 1 = n - j
        /\ n - j \in 0..n /\ n \in 0..n
    BY <1>1, <2>2, <2>3
  <2>5. PICK k \in 1..n : k = n - (j - 1) /\ k - 1 = n - j BY <2>4
  <2>6. r[k] = r[k - 1] + list[k] /\ k \in 0..n BY <1>1
  <2>7. r[k - 1] \in Nat /\ r[k] \in Nat /\ list[k] \in Nat /\ r[n] \in Nat
    BY <1>1, <2>4, <2>5, <2>6
  <2>8. r[k] > r[n]
    <3>1. r[k - 1] > r[n] BY <2>2, <2>5
    <3> QED BY <2>6, <2>7, <3>1
  <2>9. j - 1 \in T BY <2>4, <2>5, <2>8
  <2> HIDE DEF T
  <2> QED BY <2>1, <2>4, <2>9
<1>3. ASSUME NEW i \in 0..n PROVE r[i] <= r[n]
  <2>1. n - i \in 0..n /\ n - (n - i) = i /\ n \in 0..n BY <1>1
  <2>2. ~ (r[n - (n - i)] > r[n]) BY <1>2, <2>1
  <2>3. r[i] \in Nat /\ r[n] \in Nat BY <1>1, <2>1
  <2> QED BY <2>1, <2>2, <2>3
<1> QED BY <1>3 DEF n, r

(* A function on 1..n is a list. *)
LEMMA ListOf ==
    ASSUME NEW S, NEW n \in Nat, NEW f \in [1..n -> S]
    PROVE  f \in Seq(S) /\ Len(f) = n
OBVIOUS

(* A member of a list is one of what it is a list of. *)
LEMMA ElementOf ==
    ASSUME NEW S, NEW s \in Seq(S), NEW k \in 1..Len(s)
    PROVE  s[k] \in S
OBVIOUS

(* Satellites are numbered shell by shell, without gaps. *)
LEMMA Offsets ==
    ASSUME NEW shells \in Seq([orbits : Nat, spo : Nat])
    PROVE  /\ Total(shells) \in Nat
           /\ \A k \in 1..Len(shells) :
                 /\ Offset(shells, k) \in Nat /\ Satellites(shells[k]) \in Nat
                 /\ Offset(shells, k) + Satellites(shells[k]) <= Total(shells)
<1> DEFINE n == Len(shells)
           sizes == [i \in DOMAIN shells |-> Satellites(shells[i])]
           r == Running(sizes)
<1>1. n \in Nat /\ DOMAIN shells = 1..n OBVIOUS
<1>2. ASSUME NEW i \in 1..n PROVE Satellites(shells[i]) \in Nat
  <2>0. shells[i] \in [orbits : Nat, spo : Nat] BY ElementOf
  <2>1. PICK s \in [orbits : Nat, spo : Nat] : s = shells[i] BY <2>0
  <2>2. PICK o \in Nat, w \in Nat : o = s.orbits /\ w = s.spo OBVIOUS
  <2>3. o * w \in Nat OBVIOUS
  <2> QED BY <2>1, <2>2, <2>3 DEF Satellites
<1>3. sizes \in Seq(Nat) /\ Len(sizes) = n /\ \A i \in 1..n : sizes[i] = Satellites(shells[i])
  <2>1. sizes \in [1..n -> Nat] BY <1>1, <1>2
  <2>2. \A i \in 1..n : sizes[i] = Satellites(shells[i]) BY <1>1
  <2> HIDE DEF sizes, n
  <2> QED BY <1>1, <2>1, <2>2
<1>4. \A k : Offset(shells, k) = r[k - 1] BY DEF Offset
<1> HIDE DEF sizes
<1>5. /\ r \in [0..n -> Nat] /\ (\A i \in 1..n : r[i] = r[i - 1] + sizes[i])
      /\ \A i \in 0..n : r[i] <= r[n]
  <2> HIDE DEF n
  <2> QED BY <1>3, RunningTotal, TotalGrows
<1> HIDE DEF r, n
<1>6. Total(shells) = r[n]
  <2>1. (n + 1) - 1 = n BY <1>1
  <2> QED BY <1>4, <2>1 DEF Total, n
<1>7. Total(shells) \in Nat
  <2>1. n \in 0..n BY <1>1
  <2> QED BY <1>5, <1>6, <2>1
<1>8. ASSUME NEW k \in 1..n
      PROVE  /\ Offset(shells, k) \in Nat /\ Satellites(shells[k]) \in Nat
             /\ Offset(shells, k) + Satellites(shells[k]) <= Total(shells)
  <2>1. k - 1 \in 0..n /\ k \in 0..n BY <1>1
  <2>2. r[k] = Offset(shells, k) + Satellites(shells[k]) BY <1>3, <1>4, <1>5
  <2>3. r[k] <= r[n] BY <1>5, <2>1
  <2>4. r[k - 1] \in Nat BY <1>5, <2>1
  <2> QED BY <1>2, <1>4, <1>6, <2>2, <2>3, <2>4
<1> QED BY <1>7, <1>8 DEF n

(* What gen_state.py writes for a network. *)
LEMMA GeneratedFiles ==
    ASSUME NEW n \in Networks, NEW f, f = Generate(n.shells, n.stations)
    PROVE  /\ f \in Files /\ f.header[1] * f.header[2] = f.blocks
           /\ f.isls \in Seq(LinksAmong(f.blocks))
           /\ \A i \in DOMAIN f.stations : f.stations[i] = i - 1
           /\ Len(f.gsl) = f.blocks + Len(f.stations)
           /\ \A i \in 1..(f.blocks + Len(f.stations)) : f.gsl[i] = [node |-> i - 1, ifs |-> 1]
<1> DEFINE shells == n.shells
           total == Total(shells)
           A == LinksAmong(total)
           ss == [k \in DOMAIN shells |-> PlusGridIsls(shells[k], Offset(shells, k))]
<1>1. /\ shells \in Seq([orbits : Nat, spo : Nat]) /\ n.stations \in Nat
      /\ \A k \in 1..Len(shells) : shells[k].orbits >= 3 /\ shells[k].spo >= 3
  BY NetworksAssumption DEF Accepts
<1> HIDE DEF shells
<1>2. /\ total \in Nat
      /\ \A k \in 1..Len(shells) :
            /\ Offset(shells, k) \in Nat /\ Satellites(shells[k]) \in Nat
            /\ Offset(shells, k) + Satellites(shells[k]) <= total
  BY <1>1, Offsets
<1>3. ASSUME NEW k \in 1..Len(shells) PROVE ss[k] \in Seq(A)
  <2>1. PICK s \in [orbits : Nat, spo : Nat] : s = shells[k] /\ s.orbits >= 3 /\ s.spo >= 3
    <3>1. shells[k] \in [orbits : Nat, spo : Nat] BY <1>1, ElementOf
    <3> QED BY <1>1, <3>1
  <2>2. PICK o \in Nat : o = Offset(shells, k) BY <1>2
  <2>3. Satellites(s) \in Nat /\ PlusGridIsls(s, o) \in Seq(LinksAmong(o + Satellites(s)))
    BY ONLY s \in [orbits : Nat, spo : Nat], o \in Nat, <2>1, GridLinks
  <2>4. o + Satellites(s) <= total BY <1>2, <2>1, <2>2
  <2> HIDE DEF total
  <2>6. LinksAmong(o + Satellites(s)) \subseteq A
    <3>1. \A x, y : 0..(x - 1) \subseteq 0..(y - 1) => LinksAmong(x) \subseteq LinksAmong(y)
      BY DEF LinksAmong
    <3>2. PICK x : x = o + Satellites(s) OBVIOUS
    <3>3. 0..(x - 1) \subseteq 0..(total - 1) BY <1>2, <2>3, <2>4, <3>2
    <3>4. LinksAmong(x) \subseteq LinksAmong(total) BY <3>1, <3>3
    <3> QED BY <3>2, <3>4
  <2>7. PlusGridIsls(s, o) \in Seq(A)
    <3> HIDE DEF A
    <3>1. \A B, C : B \subseteq C => \A p \in Seq(B) : p \in Seq(C)
      <4> SUFFICES ASSUME NEW B, NEW C, B \subseteq C, NEW p \in Seq(B) PROVE p \in Seq(C) OBVIOUS
      <4>1. p \in [1..Len(p) -> C] /\ Len(p) \in Nat OBVIOUS
      <4> QED BY <4>1
    <3> QED BY <2>3, <2>6, <3>1
  <2>8. ss[k] = PlusGridIsls(s, o) BY <1>1, <2>1, <2>2
  <2> QED BY <2>7, <2>8
<1>4. ss \in Seq(Seq(A)) /\ DOMAIN ss = 1..Len(shells)
  <2>1. DOMAIN shells = 1..Len(shells) /\ Len(shells) \in Nat BY <1>1
  <2>2. DOMAIN ss = 1..Len(shells) BY <2>1
  <2>3. ss = [k \in 1..Len(shells) |-> ss[k]] BY <2>1
  <2> HIDE DEF ss, A
  <2>4. ss \in [1..Len(shells) -> Seq(A)] BY <1>3, <2>3
  <2> QED BY <2>1, <2>2, <2>4
<1> HIDE DEF A, ss, total
<1>5. FlattenSeq(ss) \in Seq(A)
  <2>1. PICK B : B = A OBVIOUS
  <2>2. PICK s \in Seq(Seq(B)) : s = ss BY <1>4, <2>1
  <2>3. PICK g : Joined(B, s, g) BY ListsJoined
  <2>4. Len(s) \in 0..Len(s) OBVIOUS
  <2> QED BY <2>1, <2>2, <2>3, <2>4 DEF Joined
<1>6. /\ f.header = <<1, total>> /\ f.blocks = total /\ f.isls = FlattenSeq(ss)
      /\ f.stations = [i \in 1..n.stations |-> i - 1]
      /\ f.gsl = [i \in 1..(total + n.stations) |-> [node |-> i - 1, ifs |-> 1]]
      /\ f = [header |-> f.header, blocks |-> f.blocks, isls |-> f.isls, stations |-> f.stations,
              gsl |-> f.gsl]
  BY DEF Generate, WriteShells, SimpleGslInterfacesInfo, ss, total, shells
<1>7. f.stations \in Seq(Nat) /\ Len(f.stations) = n.stations
      /\ \A i \in DOMAIN f.stations : f.stations[i] = i - 1
  <2>1. f.stations \in [1..n.stations -> Nat] BY <1>1, <1>6
  <2>2. f.stations \in Seq(Nat) /\ Len(f.stations) = n.stations BY <1>1, <2>1, ListOf
  <2> QED BY <1>6, <2>2
<1>8. f.gsl \in Seq([node : Nat, ifs : Nat]) /\ Len(f.gsl) = total + n.stations
      /\ \A i \in 1..(total + n.stations) : f.gsl[i] = [node |-> i - 1, ifs |-> 1]
  <2>1. \A i \in 1..(total + n.stations) : [node |-> i - 1, ifs |-> 1] \in [node : Nat, ifs : Nat]
    BY <1>1, <1>2
  <2>2. total + n.stations \in Nat BY <1>1, <1>2
  <2>3. f.gsl \in [1..(total + n.stations) -> [node : Nat, ifs : Nat]] BY <1>6, <2>1
  <2>4. f.gsl \in Seq([node : Nat, ifs : Nat]) /\ Len(f.gsl) = total + n.stations
    BY <2>2, <2>3, ListOf
  <2> QED BY <1>6, <2>4
<1>9. f.isls \in Seq(Nat \X Nat)
  <2>1. A \subseteq Nat \X Nat BY <1>2 DEF A, LinksAmong
  <2>2. PICK p \in Seq(A) : p = f.isls BY <1>5, <1>6
  <2>3. p \in [1..Len(p) -> Nat \X Nat] /\ Len(p) \in Nat BY <2>1
  <2> QED BY <2>2, <2>3
<1>10. f.header \in Nat \X Nat /\ f.header[1] * f.header[2] = f.blocks BY <1>2, <1>6
<1>11. f \in Files BY <1>2, <1>6, <1>7, <1>8, <1>9, <1>10 DEF Files
<1> QED BY <1>5, <1>6, <1>7, <1>8, <1>10, <1>11 DEF A

-----------------------------------------------------------------------------
(***************************************************************************)
(* The inductive invariant of TopologySatelliteNetwork: devices are        *)
(* numbered by the links of the file, interfaces by the devices of their   *)
(* node.                                                                   *)
(***************************************************************************)
(* The devices of a network of n nodes, and those of one node. *)
Devices(n) == [node : 0..(n - 1), channel : Nat, ip : Nat \X Nat]
OfNode(list, n) == {m \in DOMAIN list : list[m].node = n}

Done == Len(files.isls) - Len(left)

(* The devices so far: two for each link that has been read, in the order  *)
(* of the file, then those on the channel all share.                       *)
DevicesInv ==
    /\ devices \in Seq(Devices(allNodes)) /\ Len(devices) >= 2 * Done
    /\ \A i \in 1..Done :
         /\ devices[2 * i - 1] = [node |-> files.isls[i][1], channel |-> i, ip |-> <<i, 1>>]
         /\ devices[2 * i] = [node |-> files.isls[i][2], channel |-> i, ip |-> <<i, 2>>]
    /\ \A m \in DOMAIN devices :
         m > 2 * Done => devices[m].channel = Gsl /\ devices[m].ip = <<m - Done, 1>>

(* The interfaces of a node are its devices, in order. *)
InterfacesInv ==
    interfaces = [n \in 0..(allNodes - 1) |-> Ascending(OfNode(devices, n))]

(* What the checks of a line leave: the two interfaces are on the shared   *)
(* channel, or the two ends of one link.                                   *)
Follows(from, e) ==
    /\ e[1] \in 0..(allNodes - 1)
    /\ e[2] \in 1..Len(interfaces[from]) /\ e[3] \in 1..Len(interfaces[e[1]])
    /\ IF devices[interfaces[from][e[2]]].channel = Gsl
       THEN devices[interfaces[e[1]][e[3]]].channel = Gsl
       ELSE OtherEnd(from, interfaces[from][e[2]]) = interfaces[e[1]][e[3]]

NetworkInv ==
    /\ files \in Files
    /\ generated => \E n \in Networks : files = Generate(n.shells, n.stations)
    /\ phase \in {"tles", "stations", "isls", "arp", "running", "failed", "undefined"}
    /\ phase \in {"tles", "stations"} => devices = <<>> /\ network = 1
    /\ phase \notin {"tles", "failed", "undefined"} => satellites = files.blocks
    /\ phase \in {"isls", "arp", "running"} =>
         /\ allNodes = satellites + Len(files.stations)
         /\ left \in Seq(Nat \X Nat) /\ Len(left) <= Len(files.isls)
         /\ \A i \in 1..Len(left) : left[i] = files.isls[Done + i]
         /\ DevicesInv /\ InterfacesInv
    /\ phase = "isls" => Len(devices) = 2 * Done /\ network = Done + 1
    /\ phase \in {"arp", "running"} =>
         /\ left = <<>>
         /\ generated => /\ Len(devices) = 2 * Done + allNodes
                         /\ \A n \in 0..(allNodes - 1) : devices[2 * Done + n + 1].node = n
    /\ phase = "running" =>
         /\ arp = ArpOf(0..(allNodes - 1))
         /\ DOMAIN nextHop = (0..(allNodes - 1)) \X (0..(allNodes - 1))
         /\ \A p \in DOMAIN nextHop : nextHop[p][1] >= 0 => Follows(p[1], nextHop[p])
    /\ generated => phase \notin {"failed", "undefined"}

(* The devices of a node are finitely many numbers. *)
LEMMA OfNodeIsFinite ==
    ASSUME NEW D, NEW list \in Seq(D), NEW n
    PROVE  OfNode(list, n) \subseteq 1..Len(list) /\ OfNode(list, n) \subseteq Nat
           /\ IsFiniteSet(OfNode(list, n))
<1>1. Len(list) \in Nat /\ DOMAIN list = 1..Len(list) OBVIOUS
<1>2. OfNode(list, n) \in SUBSET (1..Len(list)) BY <1>1 DEF OfNode
<1>3. IsFiniteSet(1..Len(list))
  <2>1. 1 \in Int /\ Len(list) \in Int BY <1>1
  <2> QED BY <2>1, FS_Interval
<1>4. IsFiniteSet(OfNode(list, n)) BY <1>2, <1>3, FS_Subset
<1> QED BY <1>1, <1>2, <1>4

(* Devices are added behind all others, also among the interfaces of their nodes. *)
LEMMA Installed ==
    ASSUME NEW N \in Nat, NEW D, devices \in Seq(D), NEW new \in Seq(D), Install(new),
           interfaces = [n \in 0..(N - 1) |-> Ascending(OfNode(devices, n))]
    PROVE  /\ devices' \in Seq(D) /\ Len(devices') = Len(devices) + Len(new)
           /\ \A i \in 1..Len(devices) : devices'[i] = devices[i]
           /\ \A i \in 1..Len(new) : devices'[Len(devices) + i] = new[i]
           /\ interfaces' = [n \in 0..(N - 1) |-> Ascending(OfNode(devices', n))]
<1>1. /\ devices' = devices \o new
      /\ interfaces' = [n \in DOMAIN interfaces |->
           interfaces[n] \o Ascending({m \in DOMAIN devices' \ DOMAIN devices : devices'[m].node = n})]
  BY DEF Install
<1>2. PICK s \in Seq(D) : s = devices OBVIOUS
<1>3. PICK t \in Seq(D) : t = devices'
  <2>1. s \o new \in Seq(D) OBVIOUS
  <2> QED BY <1>1, <1>2, <2>1
<1>4. /\ Len(s) \in Nat /\ Len(new) \in Nat /\ Len(t) = Len(s) + Len(new)
      /\ \A i \in 1..Len(s) : t[i] = s[i]
      /\ \A i \in 1..Len(new) : t[Len(s) + i] = new[i]
  <2>1. t = s \o new BY <1>1, <1>2, <1>3
  <2>2. Len(s) \in Nat /\ Len(new) \in Nat /\ Len(t) = Len(s) + Len(new) BY <2>1, Concatenated
  <2>3. \A i \in 1..(Len(s) + Len(new)) : t[i] = IF i <= Len(s) THEN s[i] ELSE new[i - Len(s)]
    BY <2>1, Concatenated
  <2>4. ASSUME NEW i \in 1..Len(s) PROVE t[i] = s[i] BY <2>2, <2>3
  <2>5. ASSUME NEW i \in 1..Len(new) PROVE t[Len(s) + i] = new[i]
    <3>1. Len(s) + i \in 1..(Len(s) + Len(new)) /\ ~ (Len(s) + i <= Len(s)) /\ (Len(s) + i) - Len(s) = i
      BY <2>2
    <3> QED BY <2>3, <3>1
  <2> QED BY <2>2, <2>4, <2>5
<1>5. ASSUME NEW n \in 0..(N - 1) PROVE interfaces'[n] = Ascending(OfNode(t, n))
  <2> DEFINE S == OfNode(s, n)
             T == {m \in DOMAIN t \ DOMAIN s : t[m].node = n}
  <2>1. S \subseteq 1..Len(s) /\ S \subseteq Nat /\ IsFiniteSet(S) BY OfNodeIsFinite
  <2>2. OfNode(t, n) \subseteq 1..Len(t) /\ OfNode(t, n) \subseteq Nat /\ IsFiniteSet(OfNode(t, n))
    BY OfNodeIsFinite
  <2>3. DOMAIN s = 1..Len(s) /\ DOMAIN t = 1..Len(t) OBVIOUS
  <2>4. T \in SUBSET OfNode(t, n) BY DEF OfNode
  <2>5. T \subseteq Nat /\ IsFiniteSet(T)
    <3> HIDE DEF T
    <3> QED BY <2>2, <2>4, FS_Subset
  <2>6. \A x \in S : \A y \in T : x < y BY <1>4, <2>1, <2>3
  <2>7. S \cup T = OfNode(t, n)
    <3>1. DOMAIN s \subseteq DOMAIN t BY <1>4, <2>3
    <3>2. \A i \in DOMAIN s : t[i] = s[i] BY <1>4, <2>3
    <3> QED BY <3>1, <3>2 DEF OfNode
  <2>8. interfaces'[n] = Ascending(S) \o Ascending(T) BY <1>1, <1>2, <1>3
  <2> HIDE DEF S, T
  <2>9. Ascending(S) \o Ascending(T) = Ascending(S \cup T) BY <2>1, <2>5, <2>6, OrderJoined
  <2> QED BY <2>7, <2>8, <2>9
<1>6. DOMAIN interfaces' = 0..(N - 1) /\ interfaces' = [n \in DOMAIN interfaces' |-> interfaces'[n]]
  BY <1>1
<1>7. interfaces' = [n \in 0..(N - 1) |-> Ascending(OfNode(devices', n))]
  BY <1>3, <1>5, <1>6
<1> QED BY <1>2, <1>3, <1>4, <1>7

(* An interface has the device that many devices of its node are below. *)
LEMMA InterfaceFacts ==
    ASSUME DevicesInv, InterfacesInv, NEW n \in 0..(allNodes - 1)
    PROVE  /\ Len(interfaces[n]) = Cardinality(OfNode(devices, n)) /\ Len(interfaces[n]) \in Nat
           /\ \A i \in 1..Len(interfaces[n]) :
                 interfaces[n][i] \in DOMAIN devices /\ devices[interfaces[n][i]].node = n
           /\ \A m \in OfNode(devices, n) :
                 /\ Rank(OfNode(devices, n), m) + 1 \in 1..Len(interfaces[n])
                 /\ interfaces[n][Rank(OfNode(devices, n), m) + 1] = m
<1> DEFINE S == OfNode(devices, n)
<1>1. S \subseteq Nat /\ IsFiniteSet(S) BY OfNodeIsFinite DEF DevicesInv
<1>2. interfaces[n] = Ascending(S) BY DEF InterfacesInv
<1>3. \A m \in S : m \in DOMAIN devices /\ devices[m].node = n BY DEF OfNode
<1> HIDE DEF S
<1>4. /\ Len(Ascending(S)) = Cardinality(S)
      /\ \A i \in 1..Cardinality(S) : Ascending(S)[i] \in S
      /\ \A m \in S : Rank(S, m) + 1 \in 1..Cardinality(S) /\ Ascending(S)[Rank(S, m) + 1] = m
  BY <1>1, InOrder
<1>5. Cardinality(S) \in Nat BY <1>1, FS_CardinalityType
<1> QED BY <1>2, <1>3, <1>4, <1>5 DEF S

(* What is known of the two devices of a link. *)
LEMMA LinkDevices ==
    ASSUME DevicesInv, NEW i \in 1..Done
    PROVE  /\ devices[2 * i - 1].node = files.isls[i][1] /\ devices[2 * i].node = files.isls[i][2]
           /\ devices[2 * i - 1].channel = i /\ devices[2 * i].channel = i
           /\ devices[2 * i - 1].ip = <<i, 1>> /\ devices[2 * i].ip = <<i, 2>>
<1>1. /\ devices[2 * i - 1] = [node |-> files.isls[i][1], channel |-> i, ip |-> <<i, 1>>]
      /\ devices[2 * i] = [node |-> files.isls[i][2], channel |-> i, ip |-> <<i, 2>>]
  BY DEF DevicesInv
<1> QED BY <1>1

(* What the list of devices says of a laser device: its link, and that the *)
(* link has two ends.                                                      *)
LEMMA DeviceFacts ==
    ASSUME DevicesInv, Done \in Nat, NEW m \in DOMAIN devices
    PROVE  /\ devices[m].node \in 0..(allNodes - 1)
           /\ devices[m].channel # Gsl =>
                /\ devices[m].channel \in 1..Done
                /\ m \in {2 * devices[m].channel - 1, 2 * devices[m].channel}
           /\ devices[m].channel = Gsl => m > 2 * Done
<1>1. devices \in Seq(Devices(allNodes)) /\ Len(devices) \in Nat /\ DOMAIN devices = 1..Len(devices)
  BY DEF DevicesInv
<1>2. devices[m] \in Devices(allNodes) BY <1>1, ElementOf
<1>3. devices[m].node \in 0..(allNodes - 1) BY <1>2 DEF Devices
<1>4. m \in Nat BY <1>1
<1>5. CASE m > 2 * Done BY <1>3, <1>5 DEF DevicesInv
<1>6. CASE ~ (m > 2 * Done)
  <2>1. \E i \in 1..Done : m = 2 * i - 1 \/ m = 2 * i
    <3>1. m \in 1..(2 * Done) BY <1>1, <1>6
    <3>2. (m + 1) \div 2 \in 1..Done /\ (m = 2 * ((m + 1) \div 2) - 1 \/ m = 2 * ((m + 1) \div 2))
      BY <3>1
    <3> QED BY <3>2
  <2>2. PICK i \in 1..Done : m = 2 * i - 1 \/ m = 2 * i BY <2>1
  <2>3. devices[2 * i - 1].channel = i /\ devices[2 * i].channel = i BY LinkDevices
  <2>4. devices[m].channel = i BY <2>2, <2>3
  <2>5. i # Gsl BY DEF Gsl
  <2> QED BY <1>3, <2>2, <2>4, <2>5
<1> QED BY <1>5, <1>6

(* The two devices of a link are the only ones on its channel. *)
LEMMA LinkEnds ==
    ASSUME DevicesInv, Done \in Nat, NEW i \in 1..Done
    PROVE  /\ 2 * i - 1 \in DOMAIN devices /\ 2 * i \in DOMAIN devices
           /\ devices[2 * i - 1].node = files.isls[i][1] /\ devices[2 * i].node = files.isls[i][2]
           /\ {m \in DOMAIN devices : devices[m].channel = i} = {2 * i - 1, 2 * i}
<1>1. Len(devices) \in Nat /\ DOMAIN devices = 1..Len(devices) /\ Len(devices) >= 2 * Done
  BY DEF DevicesInv
<1>2. 2 * i - 1 \in DOMAIN devices /\ 2 * i \in DOMAIN devices BY <1>1
<1>3. /\ devices[2 * i - 1].node = files.isls[i][1] /\ devices[2 * i].node = files.isls[i][2]
      /\ devices[2 * i - 1].channel = i /\ devices[2 * i].channel = i
  BY LinkDevices
<1>4. ASSUME NEW m \in DOMAIN devices, devices[m].channel = i PROVE m \in {2 * i - 1, 2 * i}
  <2>1. devices[m].channel # Gsl BY <1>4 DEF Gsl
  <2> QED BY <1>4, <2>1, DeviceFacts
<1> QED BY <1>2, <1>3, <1>4

(* The other end of a link is found by the node of its first one. *)
LEMMA OtherEndFacts ==
    ASSUME DevicesInv, Done \in Nat, NEW i \in 1..Done, NEW mac \in {2 * i - 1, 2 * i}, NEW n
    PROVE  OtherEnd(n, mac) = IF files.isls[i][1] = n THEN 2 * i ELSE 2 * i - 1
<1> DEFINE ends == {m \in DOMAIN devices : devices[m].channel = devices[mac].channel}
           first == CHOOSE m \in ends : \A k \in ends : m <= k
           second == CHOOSE m \in ends : m # first
<1>1. /\ {m \in DOMAIN devices : devices[m].channel = i} = {2 * i - 1, 2 * i}
      /\ devices[2 * i - 1].node = files.isls[i][1]
  BY LinkEnds
<1>2. devices[mac].channel = i BY LinkDevices
<1>3. ends = {2 * i - 1, 2 * i} BY <1>1, <1>2
<1>4. OtherEnd(n, mac) = IF devices[first].node = n THEN second ELSE first BY DEF OtherEnd
<1> HIDE DEF ends
<1>5. first = 2 * i - 1
  <2>1. 2 * i - 1 \in ends /\ \A k \in ends : 2 * i - 1 <= k BY <1>3
  <2>2. first \in ends /\ \A k \in ends : first <= k BY <2>1
  <2> HIDE DEF first
  <2>3. first <= 2 * i - 1 /\ 2 * i - 1 <= first /\ first \in Int BY <1>3, <2>1, <2>2
  <2> QED BY <2>3
<1>6. second = 2 * i
  <2>1. \A m : m \in ends /\ m # first <=> m = 2 * i BY <1>3, <1>5
  <2> HIDE DEF first
  <2>2. second \in ends /\ second # first BY <2>1
  <2> QED BY <2>1, <2>2
<1> QED BY <1>1, <1>4, <1>5, <1>6

(* No two devices have one address. *)
LEMMA AddressesDiffer ==
    ASSUME DevicesInv, Done \in Nat
    PROVE  \A l, m \in DOMAIN devices : devices[l].ip = devices[m].ip => l = m
<1> SUFFICES ASSUME NEW l \in DOMAIN devices, NEW m \in DOMAIN devices, devices[l].ip = devices[m].ip
             PROVE  l = m
  OBVIOUS
<1>1. Len(devices) \in Nat /\ DOMAIN devices = 1..Len(devices) BY DEF DevicesInv
<1>2. ASSUME NEW k \in DOMAIN devices
      PROVE  \E x, y : /\ devices[k].ip = <<x, y>>
                       /\ \/ k > 2 * Done /\ x = k - Done /\ y = 1
                          \/ x \in 1..Done /\ k = 2 * x - 1 /\ y = 1
                          \/ x \in 1..Done /\ k = 2 * x /\ y = 2
  <2>1. CASE devices[k].channel = Gsl
    <3>1. k > 2 * Done BY <2>1, DeviceFacts
    <3>2. devices[k].ip = <<k - Done, 1>> BY <3>1 DEF DevicesInv
    <3> QED BY <3>1, <3>2
  <2>2. CASE devices[k].channel # Gsl
    <3>1. PICK i \in 1..Done : k = 2 * i - 1 \/ k = 2 * i BY <2>2, DeviceFacts
    <3>2. devices[2 * i - 1].ip = <<i, 1>> /\ devices[2 * i].ip = <<i, 2>> BY LinkDevices
    <3>3. CASE k = 2 * i - 1 BY <3>2, <3>3
    <3>4. CASE k = 2 * i BY <3>2, <3>4
    <3> QED BY <3>1, <3>3, <3>4
  <2> QED BY <2>1, <2>2
<1>3. l \in Nat /\ m \in Nat BY <1>1
<1>4. PICK x, y : /\ devices[l].ip = <<x, y>>
                  /\ \/ l > 2 * Done /\ x = l - Done /\ y = 1
                     \/ x \in 1..Done /\ l = 2 * x - 1 /\ y = 1
                     \/ x \in 1..Done /\ l = 2 * x /\ y = 2
  BY <1>2
<1>5. PICK u, v : /\ devices[m].ip = <<u, v>>
                  /\ \/ m > 2 * Done /\ u = m - Done /\ v = 1
                     \/ u \in 1..Done /\ m = 2 * u - 1 /\ v = 1
                     \/ u \in 1..Done /\ m = 2 * u /\ v = 2
  BY <1>2
<1>6. x = u /\ y = v
  <2>1. <<x, y>> = <<u, v>> BY <1>4, <1>5
  <2> QED BY ONLY <2>1
<1> QED BY <1>3, <1>4, <1>5, <1>6

-----------------------------------------------------------------------------
(***************************************************************************)
(* Where a packet arrives that an entry directs.                           *)
(***************************************************************************)
(* The links of the file are those done and those left. *)
LEMMA DoneFacts ==
    ASSUME files \in Files, left \in Seq(Nat \X Nat), Len(left) <= Len(files.isls)
    PROVE  /\ files.isls \in Seq(Nat \X Nat) /\ Len(files.isls) \in Nat /\ Len(left) \in Nat
           /\ Done \in Nat /\ Done <= Len(files.isls) /\ (left = <<>> => Done = Len(files.isls))
<1>1. files.isls \in Seq(Nat \X Nat) BY DEF Files
<1>2. Len(files.isls) \in Nat /\ Len(left) \in Nat BY <1>1
<1>3. left = <<>> => Len(left) = 0 OBVIOUS
<1> QED BY <1>1, <1>2, <1>3 DEF Done

(* The cache has each device under its address. *)
LEMMA CacheFacts ==
    ASSUME DevicesInv, Done \in Nat, arp = ArpOf(0..(allNodes - 1)), NEW m \in DOMAIN devices
    PROVE  devices[m].ip \in DOMAIN arp /\ arp[devices[m].ip] = m
<1> DEFINE macs == {k \in DOMAIN devices : devices[k].node \in 0..(allNodes - 1)}
<1>1. macs = DOMAIN devices BY DeviceFacts
<1>2. arp = [ip \in {devices[k].ip : k \in macs} |-> CHOOSE k \in macs : devices[k].ip = ip]
  BY DEF ArpOf
<1> HIDE DEF macs
<1>3. devices[m].ip \in DOMAIN arp /\ arp[devices[m].ip] = CHOOSE k \in macs : devices[k].ip = devices[m].ip
  BY <1>1, <1>2
<1>4. \A k \in macs : devices[k].ip = devices[m].ip => k = m BY <1>1, AddressesDiffer
<1>5. m \in macs BY <1>1
<1>6. (CHOOSE k \in macs : devices[k].ip = devices[m].ip) = m BY <1>4, <1>5
<1> QED BY <1>3, <1>6

(* Packets arrive where an entry that follows the checks says. *)
LEMMA EntryLeads ==
    ASSUME DevicesInv, InterfacesInv, Done \in Nat, arp = ArpOf(0..(allNodes - 1)),
           NEW n \in 0..(allNodes - 1), NEW t, NEW e, e = nextHop[<<n, t>>], Follows(n, e)
    PROVE  \E m \in Receivers(n, Decide(n, t)) :
              devices[m].node = e[1] /\ (n # e[1] => m = interfaces[e[1]][e[3]])
<1> DEFINE mac == interfaces[n][e[2]]
           hop == interfaces[e[1]][e[3]]
<1>1. /\ e[1] \in 0..(allNodes - 1)
      /\ e[2] \in 1..Len(interfaces[n]) /\ e[3] \in 1..Len(interfaces[e[1]])
      /\ IF devices[mac].channel = Gsl THEN devices[hop].channel = Gsl ELSE OtherEnd(n, mac) = hop
  BY DEF Follows
<1>2. mac \in DOMAIN devices /\ devices[mac].node = n BY <1>1, InterfaceFacts
<1>3. hop \in DOMAIN devices /\ devices[hop].node = e[1] BY <1>1, InterfaceFacts
<1>4. Decide(n, t) = [if |-> e[2], gateway |-> devices[hop].ip] BY DEF Decide
<1>5. Receivers(n, Decide(n, t)) =
        IF devices[mac].channel = Gsl
        THEN {m \in DOMAIN devices : /\ devices[m].channel = Gsl
                                     /\ devices[hop].ip \in DOMAIN arp /\ arp[devices[hop].ip] = m}
        ELSE {m \in DOMAIN devices \ {mac} : devices[m].channel = devices[mac].channel}
  BY <1>4 DEF Receivers
<1> HIDE DEF mac, hop
<1>6. CASE devices[mac].channel = Gsl
  <2>1. devices[hop].channel = Gsl BY <1>1, <1>6
  <2>2. devices[hop].ip \in DOMAIN arp /\ arp[devices[hop].ip] = hop BY <1>3, CacheFacts
  <2>3. hop \in Receivers(n, Decide(n, t)) BY <1>3, <1>5, <1>6, <2>1, <2>2
  <2> QED BY <1>3, <2>3 DEF hop
<1>7. CASE devices[mac].channel # Gsl
  <2>1. PICK i \in 1..Done : i = devices[mac].channel /\ mac \in {2 * i - 1, 2 * i}
    BY <1>2, <1>7, DeviceFacts
  <2>2. /\ {m \in DOMAIN devices : devices[m].channel = i} = {2 * i - 1, 2 * i}
        /\ devices[2 * i - 1].node = files.isls[i][1] /\ devices[2 * i].node = files.isls[i][2]
    BY LinkEnds
  <2>3. Receivers(n, Decide(n, t)) = {2 * i - 1, 2 * i} \ {mac} BY <1>5, <1>7, <2>1, <2>2
  <2>4. hop = IF files.isls[i][1] = n THEN 2 * i ELSE 2 * i - 1
    BY <1>1, <1>7, <2>1, OtherEndFacts
  <2>5. 2 * i - 1 # 2 * i OBVIOUS
  <2>6. CASE hop # mac
    <3>1. hop \in Receivers(n, Decide(n, t)) BY <2>3, <2>4, <2>6
    <3> QED BY <1>3, <3>1 DEF hop
  <2>7. CASE hop = mac
    <3>1. files.isls[i][1] = n /\ mac = 2 * i BY <1>2, <2>1, <2>2, <2>4, <2>7
    <3>2. 2 * i - 1 \in Receivers(n, Decide(n, t)) BY <2>3, <2>5, <3>1
    <3>3. e[1] = n /\ devices[2 * i - 1].node = n BY <1>2, <1>3, <2>2, <2>7, <3>1
    <3> QED BY <3>2, <3>3
  <2> QED BY <2>6, <2>7
<1> QED BY <1>6, <1>7

(* Every entry of a network is one that follows the checks. *)
LEMMA InvEntriesLead == NetworkInv => EntriesLeadToNextHop
<1> SUFFICES ASSUME NetworkInv, phase = "running",
                    NEW p \in DOMAIN nextHop, nextHop[p][1] >= 0
             PROVE  \E m \in Receivers(p[1], Decide(p[1], p[2])) :
                      /\ devices[m].node = nextHop[p][1]
                      /\ p[1] # nextHop[p][1] => m = interfaces[nextHop[p][1]][nextHop[p][3]]
  BY DEF EntriesLeadToNextHop
<1>1. /\ files \in Files /\ left \in Seq(Nat \X Nat) /\ Len(left) <= Len(files.isls)
      /\ DevicesInv /\ InterfacesInv /\ arp = ArpOf(0..(allNodes - 1))
      /\ DOMAIN nextHop = (0..(allNodes - 1)) \X (0..(allNodes - 1))
      /\ Follows(p[1], nextHop[p])
  BY DEF NetworkInv
<1>2. Done \in Nat BY <1>1, DoneFacts
<1>3. p[1] \in 0..(allNodes - 1) /\ p = <<p[1], p[2]>> BY <1>1
<1> QED BY <1>1, <1>2, <1>3, EntryLeads

-----------------------------------------------------------------------------
(***************************************************************************)
(* Building the network keeps the invariant.                               *)
(***************************************************************************)
(* The devices on the shared channel, one for each interface asked for. *)
LEMMA GroundDevices ==
    ASSUME allNodes \in Nat, network \in Nat, network >= 1,
           NEW info \in Seq([node : Nat, ifs : Nat]), Len(info) >= allNodes
    PROVE  /\ GslDevices(info) \in Seq(Devices(allNodes))
           /\ \A i \in 1..Len(GslDevices(info)) :
                 GslDevices(info)[i].channel = Gsl /\ GslDevices(info)[i].ip = <<network + i - 1, 1>>
<1> DEFINE A == 0..(allNodes - 1)
           ss == [n \in 1..allNodes |-> [j \in 1..info[n].ifs |-> n - 1]]
           owners == FlattenSeq(ss)
           d == GslDevices(info)
<1>1. ASSUME NEW n \in 1..allNodes PROVE ss[n] \in Seq(A)
  <2>1. n \in 1..Len(info)
    <3>1. Len(info) \in Nat OBVIOUS
    <3> QED BY <3>1
  <2>2. info[n] \in [node : Nat, ifs : Nat] BY <2>1, ElementOf
  <2>3. PICK k \in Nat : k = info[n].ifs BY <2>2
  <2>4. n - 1 \in A OBVIOUS
  <2>5. [j \in 1..k |-> n - 1] \in [1..k -> A] BY <2>4
  <2> HIDE DEF A
  <2>6. [j \in 1..k |-> n - 1] \in Seq(A) BY <2>5, ListOf
  <2> QED BY <2>3, <2>6
<1>2. ss \in Seq(Seq(A))
  <2>1. ss = [n \in 1..allNodes |-> ss[n]] OBVIOUS
  <2> HIDE DEF A, ss
  <2>2. ss \in [1..allNodes -> Seq(A)] BY <1>1, <2>1
  <2> QED BY <2>2, ListOf
<1>3. owners \in Seq(A)
  <2>1. PICK B : B = A OBVIOUS
  <2> HIDE DEF A, ss
  <2>2. PICK s \in Seq(Seq(B)) : s = ss BY <1>2, <2>1
  <2>3. PICK g : Joined(B, s, g) BY ListsJoined
  <2>4. Len(s) \in 0..Len(s) OBVIOUS
  <2> QED BY <2>1, <2>2, <2>3, <2>4 DEF Joined
<1>4. d = [i \in DOMAIN owners |-> [node |-> owners[i], channel |-> Gsl, ip |-> <<network + i - 1, 1>>]]
  BY DEF GslDevices
<1> HIDE DEF A, owners, d
<1>5. PICK o \in Seq(A) : o = owners BY <1>3
<1>6. Len(o) \in Nat /\ DOMAIN o = 1..Len(o) OBVIOUS
<1>7. ASSUME NEW i \in 1..Len(o) PROVE d[i] \in Devices(allNodes)
  <2>1. o[i] \in A BY ElementOf
  <2>2. d[i] = [node |-> o[i], channel |-> Gsl, ip |-> <<network + i - 1, 1>>] BY <1>4, <1>5, <1>6
  <2>3. network + i - 1 \in Nat /\ Gsl \in Nat BY DEF Gsl
  <2>4. PICK x \in 0..(allNodes - 1), y \in Nat, z \in Nat : x = o[i] /\ y = network + i - 1 /\ z = Gsl
    BY <2>1, <2>3 DEF A
  <2>5. [node |-> x, channel |-> z, ip |-> <<y, 1>>] \in Devices(allNodes) BY DEF Devices
  <2> QED BY <2>2, <2>4, <2>5
<1>8. d \in [1..Len(o) -> Devices(allNodes)] BY <1>4, <1>5, <1>6, <1>7
<1>9. d \in Seq(Devices(allNodes)) /\ Len(d) = Len(o) BY <1>6, <1>8, ListOf
<1>10. \A i \in 1..Len(o) : d[i].channel = Gsl /\ d[i].ip = <<network + i - 1, 1>>
  BY <1>4, <1>5, <1>6
<1> QED BY <1>9, <1>10 DEF d

(* Lists of one member each are joined to the list of these members. *)
LEMMA SingletonsJoined ==
    ASSUME NEW A, NEW ss \in Seq(Seq(A)), \A i \in 1..Len(ss) : ss[i] = <<i - 1>>
    PROVE  Len(FlattenSeq(ss)) = Len(ss) /\ \A i \in 1..Len(ss) : FlattenSeq(ss)[i] = i - 1
<1>1. PICK g : Joined(A, ss, g) BY ListsJoined
<1> DEFINE n == Len(ss)
           Good(i) == Len(g[i]) = i /\ \A k \in 1..i : g[i][k] = k - 1
           T == {i \in 0..n : ~ Good(i)}
<1>2. /\ n \in Nat /\ (\A i \in 0..n : g[i] \in Seq(A)) /\ g[0] = <<>> /\ FlattenSeq(ss) = g[n]
      /\ \A i \in 1..n : g[i] = g[i - 1] \o ss[i]
      /\ \A i \in 1..n : ss[i] \in Seq(A) /\ ss[i] = <<i - 1>>
  <2>1. n \in Nat OBVIOUS
  <2>2. \A i \in 1..n : ss[i] \in Seq(A) BY ElementOf
  <2>3. g \in [0..n -> Seq(A)] /\ g[0] = <<>> /\ FlattenSeq(ss) = g[n]
        /\ \A i \in 1..n : g[i] = g[i - 1] \o ss[i]
    BY <1>1 DEF Joined
  <2> HIDE DEF n
  <2>4. \A i \in 0..n : g[i] \in Seq(A) BY <2>3
  <2>5. \A i \in 1..n : ss[i] = <<i - 1>> BY DEF n
  <2> QED BY <2>1, <2>2, <2>3, <2>4, <2>5
<1> HIDE DEF n
<1>3. ASSUME T # {} PROVE FALSE
  <2>1. PICK i \in T : \A l \in T : i <= l
    <3>1. T \subseteq Nat OBVIOUS
    <3> HIDE DEF T
    <3> QED BY <1>3, <3>1, LeastElement
  <2>2. i \in 0..n /\ ~ Good(i) OBVIOUS
  <2>3. Good(0) BY <1>2
  <2>4. i # 0
    <3> HIDE DEF Good
    <3> QED BY <2>2, <2>3
  <2>5. i \in 1..n /\ i - 1 \in 0..n /\ ~ (i <= i - 1) BY <1>2, <2>2, <2>4
  <2>6. Good(i - 1)
    <3> HIDE DEF Good
    <3>1. i - 1 \notin T
      <4> HIDE DEF T
      <4> QED BY <2>1, <2>5
    <3> QED BY <2>5, <3>1
  <2>7. PICK j \in 0..n : j = i - 1 BY <2>5
  <2>8. PICK p \in Seq(A) : p = g[j] BY <1>2
  <2>9. PICK q \in Seq(A) : q = ss[i] /\ q = <<j>> BY <1>2, <2>5, <2>7
  <2>10. g[i] = p \o q BY <1>2, <2>5, <2>7, <2>8, <2>9
  <2>11. Len(p) = j /\ \A k \in 1..j : p[k] = k - 1 BY <2>6, <2>7, <2>8
  <2>12. Len(q) = 1 /\ q[1] = j BY <2>9
  <2>13. Len(p \o q) = j + 1 /\ \A k \in 1..(j + 1) : (p \o q)[k] = IF k <= j THEN p[k] ELSE q[k - j]
    <3>1. Len(p \o q) = Len(p) + Len(q)
          /\ \A k \in 1..(Len(p) + Len(q)) : (p \o q)[k] = IF k <= Len(p) THEN p[k] ELSE q[k - Len(p)]
      BY ONLY p \in Seq(A), q \in Seq(A), Concatenated
    <3> QED BY ONLY <2>11, <2>12, <3>1
  <2>14. j + 1 = i BY <2>2, <2>7
  <2>15. ASSUME NEW k \in 1..i PROVE g[i][k] = k - 1
    <3>1. CASE k <= j BY <2>10, <2>11, <2>13, <2>14, <3>1
    <3>2. CASE ~ (k <= j)
      <4>1. k = i /\ k - j = 1 BY <2>14, <3>2
      <4>2. g[i][k] = j BY <2>10, <2>12, <2>13, <2>14, <3>2, <4>1
      <4> QED BY <2>7, <4>1, <4>2
    <3> QED BY <3>1, <3>2
  <2> QED BY <2>2, <2>10, <2>13, <2>14, <2>15
<1>4. Good(n)
  <2>1. n \in 0..n BY <1>2
  <2> HIDE DEF Good
  <2>2. n \notin T
    <3> HIDE DEF T
    <3> QED BY <1>3
  <2> QED BY <2>1, <2>2
<1> QED BY <1>2, <1>4 DEF n

(* Asked for one interface each, every node gets one device, in order. *)
LEMMA OneDeviceEach ==
    ASSUME allNodes \in Nat, NEW info \in Seq([node : Nat, ifs : Nat]), Len(info) = allNodes,
           \A i \in 1..allNodes : info[i].ifs = 1
    PROVE  /\ Len(GslDevices(info)) = allNodes
           /\ \A i \in 1..allNodes : GslDevices(info)[i].node = i - 1
           /\ Running([i \in DOMAIN info |-> info[i].ifs])[Len(info)] = allNodes
<1> DEFINE ss == [n \in 1..allNodes |-> [j \in 1..info[n].ifs |-> n - 1]]
           owners == FlattenSeq(ss)
           d == GslDevices(info)
           list == [i \in DOMAIN info |-> info[i].ifs]
           r == Running(list)
<1>1. ASSUME NEW i \in 1..allNodes PROVE ss[i] = <<i - 1>> /\ ss[i] \in Seq(Nat)
  <2>1. ss[i] = [j \in 1..1 |-> i - 1] OBVIOUS
  <2>2. \A x : [j \in 1..1 |-> x] = <<x>> OBVIOUS
  <2>3. \A x \in Nat : <<x>> \in Seq(Nat) OBVIOUS
  <2>4. i - 1 \in Nat OBVIOUS
  <2> HIDE DEF ss
  <2> QED BY <2>1, <2>2, <2>3, <2>4
<1>2. ss \in Seq(Seq(Nat)) /\ Len(ss) = allNodes
  <2>1. ss = [n \in 1..allNodes |-> ss[n]] OBVIOUS
  <2> HIDE DEF ss
  <2>2. ss \in [1..allNodes -> Seq(Nat)] BY <1>1, <2>1
  <2> QED BY <2>2, ListOf
<1>3. Len(owners) = allNodes /\ (\A i \in 1..allNodes : owners[i] = i - 1) /\ DOMAIN owners = 1..allNodes
  <2> HIDE DEF ss
  <2>1. PICK s \in Seq(Seq(Nat)) : s = ss BY <1>2
  <2>2. PICK g : Joined(Nat, s, g) BY ListsJoined
  <2>3. g[Len(s)] \in Seq(Nat) /\ FlattenSeq(s) = g[Len(s)]
    <3>1. Len(s) \in 0..Len(s) OBVIOUS
    <3> QED BY <2>2, <3>1 DEF Joined
  <2>4. \A i \in 1..Len(s) : s[i] = <<i - 1>> BY <1>1, <1>2, <2>1
  <2>5. Len(FlattenSeq(s)) = Len(s) /\ \A i \in 1..Len(s) : FlattenSeq(s)[i] = i - 1
    BY <2>4, SingletonsJoined
  <2>6. PICK o \in Seq(Nat) : o = FlattenSeq(s) BY <2>3
  <2>7. DOMAIN o = 1..Len(o) OBVIOUS
  <2> QED BY <1>2, <2>1, <2>5, <2>6, <2>7
<1>4. d = [i \in DOMAIN owners |-> [node |-> owners[i], channel |-> Gsl, ip |-> <<network + i - 1, 1>>]]
  BY DEF GslDevices
<1> HIDE DEF owners, d
<1>5. Len(d) = allNodes /\ \A i \in 1..allNodes : d[i].node = i - 1
  <2>1. d = [i \in 1..allNodes |-> d[i]] BY <1>3, <1>4
  <2>2. \A i \in 1..allNodes : d[i].node = i - 1 BY <1>3, <1>4
  <2>3. d \in [1..allNodes -> {d[i] : i \in 1..allNodes}] BY <2>1
  <2> QED BY <2>2, <2>3, ListOf
<1>6. list \in Seq(Nat) /\ Len(list) = allNodes /\ \A i \in 1..allNodes : list[i] = 1
  <2>1. DOMAIN info = 1..allNodes OBVIOUS
  <2>2. \A i \in 1..allNodes : list[i] = 1 BY <2>1
  <2>3. list = [i \in 1..allNodes |-> list[i]] BY <2>1
  <2> HIDE DEF list
  <2>4. list \in [1..allNodes -> Nat] BY <2>2, <2>3
  <2> QED BY <2>2, <2>4, ListOf
<1> HIDE DEF list
<1>7. /\ r \in [0..allNodes -> Nat] /\ r[0] = 0
      /\ \A i \in 1..allNodes : r[i] = r[i - 1] + 1
  BY <1>6, RunningTotal
<1> HIDE DEF r
<1>8. r[allNodes] = allNodes
  <2> DEFINE T == {i \in 0..allNodes : r[i] # i}
  <2>1. SUFFICES T = {}
    <3>1. allNodes \in 0..allNodes OBVIOUS
    <3> QED BY <2>1, <3>1
  <2>2. SUFFICES ASSUME T # {} PROVE FALSE OBVIOUS
  <2>3. PICK i \in T : \A l \in T : i <= l
    <3>1. T \subseteq Nat OBVIOUS
    <3> HIDE DEF T
    <3> QED BY <2>2, <3>1, LeastElement
  <2>4. i \in 0..allNodes /\ r[i] # i OBVIOUS
  <2>5. i # 0 BY <1>7, <2>4
  <2>6. i \in 1..allNodes /\ i - 1 \in 0..allNodes /\ ~ (i <= i - 1) BY <2>4, <2>5
  <2>7. r[i - 1] = i - 1 BY <2>3, <2>6
  <2> QED BY <1>7, <2>4, <2>6, <2>7
<1> QED BY <1>5, <1>6, <1>8 DEF d, r, list

(* The invariant holds of the files before any is read. *)
LEMMA InitNetwork == NetworkInit => NetworkInv
<1> SUFFICES ASSUME NetworkInit PROVE NetworkInv OBVIOUS
<1>1. phase = "tles" /\ devices = <<>> /\ network = 1 BY DEF NetworkInit
<1>2. \/ generated = TRUE /\ \E n \in Networks : files = Generate(n.shells, n.stations)
      \/ generated = FALSE /\ files \in Edited
  BY DEF NetworkInit
<1>3. files \in Files BY <1>2, GeneratedFiles, EditedAssumption
<1> QED BY <1>1, <1>2, <1>3 DEF NetworkInv

(* What a generated network is known to be. *)
LEMMA GeneratedFacts ==
    ASSUME NetworkInv, generated
    PROVE  /\ files.header[1] * files.header[2] = files.blocks
           /\ files.isls \in Seq(LinksAmong(files.blocks))
           /\ \A i \in DOMAIN files.stations : files.stations[i] = i - 1
           /\ Len(files.gsl) = files.blocks + Len(files.stations)
           /\ \A i \in 1..(files.blocks + Len(files.stations)) : files.gsl[i] = [node |-> i - 1, ifs |-> 1]
<1>1. PICK n \in Networks : files = Generate(n.shells, n.stations) BY DEF NetworkInv
<1> QED BY <1>1, GeneratedFiles

(* A network that was not generated may be given up. *)
LEMMA GivenUp ==
    ASSUME NetworkInv, ~ generated, NEW how \in {"failed", "undefined"}, Ends(how)
    PROVE  NetworkInv'
<1>1. phase' = how /\ files' = files /\ generated' = generated BY DEF Ends, input
<1>2. files \in Files BY DEF NetworkInv
<1> QED BY <1>1, <1>2 DEF NetworkInv

(* The satellites are as many as the file has blocks. *)
LEMMA ReadSatellitesStep == NetworkInv /\ ReadSatellites => NetworkInv'
<1> SUFFICES ASSUME NetworkInv, ReadSatellites PROVE NetworkInv' OBVIOUS
<1> DEFINE n == files.header[1] * files.header[2]
<1>1. CASE Ends("undefined") \/ Ends("failed")
  <2>1. files.blocks # n
    <3>1. files.blocks \in Nat BY DEF NetworkInv, Files
    <3>2. files.header \in Nat \X Nat BY DEF NetworkInv, Files
    <3>3. n \in Nat
      <4>1. PICK x \in Nat, y \in Nat : x = files.header[1] /\ y = files.header[2] BY <3>2
      <4>2. x * y \in Nat OBVIOUS
      <4> QED BY <4>1, <4>2
    <3>4. phase = "tles" BY DEF ReadSatellites
    <3>5. phase' # "stations" BY <1>1 DEF Ends
    <3> HIDE DEF n
    <3>6. files.blocks > n \/ files.blocks < n \/ phase' = "stations" BY DEF ReadSatellites, n
    <3> QED BY <3>1, <3>3, <3>5, <3>6
  <2>2. ~ generated BY <2>1, GeneratedFacts
  <2> QED BY <1>1, <2>2, GivenUp
<1>2. CASE ~ (Ends("undefined") \/ Ends("failed"))
  <2>0. files.blocks \in Nat /\ files.header \in Nat \X Nat BY DEF NetworkInv, Files
  <2>1. PICK x \in Nat, y \in Nat : x = files.header[1] /\ y = files.header[2] BY <2>0
  <2>2. x * y \in Nat OBVIOUS
  <2>3. n \in Nat BY <2>1, <2>2
  <2>4. /\ phase = "tles" /\ ~ (files.blocks > n) /\ ~ (files.blocks < n)
        /\ satellites' = n /\ phase' = "stations"
        /\ UNCHANGED <<input, allNodes, left, built, arp, nextHop, read>>
    <3> HIDE DEF n
    <3> QED BY <1>2 DEF ReadSatellites, n
  <2>5. satellites' = files.blocks
    <3> HIDE DEF n
    <3> QED BY <2>0, <2>3, <2>4
  <2>6. files' = files /\ generated' = generated /\ devices' = devices /\ network' = network
    BY <2>4 DEF input, built
  <2> QED BY <2>4, <2>5, <2>6 DEF NetworkInv
<1> QED BY <1>1, <1>2

(* Without devices no node has an interface. *)
LEMMA NoneInOrder == \A n : Ascending(OfNode(<<>>, n)) = <<>>
<1> TAKE n
<1>1. OfNode(<<>>, n) = {} BY DEF OfNode
<1>2. Cardinality({}) = 0 BY FS_EmptySet
<1>3. Ascending({}) = [i \in 1..0 |-> CHOOSE m \in {} : Cardinality({k \in {} : k < m}) = i - 1]
  BY <1>2 DEF Ascending
<1>4. Ascending({}) = <<>>
  <2>1. 1..0 = {} OBVIOUS
  <2> QED BY <1>3, <2>1
<1> QED BY <1>1, <1>4

(* The nodes are there, without interfaces and devices. *)
LEMMA ReadGroundStationsStep == NetworkInv /\ ReadGroundStations => NetworkInv'
<1> SUFFICES ASSUME NetworkInv, ReadGroundStations PROVE NetworkInv' OBVIOUS
<1>1. CASE Ends("failed")
  <2>1. ~ \A i \in DOMAIN files.stations : files.stations[i] = i - 1
    BY <1>1 DEF ReadGroundStations, Ends
  <2>2. ~ generated BY <2>1, GeneratedFacts
  <2> QED BY <1>1, <2>2, GivenUp
<1>2. CASE ~ Ends("failed")
  <2>1. /\ phase = "stations" /\ allNodes' = satellites + Len(files.stations)
        /\ interfaces' = [n \in 0..(allNodes' - 1) |-> <<>>]
        /\ left' = files.isls /\ phase' = "isls"
        /\ files' = files /\ generated' = generated /\ satellites' = satellites
        /\ devices' = devices /\ network' = network
    BY <1>2 DEF ReadGroundStations, input
  <2>2. devices' = <<>> /\ network' = 1 /\ satellites' = files'.blocks /\ files \in Files
    BY <2>1 DEF NetworkInv
  <2>3. files.isls \in Seq(Nat \X Nat) BY <2>2 DEF Files
  <2>4. Done' = 0
    <3>1. Len(files.isls) \in Nat BY <2>3
    <3> QED BY <2>1, <3>1 DEF Done
  <2>5. DevicesInv'
    <3>1. <<>> \in Seq(Devices(allNodes')) /\ Len(<<>>) = 0 /\ DOMAIN <<>> = {} OBVIOUS
    <3>2. 1..0 = {} /\ 0 >= 2 * 0 OBVIOUS
    <3> QED BY <2>2, <2>4, <3>1, <3>2 DEF DevicesInv
  <2>6. InterfacesInv'
    <3>1. interfaces' = [n \in 0..(allNodes' - 1) |-> Ascending(OfNode(<<>>, n))]
      BY <2>1, NoneInOrder
    <3> QED BY <2>2, <3>1 DEF InterfacesInv
  <2>7. \A i \in 1..Len(left') : left'[i] = files'.isls[Done' + i]
    <3>1. \A i \in 1..Len(left') : 0 + i = i OBVIOUS
    <3> QED BY <2>1, <2>4, <3>1
  <2>8. left' \in Seq(Nat \X Nat) /\ Len(left') <= Len(files'.isls)
    <3>1. Len(files.isls) \in Nat BY <2>3
    <3> QED BY <2>1, <2>3, <3>1
  <2>9. Len(devices') = 2 * Done' /\ network' = Done' + 1
    <3>1. Len(<<>>) = 0 /\ 2 * 0 = 0 /\ 0 + 1 = 1 OBVIOUS
    <3> QED BY <2>2, <2>4, <3>1
  <2>10. (generated => \E n \in Networks : files = Generate(n.shells, n.stations))
    BY DEF NetworkInv
  <2> QED BY <2>1, <2>2, <2>5, <2>6, <2>7, <2>8, <2>9, <2>10 DEF NetworkInv
<1> QED BY <1>1, <1>2

(* A link adds two devices, at the end of the list of each node. *)
LEMMA ReadISLStep == NetworkInv /\ ReadISL => NetworkInv'
<1> SUFFICES ASSUME NetworkInv, ReadISL PROVE NetworkInv' OBVIOUS
<1> DEFINE a == Head(left)[1]
           b == Head(left)[2]
<1>1. /\ phase = "isls" /\ left # <<>> /\ files \in Files
      /\ satellites = files.blocks /\ allNodes = satellites + Len(files.stations)
      /\ left \in Seq(Nat \X Nat) /\ Len(left) <= Len(files.isls)
      /\ \A i \in 1..Len(left) : left[i] = files.isls[Done + i]
      /\ DevicesInv /\ InterfacesInv
      /\ Len(devices) = 2 * Done /\ network = Done + 1
      /\ (generated => \E n \in Networks : files = Generate(n.shells, n.stations))
  BY DEF ReadISL, NetworkInv
<1>2. /\ files.isls \in Seq(Nat \X Nat) /\ Len(files.isls) \in Nat /\ Len(left) \in Nat
      /\ Done \in Nat /\ Done <= Len(files.isls)
  BY <1>1, DoneFacts
<1>3. Len(left) >= 1 /\ Done + 1 \in 1..Len(files.isls)
  <2>1. Len(left) # 0 BY <1>1
  <2> QED BY <1>1, <1>2, <2>1 DEF Done
<1>4. /\ Head(left) = files.isls[Done + 1] /\ Head(left) \in Nat \X Nat
      /\ Tail(left) \in Seq(Nat \X Nat) /\ Len(Tail(left)) = Len(left) - 1
      /\ \A i \in 1..(Len(left) - 1) : Tail(left)[i] = left[i + 1]
  <2>1. 1 \in 1..Len(left) BY <1>2, <1>3
  <2>2. left[1] = files.isls[Done + 1] BY <1>1, <2>1
  <2>3. left[1] \in Nat \X Nat BY <1>1, <2>1, ElementOf
  <2>4. Head(left) = left[1] OBVIOUS
  <2>5. Tail(left) \in Seq(Nat \X Nat) /\ Len(Tail(left)) = Len(left) - 1
        /\ \A i \in 1..(Len(left) - 1) : Tail(left)[i] = left[i + 1]
    BY ONLY <1>1, <1>3
  <2> QED BY <2>2, <2>3, <2>4, <2>5
<1>5. CASE ~ ({a, b} \subseteq 0..(satellites - 1))
  <2>1. Ends("failed") BY <1>5 DEF ReadISL
  <2>2. ~ generated
    <3> SUFFICES ASSUME generated PROVE FALSE OBVIOUS
    <3>1. files.isls \in Seq(LinksAmong(files.blocks)) BY GeneratedFacts
    <3>2. files.isls[Done + 1] \in LinksAmong(files.blocks) BY <1>3, <3>1, ElementOf
    <3>3. Head(left) \in LinksAmong(satellites) BY <1>1, <1>4, <3>2
    <3>4. a \in 0..(satellites - 1) /\ b \in 0..(satellites - 1) BY <3>3 DEF LinksAmong
    <3> QED BY <1>5, <3>4
  <2> QED BY <2>1, <2>2, GivenUp
<1>6. CASE {a, b} \subseteq 0..(satellites - 1)
  <2> DEFINE new == LaserDevices(a, b)
  <2>1. /\ Install(new) /\ network' = network + 1 /\ left' = Tail(left)
        /\ files' = files /\ generated' = generated /\ phase' = phase /\ satellites' = satellites
        /\ allNodes' = allNodes
    BY <1>6 DEF ReadISL, input
  <2>2. allNodes \in Nat /\ satellites <= allNodes /\ satellites \in Nat
    <3>1. files.blocks \in Nat /\ Len(files.stations) \in Nat BY <1>1 DEF Files
    <3> QED BY <1>1, <3>1
  <2>3. a \in 0..(allNodes - 1) /\ b \in 0..(allNodes - 1)
    <3>1. a \in 0..(satellites - 1) /\ b \in 0..(satellites - 1) BY <1>6
    <3> QED BY <2>2, <3>1
  <2>4. new = << [node |-> a, channel |-> Done + 1, ip |-> <<Done + 1, 1>>],
                 [node |-> b, channel |-> Done + 1, ip |-> <<Done + 1, 2>>] >>
    BY <1>1 DEF LaserDevices, Done
  <2>5. new \in Seq(Devices(allNodes)) /\ Len(new) = 2
        /\ new[1] = [node |-> a, channel |-> Done + 1, ip |-> <<Done + 1, 1>>]
        /\ new[2] = [node |-> b, channel |-> Done + 1, ip |-> <<Done + 1, 2>>]
    <3>1. PICK c \in 0..(allNodes - 1), d \in 0..(allNodes - 1), k \in Nat : c = a /\ d = b /\ k = Done + 1
      BY <1>2, <2>3
    <3>2. /\ [node |-> c, channel |-> k, ip |-> <<k, 1>>] \in Devices(allNodes)
          /\ [node |-> d, channel |-> k, ip |-> <<k, 2>>] \in Devices(allNodes)
      BY DEF Devices
    <3>3. \A S : \A x, y \in S : <<x, y>> \in Seq(S) /\ Len(<<x, y>>) = 2 OBVIOUS
    <3> HIDE DEF new
    <3> QED BY <2>4, <3>1, <3>2, <3>3
  <2>6. devices \in Seq(Devices(allNodes))
        /\ interfaces = [n \in 0..(allNodes - 1) |-> Ascending(OfNode(devices, n))]
    BY <1>1 DEF DevicesInv, InterfacesInv
  <2> HIDE DEF new, a, b
  <2>7. /\ devices' \in Seq(Devices(allNodes)) /\ Len(devices') = Len(devices) + Len(new)
        /\ \A i \in 1..Len(devices) : devices'[i] = devices[i]
        /\ \A i \in 1..Len(new) : devices'[Len(devices) + i] = new[i]
        /\ interfaces' = [n \in 0..(allNodes - 1) |-> Ascending(OfNode(devices', n))]
    BY <2>1, <2>2, <2>5, <2>6, Installed
  <2>8. Done' = Done + 1
    <3>1. Len(left') = Len(left) - 1 BY <1>4, <2>1
    <3>2. Done' = Len(files'.isls) - Len(left') /\ Done = Len(files.isls) - Len(left) BY DEF Done
    <3>3. Len(files'.isls) = Len(files.isls) BY <2>1
    <3> QED BY <1>2, <3>1, <3>2, <3>3
  <2>9. Len(devices') = 2 * Done' /\ network' = Done' + 1
    BY <1>1, <1>2, <2>1, <2>5, <2>7, <2>8
  <2>10. ASSUME NEW i \in 1..(Done + 1)
         PROVE  /\ devices'[2 * i - 1] = [node |-> files.isls[i][1], channel |-> i, ip |-> <<i, 1>>]
                /\ devices'[2 * i] = [node |-> files.isls[i][2], channel |-> i, ip |-> <<i, 2>>]
    <3>1. CASE i <= Done
      <4>1. i \in 1..Done /\ 2 * i - 1 \in 1..(2 * Done) /\ 2 * i \in 1..(2 * Done) BY <1>2, <3>1
      <4>2. devices'[2 * i - 1] = devices[2 * i - 1] /\ devices'[2 * i] = devices[2 * i]
        BY <1>1, <2>7, <4>1
      <4>3. /\ devices[2 * i - 1] = [node |-> files.isls[i][1], channel |-> i, ip |-> <<i, 1>>]
            /\ devices[2 * i] = [node |-> files.isls[i][2], channel |-> i, ip |-> <<i, 2>>]
        BY <1>1, <4>1 DEF DevicesInv
      <4> QED BY <4>2, <4>3
    <3>2. CASE ~ (i <= Done)
      <4>1. i = Done + 1 /\ 2 * i - 1 = Len(devices) + 1 /\ 2 * i = Len(devices) + 2
        <5>1. Len(devices) = 2 * Done BY <1>1
        <5>2. i = Done + 1 BY <1>2, <3>2
        <5> QED BY ONLY <1>2, <5>1, <5>2
      <4>2. 1 \in 1..Len(new) /\ 2 \in 1..Len(new) BY <2>5
      <4>3. devices'[2 * i - 1] = new[1] /\ devices'[2 * i] = new[2] BY <2>7, <4>1, <4>2
      <4>4. files.isls[i][1] = a /\ files.isls[i][2] = b BY <1>4, <4>1 DEF a, b
      <4> QED BY <2>5, <4>1, <4>3, <4>4
    <3> QED BY <3>1, <3>2
  <2>11. DevicesInv'
    <3>1. \A m \in DOMAIN devices' : ~ (m > 2 * Done')
      <4>1. DOMAIN devices' = 1..Len(devices') /\ Len(devices') \in Nat BY <2>7
      <4> QED BY <2>9, <4>1
    <3>2. Len(devices') >= 2 * Done' BY <1>2, <2>8, <2>9
    <3>3. devices' \in Seq(Devices(allNodes')) BY <2>1, <2>7
    <3>4. files'.isls = files.isls BY <2>1
    <3> QED BY <2>8, <2>10, <3>1, <3>2, <3>3, <3>4 DEF DevicesInv
  <2>12. InterfacesInv' BY <2>1, <2>7 DEF InterfacesInv
  <2>13. left' \in Seq(Nat \X Nat) /\ Len(left') <= Len(files'.isls) BY <1>1, <1>2, <1>4, <2>1
  <2>14. ASSUME NEW i \in 1..Len(left') PROVE left'[i] = files'.isls[Done' + i]
    <3>1. i \in 1..(Len(left) - 1) /\ i + 1 \in 1..Len(left) /\ Done + (i + 1) = (Done + 1) + i
      BY <1>2, <1>4, <2>1
    <3>2. left'[i] = left[i + 1] BY <1>4, <2>1, <3>1
    <3>3. left[i + 1] = files.isls[Done + (i + 1)] BY <1>1, <3>1
    <3> QED BY <2>1, <2>8, <3>1, <3>2, <3>3
  <2> QED BY <1>1, <2>1, <2>9, <2>11, <2>12, <2>13, <2>14 DEF NetworkInv
<1> QED BY <1>5, <1>6

(* The devices on the shared channel come behind those of all links. *)
LEMMA CreateGSLsStep == NetworkInv /\ CreateGSLs => NetworkInv'
<1> SUFFICES ASSUME NetworkInv, CreateGSLs PROVE NetworkInv' OBVIOUS
<1> DEFINE info == files.gsl
           new == GslDevices(info)
           total == Running([i \in DOMAIN info |-> info[i].ifs])[Len(info)]
<1>1. /\ phase = "isls" /\ left = <<>> /\ files \in Files
      /\ satellites = files.blocks /\ allNodes = satellites + Len(files.stations)
      /\ left \in Seq(Nat \X Nat) /\ Len(left) <= Len(files.isls)
      /\ DevicesInv /\ InterfacesInv
      /\ Len(devices) = 2 * Done /\ network = Done + 1
      /\ (generated => \E n \in Networks : files = Generate(n.shells, n.stations))
  BY DEF CreateGSLs, NetworkInv
<1>2. Done \in Nat BY <1>1, DoneFacts
<1>3. info \in Seq([node : Nat, ifs : Nat]) /\ allNodes \in Nat
  <2>1. files.blocks \in Nat /\ Len(files.stations) \in Nat BY <1>1 DEF Files
  <2>2. files.gsl \in Seq([node : Nat, ifs : Nat]) BY <1>1 DEF Files
  <2> QED BY <1>1, <2>1, <2>2
<1>4. ASSUME generated
      PROVE  /\ \A i \in DOMAIN info : info[i].node = i - 1
             /\ Len(info) = allNodes /\ Len(new) = total /\ Len(new) = allNodes
             /\ \A i \in 1..allNodes : new[i].node = i - 1
  <2>1. /\ Len(info) = allNodes
        /\ \A i \in 1..allNodes : info[i] = [node |-> i - 1, ifs |-> 1]
    BY <1>1, <1>4, GeneratedFacts
  <2>2. ASSUME NEW i \in 1..allNodes PROVE info[i].node = i - 1 /\ info[i].ifs = 1
    <3>1. info[i] = [node |-> i - 1, ifs |-> 1] BY <2>1
    <3> QED BY ONLY <3>1
  <2>3. DOMAIN info = 1..allNodes BY <1>3, <2>1
  <2>4. /\ Len(new) = allNodes /\ total = allNodes
        /\ \A i \in 1..allNodes : new[i].node = i - 1
    <3>1. PICK x : x = info OBVIOUS
    <3>2. x \in Seq([node : Nat, ifs : Nat]) /\ Len(x) = allNodes /\ \A i \in 1..allNodes : x[i].ifs = 1
      BY <1>3, <2>1, <2>2, <3>1
    <3>3. /\ Len(GslDevices(x)) = allNodes
          /\ \A i \in 1..allNodes : GslDevices(x)[i].node = i - 1
          /\ Running([i \in DOMAIN x |-> x[i].ifs])[Len(x)] = allNodes
      BY ONLY <1>3, <3>2, OneDeviceEach
    <3> QED BY <3>1, <3>3
  <2> QED BY <2>1, <2>2, <2>3, <2>4
<1> HIDE DEF new, total
<1>5. CASE \/ \E i \in DOMAIN info : info[i].node # i - 1
           \/ Len(info) < allNodes
           \/ Len(new) # total
  <2>1. Ends("failed") \/ Ends("undefined") BY <1>5 DEF CreateGSLs, new, total
  <2>2. ~ generated
    <3>1. ~ (allNodes < allNodes) BY <1>3
    <3> QED BY <1>4, <1>5, <3>1
  <2> QED BY <2>1, <2>2, GivenUp
<1>6. CASE ~ (\/ \E i \in DOMAIN info : info[i].node # i - 1
              \/ Len(info) < allNodes
              \/ Len(new) # total)
  <2>1. /\ Install(new) /\ phase' = "arp" /\ left' = left
        /\ files' = files /\ generated' = generated /\ satellites' = satellites
        /\ allNodes' = allNodes
    BY <1>6 DEF CreateGSLs, input, new, total
  <2>2. Len(info) >= allNodes
    <3>1. Len(info) \in Nat BY <1>3
    <3> QED BY <1>3, <1>6, <3>1
  <2>3. /\ new \in Seq(Devices(allNodes))
        /\ \A i \in 1..Len(new) : new[i].channel = Gsl /\ new[i].ip = <<network + i - 1, 1>>
    <3>1. network \in Nat /\ network >= 1 BY <1>1, <1>2
    <3> QED BY <1>3, <2>2, <3>1, GroundDevices DEF new
  <2>4. devices \in Seq(Devices(allNodes))
        /\ interfaces = [n \in 0..(allNodes - 1) |-> Ascending(OfNode(devices, n))]
    BY <1>1 DEF DevicesInv, InterfacesInv
  <2>5. /\ devices' \in Seq(Devices(allNodes)) /\ Len(devices') = Len(devices) + Len(new)
        /\ \A i \in 1..Len(devices) : devices'[i] = devices[i]
        /\ \A i \in 1..Len(new) : devices'[Len(devices) + i] = new[i]
        /\ interfaces' = [n \in 0..(allNodes - 1) |-> Ascending(OfNode(devices', n))]
    BY <1>3, <2>1, <2>3, <2>4, Installed
  <2>6. Done' = Done BY <2>1 DEF Done
  <2>7. Len(new) \in Nat /\ Len(devices') = 2 * Done + Len(new)
    BY <1>1, <2>3, <2>5
  <2>8. DevicesInv'
    <3>1. ASSUME NEW i \in 1..Done
          PROVE  /\ devices'[2 * i - 1] = [node |-> files.isls[i][1], channel |-> i, ip |-> <<i, 1>>]
                 /\ devices'[2 * i] = [node |-> files.isls[i][2], channel |-> i, ip |-> <<i, 2>>]
      <4>1. 2 * i - 1 \in 1..(2 * Done) /\ 2 * i \in 1..(2 * Done) BY <1>2
      <4>2. devices'[2 * i - 1] = devices[2 * i - 1] /\ devices'[2 * i] = devices[2 * i]
        BY <1>1, <2>5, <4>1
      <4>3. /\ devices[2 * i - 1] = [node |-> files.isls[i][1], channel |-> i, ip |-> <<i, 1>>]
            /\ devices[2 * i] = [node |-> files.isls[i][2], channel |-> i, ip |-> <<i, 2>>]
        BY <1>1 DEF DevicesInv
      <4> QED BY <4>2, <4>3
    <3>2. ASSUME NEW m \in DOMAIN devices', m > 2 * Done
          PROVE  devices'[m].channel = Gsl /\ devices'[m].ip = <<m - Done, 1>>
      <4>1. m \in 1..(2 * Done + Len(new)) BY <2>5, <2>7
      <4>2. PICK i \in 1..Len(new) : m = 2 * Done + i
        <5>1. m - 2 * Done \in 1..Len(new) /\ m = 2 * Done + (m - 2 * Done)
          BY <1>2, <2>7, <3>2, <4>1
        <5> QED BY <5>1
      <4>3. devices'[m] = new[i] BY <1>1, <2>5, <4>2
      <4>4. network + i - 1 = m - Done BY <1>1, <1>2, <4>2
      <4> QED BY <2>3, <4>3, <4>4
    <3>3. devices' \in Seq(Devices(allNodes')) BY <2>1, <2>5
    <3>4. Len(devices') >= 2 * Done BY <1>2, <2>7
    <3>5. files'.isls = files.isls /\ Gsl' = Gsl BY <2>1 DEF Gsl
    <3> QED BY <2>6, <3>1, <3>2, <3>3, <3>4, <3>5 DEF DevicesInv
  <2>9. InterfacesInv' BY <2>1, <2>5 DEF InterfacesInv
  <2>10. ASSUME generated
         PROVE  /\ Len(devices') = 2 * Done + allNodes
                /\ \A n \in 0..(allNodes - 1) : devices'[2 * Done + n + 1].node = n
    <3>1. Len(new) = allNodes /\ \A i \in 1..allNodes : new[i].node = i - 1 BY <1>4, <2>10
    <3>2. ASSUME NEW n \in 0..(allNodes - 1) PROVE devices'[2 * Done + n + 1].node = n
      <4>1. PICK i \in 1..allNodes : i = n + 1 BY <1>3
      <4>2. 2 * Done + n + 1 = Len(devices) + i /\ i - 1 = n BY <1>1, <1>2, <4>1
      <4>3. devices'[Len(devices) + i] = new[i] BY <2>5, <3>1
      <4> QED BY <3>1, <4>2, <4>3
    <3> QED BY <2>7, <3>1, <3>2
  <2>11. \A i \in 1..Len(left') : left'[i] = files'.isls[Done' + i]
    <3>1. Len(left') = 0 BY <1>1, <2>1
    <3>2. 1..0 = {} OBVIOUS
    <3> QED BY <3>1, <3>2
  <2> QED BY <1>1, <2>1, <2>6, <2>8, <2>9, <2>10, <2>11 DEF NetworkInv
<1> QED BY <1>5, <1>6

(* The cache knows every device, and no entry directs a packet yet. *)
LEMMA PopulateArpCachesStep == NetworkInv /\ PopulateArpCaches => NetworkInv'
<1> SUFFICES ASSUME NetworkInv, PopulateArpCaches PROVE NetworkInv' OBVIOUS
<1>1. /\ phase = "arp" /\ phase' = "running" /\ arp' = ArpOf(0..(allNodes - 1))
      /\ nextHop' = InitialEmptyForwardingState
      /\ files' = files /\ generated' = generated /\ satellites' = satellites
      /\ allNodes' = allNodes /\ left' = left /\ devices' = devices /\ interfaces' = interfaces
      /\ network' = network
  BY DEF PopulateArpCaches, input, built
<1>2. Done' = Done /\ Gsl' = Gsl BY <1>1 DEF Done, Gsl
<1>3. DevicesInv' /\ InterfacesInv' <=> DevicesInv /\ InterfacesInv
  BY <1>1, <1>2 DEF DevicesInv, InterfacesInv
<1>4. ArpOf(0..(allNodes - 1))' = ArpOf(0..(allNodes - 1)) BY <1>1 DEF ArpOf
<1>5. /\ DOMAIN nextHop' = (0..(allNodes - 1)) \X (0..(allNodes - 1))
      /\ \A p \in DOMAIN nextHop' : ~ (nextHop'[p][1] >= 0)
  <2>1. nextHop' = [p \in (0..(allNodes - 1)) \X (0..(allNodes - 1)) |-> <<-2, -2, -2>>]
    BY <1>1 DEF InitialEmptyForwardingState
  <2>2. \A p \in DOMAIN nextHop' : nextHop'[p] = <<-2, -2, -2>> BY <2>1
  <2>3. ~ (<<-2, -2, -2>>[1] >= 0) OBVIOUS
  <2> QED BY <2>1, <2>2, <2>3
<1> QED BY <1>1, <1>2, <1>3, <1>4, <1>5 DEF NetworkInv

-----------------------------------------------------------------------------
(***************************************************************************)
(* The writer's numbers of interfaces are the reader's, and every line of  *)
(* its dynamic state is accepted.                                          *)
(***************************************************************************)
(* Two sets one of which lists the other without repeating are as large. *)
LEMMA SameSize ==
    ASSUME NEW S, NEW T, IsFiniteSet(S), NEW f \in [S -> T],
           \A x, y \in S : f[x] = f[y] => x = y,
           \A t \in T : \E x \in S : f[x] = t
    PROVE  Cardinality(S) = Cardinality(T)
<1>1. f \in Surjection(S, T) BY DEF Surjection
<1>2. f \in Injection(S, T) BY DEF Injection, IsInjective
<1> QED BY <1>1, <1>2, FS_Surjection

(* The writer's count of links of a satellite is the reader's of devices. *)
LEMMA CountEnds ==
    ASSUME DevicesInv, Done \in Nat, Len(files.isls) = Done, NEW blocks,
           files.isls \in Seq(LinksAmong(blocks)),
           NEW s, NEW i \in 1..(Done + 1)
    PROVE  /\ Cardinality({m \in OfNode(devices, s) : m < 2 * i - 1})
                = Cardinality({j \in LinksOf(files.isls, s) : j < i})
           /\ Cardinality({j \in LinksOf(files.isls, s) : j < i}) \in Nat
<1> DEFINE isls == files.isls
           L == {j \in LinksOf(isls, s) : j < i}
           E == {m \in OfNode(devices, s) : m < 2 * i - 1}
           f == [j \in L |-> IF isls[j][1] = s THEN 2 * j - 1 ELSE 2 * j]
<1>1. DOMAIN isls = 1..Done /\ L \in SUBSET (1..Done) BY DEF LinksOf
<1>2. IsFiniteSet(L) /\ Cardinality(L) \in Nat
  <2>1. 1 \in Int /\ Done \in Int OBVIOUS
  <2>2. IsFiniteSet(1..Done) BY <2>1, FS_Interval
  <2> HIDE DEF L
  <2>3. IsFiniteSet(L) BY <1>1, <2>2, FS_Subset
  <2> QED BY <2>3, FS_CardinalityType
<1>3. ASSUME NEW j \in 1..Done
      PROVE  /\ 2 * j - 1 \in DOMAIN devices /\ 2 * j \in DOMAIN devices
             /\ devices[2 * j - 1].node = isls[j][1] /\ devices[2 * j].node = isls[j][2]
             /\ isls[j][1] # isls[j][2]
  <2>1. isls[j] \in LinksAmong(blocks) BY <1>1, ElementOf
  <2>2. isls[j][1] # isls[j][2] BY <2>1 DEF LinksAmong
  <2> QED BY <2>2, LinkEnds
<1>4. ASSUME NEW j \in L
      PROVE  f[j] \in E /\ (f[j] = 2 * j - 1 \/ f[j] = 2 * j)
  <2>1. j \in 1..Done /\ j < i /\ (isls[j][1] = s \/ isls[j][2] = s) BY <1>1 DEF LinksOf
  <2>2. CASE isls[j][1] = s
    <3>1. f[j] = 2 * j - 1 BY <2>2
    <3>2. 2 * j - 1 < 2 * i - 1 BY <2>1
    <3>3. 2 * j - 1 \in E BY <1>3, <2>1, <2>2, <3>2 DEF OfNode
    <3> QED BY <3>1, <3>3
  <2>3. CASE isls[j][1] # s
    <3>1. f[j] = 2 * j BY <2>3
    <3>2. 2 * j < 2 * i - 1 BY <2>1
    <3>3. 2 * j \in E BY <1>3, <2>1, <2>3, <3>2 DEF OfNode
    <3> QED BY <3>1, <3>3
  <2> QED BY <2>2, <2>3
<1>5. f \in [L -> E]
  <2> HIDE DEF L, E
  <2>1. f = [j \in L |-> f[j]] OBVIOUS
  <2> HIDE DEF f
  <2> QED BY <1>4, <2>1
<1>6. ASSUME NEW j \in L, NEW k \in L, f[j] = f[k] PROVE j = k
  <2>1. j \in 1..Done /\ k \in 1..Done BY <1>1
  <2>2. (f[j] = 2 * j - 1 \/ f[j] = 2 * j) /\ (f[k] = 2 * k - 1 \/ f[k] = 2 * k) BY <1>4
  <2> HIDE DEF f, L
  <2> QED BY <1>6, <2>1, <2>2
<1>7. ASSUME NEW m \in E PROVE \E j \in L : f[j] = m
  <2>1. m \in DOMAIN devices /\ devices[m].node = s /\ m < 2 * i - 1 BY DEF OfNode
  <2>2. m \in Nat /\ ~ (m > 2 * Done)
    <3>1. DOMAIN devices = 1..Len(devices) /\ Len(devices) \in Nat BY DEF DevicesInv
    <3> QED BY <2>1, <3>1
  <2>3. devices[m].channel # Gsl BY <2>1, <2>2, DeviceFacts
  <2>4. PICK j \in 1..Done : m = 2 * j - 1 \/ m = 2 * j BY <2>1, <2>3, DeviceFacts
  <2>5. j < i BY <2>1, <2>4
  <2>6. CASE m = 2 * j - 1
    <3>1. isls[j][1] = s BY <1>3, <2>1, <2>6
    <3>2. j \in L BY <1>1, <2>5, <3>1 DEF LinksOf
    <3> QED BY <2>6, <3>1, <3>2
  <2>7. CASE m = 2 * j
    <3>1. isls[j][2] = s /\ isls[j][1] # s BY <1>3, <2>1, <2>7
    <3>2. j \in L BY <1>1, <2>5, <3>1 DEF LinksOf
    <3> QED BY <2>7, <3>1, <3>2
  <2> QED BY <2>4, <2>6, <2>7
<1> HIDE DEF L, E, f
<1>8. Cardinality(L) = Cardinality(E) BY <1>2, <1>5, <1>6, <1>7, SameSize
<1> QED BY <1>2, <1>8 DEF L, E

(* What holds of a network of gen_state.py when the dynamic state is read. *)
LEMMA GeneratedRunning ==
    ASSUME NetworkInv, generated, phase = "running"
    PROVE  /\ DevicesInv /\ InterfacesInv
           /\ Done \in Nat /\ Len(files.isls) = Done /\ files.isls \in Seq(LinksAmong(files.blocks))
           /\ files.blocks \in Nat /\ Len(files.stations) \in Nat
           /\ allNodes = files.blocks + Len(files.stations)
           /\ Len(devices) = 2 * Done + allNodes
           /\ \A n \in 0..(allNodes - 1) : devices[2 * Done + n + 1].node = n
<1>1. /\ files \in Files /\ left \in Seq(Nat \X Nat) /\ Len(left) <= Len(files.isls)
      /\ left = <<>> /\ DevicesInv /\ InterfacesInv
      /\ satellites = files.blocks /\ allNodes = satellites + Len(files.stations)
      /\ Len(devices) = 2 * Done + allNodes
      /\ \A n \in 0..(allNodes - 1) : devices[2 * Done + n + 1].node = n
  BY DEF NetworkInv
<1>2. Done \in Nat /\ Done = Len(files.isls) BY <1>1, DoneFacts
<1>3. files.isls \in Seq(LinksAmong(files.blocks)) BY GeneratedFacts
<1>4. files.blocks \in Nat /\ Len(files.stations) \in Nat BY <1>1 DEF Files
<1> QED BY <1>1, <1>2, <1>3, <1>4

(* The end of link i at s. *)
EndOf(i, s) == IF files.isls[i][1] = s THEN 2 * i - 1 ELSE 2 * i

(* A link has, at both ends, the interface the writer numbers. *)
LEMMA LinkInterfaces ==
    ASSUME NetworkInv, generated, phase = "running",
           NEW i \in DOMAIN files.isls, NEW s \in {files.isls[i][1], files.isls[i][2]}
    PROVE  /\ s \in 0..(files.blocks - 1) /\ IslIf(files.isls, s, i) \in Nat
           /\ HasInterface(s, IslIf(files.isls, s, i))
           /\ interfaces[s][1 + IslIf(files.isls, s, i)] = EndOf(i, s)
<1>1. /\ DevicesInv /\ InterfacesInv /\ Done \in Nat /\ Len(files.isls) = Done
      /\ files.isls \in Seq(LinksAmong(files.blocks)) /\ files.blocks \in Nat
      /\ Len(files.stations) \in Nat /\ allNodes = files.blocks + Len(files.stations)
  BY GeneratedRunning
<1>2. i \in 1..Done /\ i \in 1..Len(files.isls) /\ i \in 1..(Done + 1) BY <1>1
<1>3. files.isls[i] \in LinksAmong(files.blocks) BY <1>1, <1>2, ElementOf
<1>4. s \in 0..(files.blocks - 1) /\ files.isls[i][1] # files.isls[i][2] BY <1>3 DEF LinksAmong
<1>5. s \in 0..(allNodes - 1) BY <1>1, <1>4
<1> DEFINE S == OfNode(devices, s)
           m == EndOf(i, s)
<1>6. /\ 2 * i - 1 \in DOMAIN devices /\ 2 * i \in DOMAIN devices
      /\ devices[2 * i - 1].node = files.isls[i][1] /\ devices[2 * i].node = files.isls[i][2]
  BY <1>1, <1>2, LinkEnds
<1>7. m \in S BY <1>6 DEF OfNode, EndOf
<1>8. {k \in S : k < m} = {k \in S : k < 2 * i - 1}
  <2>1. S \subseteq Nat BY <1>1, OfNodeIsFinite DEF DevicesInv
  <2>2. CASE files.isls[i][1] = s BY <2>2 DEF EndOf
  <2>3. CASE files.isls[i][1] # s
    <3>1. m = 2 * i BY <2>3 DEF EndOf
    <3>2. 2 * i - 1 \notin S BY <1>6, <2>3 DEF OfNode
    <3> HIDE DEF S, m
    <3>3. \A k \in S : k < 2 * i <=> k < 2 * i - 1
      <4> TAKE k \in S
      <4>1. k \in Nat /\ k # 2 * i - 1 BY <2>1, <3>2
      <4>2. i \in Nat BY <1>2
      <4> QED BY ONLY <4>1, <4>2
    <3> QED BY <3>1, <3>3
  <2> QED BY <2>2, <2>3
<1>9. /\ Cardinality({k \in S : k < 2 * i - 1}) = IslIf(files.isls, s, i)
      /\ IslIf(files.isls, s, i) \in Nat
  BY <1>1, <1>2, CountEnds DEF IslIf
<1>10. Rank(S, m) = IslIf(files.isls, s, i) BY <1>8, <1>9 DEF Rank
<1>11. /\ Rank(S, m) + 1 \in 1..Len(interfaces[s]) /\ interfaces[s][Rank(S, m) + 1] = m
       /\ Len(interfaces[s]) \in Nat
  BY <1>1, <1>5, <1>7, InterfaceFacts
<1> HIDE DEF S, m
<1>12. PICK r \in Nat : r = IslIf(files.isls, s, i) BY <1>9
<1>13. r >= 0 /\ r < Len(interfaces[s]) /\ 1 + r = r + 1 BY <1>10, <1>11, <1>12
<1>14. HasInterface(s, r) BY <1>13 DEF HasInterface
<1>15. interfaces[s][1 + r] = m BY <1>10, <1>11, <1>12, <1>13
<1> QED BY <1>4, <1>9, <1>12, <1>14, <1>15 DEF m

(* Behind the links, every node has one interface to the shared channel. *)
LEMMA GroundInterfaces ==
    ASSUME NetworkInv, generated, phase = "running", NEW n \in 0..(allNodes - 1)
    PROVE  /\ GslIf(files.isls, n) \in Nat /\ HasInterface(n, GslIf(files.isls, n))
           /\ NetDevice(n, GslIf(files.isls, n)).channel = Gsl
           /\ n >= files.blocks => GslIf(files.isls, n) = 0
<1>1. /\ DevicesInv /\ InterfacesInv /\ Done \in Nat /\ Len(files.isls) = Done
      /\ files.isls \in Seq(LinksAmong(files.blocks)) /\ files.blocks \in Nat
      /\ Len(files.stations) \in Nat /\ allNodes = files.blocks + Len(files.stations)
      /\ Len(devices) = 2 * Done + allNodes
      /\ \A k \in 0..(allNodes - 1) : devices[2 * Done + k + 1].node = k
  BY GeneratedRunning
<1> DEFINE S == OfNode(devices, n)
           m == 2 * Done + n + 1
           L == LinksOf(files.isls, n)
<1>2. m \in 1..Len(devices) /\ DOMAIN devices = 1..Len(devices) /\ n \in Nat
  <2>1. DOMAIN devices = 1..Len(devices) BY <1>1 DEF DevicesInv
  <2> QED BY <1>1, <2>1
<1>3. m \in S BY <1>1, <1>2 DEF OfNode
<1>4. {k \in S : k < m} = {k \in S : k < 2 * (Done + 1) - 1}
  <2> SUFFICES ASSUME NEW k \in S PROVE k < m <=> k < 2 * (Done + 1) - 1 OBVIOUS
  <2>1. k \in 1..Len(devices) /\ devices[k].node = n BY <1>2 DEF OfNode
  <2> HIDE DEF S
  <2>2. CASE k > 2 * Done
    <3>1. PICK j \in 0..(allNodes - 1) : k = 2 * Done + j + 1
      <4>1. k - 2 * Done - 1 \in 0..(allNodes - 1) /\ k = 2 * Done + (k - 2 * Done - 1) + 1
        <5>1. Len(devices) = 2 * Done + allNodes /\ Done \in Nat /\ allNodes \in Nat BY <1>1
        <5>2. k \in 1..(2 * Done + allNodes) BY <2>1, <5>1
        <5> QED BY ONLY <2>2, <5>1, <5>2
      <4> QED BY <4>1
    <3>2. j = n BY <1>1, <2>1, <3>1
    <3> QED BY <1>1, <1>2, <2>1, <3>1, <3>2
  <2>3. CASE ~ (k > 2 * Done) BY <1>1, <1>2, <2>1, <2>3
  <2> QED BY <2>2, <2>3
<1>5. {j \in L : j < Done + 1} = L
  <2>1. \A j \in L : j \in 1..Done BY <1>1 DEF LinksOf
  <2> HIDE DEF L
  <2> QED BY <1>1, <2>1
<1>6. /\ Cardinality({k \in S : k < 2 * (Done + 1) - 1}) = Cardinality(L)
      /\ Cardinality(L) \in Nat
  <2>1. Done + 1 \in 1..(Done + 1) BY <1>1
  <2>2. PICK i \in 1..(Done + 1) : i = Done + 1 BY <2>1
  <2>3. /\ Cardinality({k \in S : k < 2 * i - 1}) = Cardinality({j \in L : j < i})
        /\ Cardinality({j \in L : j < i}) \in Nat
    BY <1>1, CountEnds
  <2> HIDE DEF S, L
  <2> QED BY <1>5, <2>2, <2>3
<1>7. GslIf(files.isls, n) = Cardinality(L) BY DEF GslIf
<1>8. Rank(S, m) = Cardinality(L) BY <1>4, <1>6 DEF Rank
<1>9. /\ Rank(S, m) + 1 \in 1..Len(interfaces[n]) /\ interfaces[n][Rank(S, m) + 1] = m
      /\ Len(interfaces[n]) \in Nat
  BY <1>1, <1>3, InterfaceFacts
<1>10. devices[m].channel = Gsl
  <2>1. m > 2 * Done BY <1>1, <1>2
  <2>2. m \in DOMAIN devices BY <1>2
  <2> HIDE DEF m
  <2> QED BY <1>1, <2>1, <2>2 DEF DevicesInv
<1>11. n >= files.blocks => Cardinality(L) = 0
  <2> SUFFICES ASSUME n >= files.blocks PROVE L = {} BY FS_EmptySet
  <2> SUFFICES ASSUME NEW j \in L PROVE FALSE OBVIOUS
  <2>1. j \in 1..Len(files.isls) /\ (files.isls[j][1] = n \/ files.isls[j][2] = n)
    BY <1>1 DEF LinksOf
  <2>2. files.isls[j] \in LinksAmong(files.blocks) BY <1>1, <2>1, ElementOf
  <2>3. n \in 0..(files.blocks - 1) BY <2>1, <2>2 DEF LinksAmong
  <2> QED BY <1>1, <2>3
<1> HIDE DEF S, m, L
<1>12. PICK r \in Nat : r = Cardinality(L) BY <1>6
<1>13. r >= 0 /\ r < Len(interfaces[n]) /\ 1 + r = r + 1 BY <1>8, <1>9, <1>12
<1>14. HasInterface(n, r) BY <1>13 DEF HasInterface
<1>15. interfaces[n][1 + r] = m BY <1>8, <1>9, <1>12, <1>13
<1>16. NetDevice(n, r).channel = Gsl BY <1>10, <1>15 DEF NetDevice
<1> QED BY <1>7, <1>11, <1>12, <1>14, <1>16

(* A line that names interfaces is accepted if they are at the nodes it    *)
(* names and both at the shared channel, or at the two ends of one link.   *)
LEMMA Accepted ==
    ASSUME NEW l, l.from \in 0..(allNodes - 1), l.to \in 0..(allNodes - 1),
           l.next \in 0..(allNodes - 1), l.my # -1, l.nxt # -1,
           HasInterface(l.from, l.my), HasInterface(l.next, l.nxt),
           IF NetDevice(l.from, l.my).channel = Gsl
           THEN NetDevice(l.next, l.nxt).channel = Gsl
           ELSE /\ NetDevice(l.next, l.nxt).channel # Gsl
                /\ OtherEnd(l.from, interfaces[l.from][1 + l.my]) = interfaces[l.next][1 + l.nxt]
    PROVE  LineAccepted(l)
<1>1. l.next # -1 /\ l.next \in -1..(allNodes - 1)
  <2>1. PICK x \in 0..(allNodes - 1) : x = l.next OBVIOUS
  <2>2. x # -1 /\ (x \in -1..(allNodes - 1)) OBVIOUS
  <2> QED BY <2>1, <2>2
<1>2. {f \in {"next", "my", "nxt"} : l[f] = -1} = {}
  <2>1. l["next"] # -1 /\ l["my"] # -1 /\ l["nxt"] # -1 BY <1>1
  <2> QED BY <2>1
<1> QED BY <1>1, <1>2 DEF LineAccepted

(* Two different things. *)
LEMMA Pair ==
    ASSUME NEW a, NEW b, a # b
    PROVE  IsFiniteSet({a, b}) /\ Cardinality({a, b}) = 2
<1>1. IsFiniteSet({a}) /\ Cardinality({a}) = 1 BY FS_Singleton
<1>2. IsFiniteSet({a} \cup {b}) /\ Cardinality({a} \cup {b}) = 2
  <2>1. b \notin {a} OBVIOUS
  <2> QED BY <1>1, <2>1, FS_AddElement
<1>3. {a, b} = {a} \cup {b} OBVIOUS
<1> QED BY <1>2, <1>3

(* Three different things. *)
LEMMA Triple ==
    ASSUME NEW a, NEW b, NEW c, a # b, a # c, b # c
    PROVE  Cardinality({a, b, c}) = 3
<1>1. IsFiniteSet({b, c}) /\ Cardinality({b, c}) = 2 BY Pair
<1>2. Cardinality({b, c} \cup {a}) = 3
  <2>1. a \notin {b, c} OBVIOUS
  <2> QED BY <1>1, <2>1, FS_AddElement
<1>3. {a, b, c} = {b, c} \cup {a} OBVIOUS
<1> QED BY <1>2, <1>3

(* A line is a drop if it says so three times. *)
LEMMA DropAccepted ==
    ASSUME NEW l, l.from \in 0..(allNodes - 1), l.to \in 0..(allNodes - 1),
           l.next = -1, l.my = -1, l.nxt = -1, allNodes \in Nat
    PROVE  LineAccepted(l)
<1> DEFINE A == {"next", "my", "nxt"}
           minus == {f \in A : l[f] = -1}
<1>1. minus = A
  <2>1. l["next"] = -1 /\ l["my"] = -1 /\ l["nxt"] = -1 OBVIOUS
  <2> QED BY <2>1
<1>2. Cardinality(A) = 3
  <2>1. "next" # "my" /\ "next" # "nxt" /\ "my" # "nxt" OBVIOUS
  <2>2. PICK x, y, z : x = "next" /\ y = "my" /\ z = "nxt" OBVIOUS
  <2>3. Cardinality({x, y, z}) = 3
    <3>1. x # y /\ x # z /\ y # z BY <2>1, <2>2
    <3> QED BY ONLY <3>1, Triple, Zenon
  <2> QED BY <2>2, <2>3
<1>3. l.next \in -1..(allNodes - 1) OBVIOUS
<1>4. minus # {} BY <1>1
<1> HIDE DEF A
<1>5. Cardinality(minus) = 3 BY <1>1, <1>2
<1> QED BY <1>3, <1>4, <1>5 DEF LineAccepted, A

(* Every line of the dynamic state of gen_state.py is accepted. *)
LEMMA GeneratedLineAccepted ==
    ASSUME NetworkInv, generated, phase = "running", NEW l \in FstateLines(files)
    PROVE  LineAccepted(l) /\ l.next \in Int /\ l.my \in Int /\ l.nxt \in Int
<1>1. /\ DevicesInv /\ Done \in Nat /\ Len(files.isls) = Done
      /\ files.isls \in Seq(LinksAmong(files.blocks)) /\ files.blocks \in Nat
      /\ Len(files.stations) \in Nat /\ allNodes = files.blocks + Len(files.stations)
  BY GeneratedRunning
<1> DEFINE isls == files.isls
           n == files.blocks
<1>2. PICK g \in Stations(files) :
        l \in NoRouteLines(files, g) \cup IslLines(files, g) \cup DownLines(files, g) \cup UpLines(files, g)
  BY DEF FstateLines
<1>3. /\ \A x \in Stations(files) : x \in 0..(allNodes - 1) /\ x >= n
      /\ \A x \in 0..(n - 1) : x \in 0..(allNodes - 1)
      /\ allNodes \in Nat /\ Nodes(files) = 0..(allNodes - 1)
  <2>1. n \in Nat /\ Len(files.stations) \in Nat /\ allNodes = n + Len(files.stations) BY <1>1
  <2>2. Nodes(files) = 0..(allNodes - 1) /\ Stations(files) = n..(allNodes - 1)
    BY <2>1 DEF Stations, Nodes
  <2> HIDE DEF n
  <2>3. allNodes \in Nat /\ n <= allNodes BY ONLY <2>1
  <2>4. \A x \in n..(allNodes - 1) : x \in 0..(allNodes - 1) /\ x >= n BY ONLY <2>1, <2>3
  <2>5. \A x \in 0..(n - 1) : x \in 0..(allNodes - 1) BY ONLY <2>1, <2>3
  <2> QED BY <2>2, <2>3, <2>4, <2>5
<1>4. CASE l \in NoRouteLines(files, g)
  <2>1. PICK a \in 0..(allNodes - 1) : l = Line(a, g, -1, -1, -1) BY <1>3, <1>4 DEF NoRouteLines
  <2>2. l.from = a /\ l.to = g /\ l.next = -1 /\ l.my = -1 /\ l.nxt = -1 BY <2>1 DEF Line
  <2>3. g \in 0..(allNodes - 1) BY <1>3
  <2> QED BY <1>3, <2>2, <2>3, DropAccepted
<1>5. CASE l \in IslLines(files, g)
  <2>01. PICK i \in DOMAIN isls :
            l \in {Line(s, g, OtherSide(isls, i, s), IslIf(isls, s, i), IslIf(isls, OtherSide(isls, i, s), i)) :
                      s \in {isls[i][1], isls[i][2]}}
    BY <1>5 DEF IslLines
  <2>02. PICK s \in {isls[i][1], isls[i][2]} :
            l = Line(s, g, OtherSide(isls, i, s), IslIf(isls, s, i), IslIf(isls, OtherSide(isls, i, s), i))
    BY <2>01
  <2>03. PICK o \in {isls[i][1], isls[i][2]} : o = OtherSide(isls, i, s) BY DEF OtherSide
  <2>1. /\ o = (IF isls[i][1] = s THEN isls[i][2] ELSE isls[i][1])
        /\ l = Line(s, g, o, IslIf(isls, s, i), IslIf(isls, o, i))
    BY <2>02, <2>03 DEF OtherSide
  <2>2. PICK x, y : x = IslIf(isls, s, i) /\ y = IslIf(isls, o, i) OBVIOUS
  <2>3. l.from = s /\ l.to = g /\ l.next = o /\ l.my = x /\ l.nxt = y BY <2>1, <2>2 DEF Line
  <2>4. /\ s \in 0..(n - 1) /\ x \in Nat /\ HasInterface(s, x) /\ interfaces[s][1 + x] = EndOf(i, s)
        /\ o \in 0..(n - 1) /\ y \in Nat /\ HasInterface(o, y) /\ interfaces[o][1 + y] = EndOf(i, o)
    BY <2>2, LinkInterfaces
  <2>5. i \in 1..Done BY <1>1
  <2>6. isls[i][1] # isls[i][2]
    <3>1. isls[i] \in LinksAmong(n) BY <1>1, <2>5, ElementOf
    <3> QED BY <3>1 DEF LinksAmong
  <2>7. /\ EndOf(i, s) \in {2 * i - 1, 2 * i} /\ EndOf(i, o) \in {2 * i - 1, 2 * i}
        /\ EndOf(i, o) = IF isls[i][1] = s THEN 2 * i ELSE 2 * i - 1
    BY <2>1, <2>6 DEF EndOf
  <2>8. devices[EndOf(i, s)].channel = i /\ devices[EndOf(i, o)].channel = i /\ i # Gsl
    BY <1>1, <2>5, <2>7, LinkDevices DEF Gsl
  <2>9. OtherEnd(s, EndOf(i, s)) = EndOf(i, o) BY <1>1, <2>5, <2>7, OtherEndFacts
  <2>10. NetDevice(s, x).channel # Gsl /\ NetDevice(o, y).channel # Gsl
    BY <2>4, <2>8 DEF NetDevice
  <2>11. s \in 0..(allNodes - 1) /\ o \in 0..(allNodes - 1) /\ g \in 0..(allNodes - 1)
    BY <1>3, <2>4
  <2>12. x # -1 /\ y # -1 BY <2>4
  <2> HIDE DEF n, isls
  <2>13. LineAccepted(l) BY <2>3, <2>4, <2>9, <2>10, <2>11, <2>12, Accepted
  <2>14. l.next \in Int /\ l.my \in Int /\ l.nxt \in Int BY <2>3, <2>4, <2>11
  <2> QED BY <2>13, <2>14
<1>6. ASSUME NEW a \in 0..(allNodes - 1), NEW o \in 0..(allNodes - 1),
             l = Line(a, g, o, GslIf(isls, a), GslIf(isls, o))
      PROVE  LineAccepted(l) /\ l.next \in Int /\ l.my \in Int /\ l.nxt \in Int
  <2>1. PICK x, y : x = GslIf(isls, a) /\ y = GslIf(isls, o) OBVIOUS
  <2>2. l.from = a /\ l.to = g /\ l.next = o /\ l.my = x /\ l.nxt = y BY <1>6, <2>1 DEF Line
  <2>3. /\ x \in Nat /\ HasInterface(a, x) /\ NetDevice(a, x).channel = Gsl
        /\ y \in Nat /\ HasInterface(o, y) /\ NetDevice(o, y).channel = Gsl
    BY <2>1, GroundInterfaces
  <2>4. g \in 0..(allNodes - 1) /\ x # -1 /\ y # -1 BY <1>3, <2>3
  <2> HIDE DEF n, isls
  <2>5. LineAccepted(l) BY <2>2, <2>3, <2>4, Accepted
  <2>6. l.next \in Int /\ l.my \in Int /\ l.nxt \in Int BY <2>2, <2>3
  <2> QED BY <2>5, <2>6
<1>7. \A x \in Stations(files) : GslIf(isls, x) = 0 BY <1>3, GroundInterfaces
<1>8. CASE l \in DownLines(files, g)
  <2>1. PICK s \in 0..(n - 1) : l = Line(s, g, g, GslIf(isls, s), 0) BY <1>8 DEF DownLines
  <2>2. s \in 0..(allNodes - 1) /\ g \in 0..(allNodes - 1) /\ GslIf(isls, g) = 0 BY <1>3, <1>7
  <2> HIDE DEF n, isls
  <2>3. l = Line(s, g, g, GslIf(isls, s), GslIf(isls, g)) BY <2>1, <2>2
  <2> QED BY ONLY <1>6, <2>2, <2>3
<1>9. CASE l \in UpLines(files, g)
  <2>1. PICK h \in Stations(files), s \in 0..(n - 1) : l = Line(h, g, s, 0, GslIf(isls, s))
    BY <1>9 DEF UpLines
  <2>2. s \in 0..(allNodes - 1) /\ h \in 0..(allNodes - 1) /\ GslIf(isls, h) = 0 BY <1>3, <1>7
  <2> HIDE DEF n, isls
  <2>3. l = Line(h, g, s, GslIf(isls, h), GslIf(isls, s)) BY <2>1, <2>2
  <2> QED BY ONLY <1>6, <2>2, <2>3
<1> HIDE DEF isls, n
<1> QED BY <1>2, <1>4, <1>5, <1>8, <1>9

(* What an accepted line leaves in the state of its node. *)
LEMMA AcceptedFollows ==
    ASSUME NEW l, l.next \in Int, l.my \in Int, l.nxt \in Int, LineAccepted(l), l.next >= 0,
           DevicesInv, InterfacesInv
    PROVE  Follows(l.from, <<l.next, 1 + l.my, 1 + l.nxt>>)
<1> DEFINE minus == {f \in {"next", "my", "nxt"} : l[f] = -1}
<1>1. /\ l.from \in 0..(allNodes - 1) /\ l.next \in -1..(allNodes - 1)
      /\ minus = {} \/ Cardinality(minus) = 3
      /\ minus = {} =>
             /\ HasInterface(l.from, l.my) /\ HasInterface(l.next, l.nxt)
             /\ IF NetDevice(l.from, l.my).channel = Gsl
                THEN NetDevice(l.next, l.nxt).channel = Gsl
                ELSE /\ NetDevice(l.next, l.nxt).channel # Gsl
                     /\ OtherEnd(l.from, interfaces[l.from][1 + l.my])
                        = interfaces[l.next][1 + l.nxt]
  BY DEF LineAccepted
<1>2. minus = {}
  <2> SUFFICES ASSUME Cardinality(minus) = 3 PROVE FALSE BY <1>1
  <2>1. l["next"] # -1
    <3>1. l.next # -1 OBVIOUS
    <3> QED BY <3>1
  <2>2. minus \in SUBSET {"my", "nxt"} BY <2>1
  <2>3. "next" # "my" /\ "next" # "nxt" /\ "my" # "nxt" OBVIOUS
  <2>5. IsFiniteSet({"my", "nxt"}) /\ Cardinality({"my", "nxt"}) = 2
    <3>1. PICK x, y, z : x = "next" /\ y = "my" /\ z = "nxt" OBVIOUS
    <3>2. IsFiniteSet({y, z}) /\ Cardinality({y, z}) = 2
      <4>1. x # y /\ x # z /\ y # z BY <2>3, <3>1
      <4> QED BY ONLY <4>1, Pair, Zenon
    <3> QED BY <3>1, <3>2
  <2> HIDE DEF minus
  <2>6. Cardinality(minus) <= 2 BY <2>2, <2>5, FS_Subset
  <2> QED BY <2>6
<1>3. HasInterface(l.from, l.my) /\ HasInterface(l.next, l.nxt)
      /\ IF NetDevice(l.from, l.my).channel = Gsl
         THEN NetDevice(l.next, l.nxt).channel = Gsl
         ELSE OtherEnd(l.from, interfaces[l.from][1 + l.my]) = interfaces[l.next][1 + l.nxt]
  BY <1>1, <1>2
<1> HIDE DEF minus
<1>4. l.next \in 0..(allNodes - 1) BY <1>1
<1>5. Len(interfaces[l.from]) \in Nat /\ Len(interfaces[l.next]) \in Nat
  BY <1>1, <1>4, InterfaceFacts
<1>6. 1 + l.my \in 1..Len(interfaces[l.from]) /\ 1 + l.nxt \in 1..Len(interfaces[l.next])
  BY <1>3, <1>5 DEF HasInterface
<1> QED BY <1>3, <1>4, <1>6 DEF Follows, NetDevice

(* An accepted line directs packets as the checks demand. *)
LEMMA ForwardingLineStep == NetworkInv /\ ForwardingLine => NetworkInv'
<1> SUFFICES ASSUME NetworkInv, ForwardingLine PROVE NetworkInv' OBVIOUS
<1>1. PICK l \in IF generated THEN FstateLines(files) ELSE Lines :
        IF LineAccepted(l)
        THEN /\ nextHop' = [nextHop EXCEPT ![<<l.from, l.to>>] = <<l.next, 1 + l.my, 1 + l.nxt>>]
             /\ read' = read + 1
             /\ UNCHANGED <<input, phase, satellites, allNodes, left, built, arp>>
        ELSE Ends("failed")
  BY DEF ForwardingLine
<1>2. phase = "running" BY DEF ForwardingLine
<1>3. CASE ~ LineAccepted(l)
  <2>1. ~ generated BY <1>1, <1>2, <1>3, GeneratedLineAccepted
  <2> QED BY <1>1, <1>3, <2>1, GivenUp
<1>4. CASE LineAccepted(l)
  <2>1. /\ nextHop' = [nextHop EXCEPT ![<<l.from, l.to>>] = <<l.next, 1 + l.my, 1 + l.nxt>>]
        /\ files' = files /\ generated' = generated /\ satellites' = satellites /\ phase' = phase
        /\ allNodes' = allNodes /\ left' = left /\ devices' = devices /\ interfaces' = interfaces
        /\ network' = network /\ arp' = arp
    BY <1>1, <1>4 DEF input, built
  <2>2. /\ DevicesInv /\ InterfacesInv /\ arp = ArpOf(0..(allNodes - 1))
        /\ DOMAIN nextHop = (0..(allNodes - 1)) \X (0..(allNodes - 1))
        /\ \A p \in DOMAIN nextHop : nextHop[p][1] >= 0 => Follows(p[1], nextHop[p])
    BY <1>2 DEF NetworkInv
  <2>3. Done' = Done /\ Gsl' = Gsl BY <2>1 DEF Done, Gsl
  <2>4. DevicesInv' /\ InterfacesInv' BY <2>1, <2>2, <2>3 DEF DevicesInv, InterfacesInv
  <2>5. ArpOf(0..(allNodes - 1))' = ArpOf(0..(allNodes - 1)) BY <2>1 DEF ArpOf
  <2>6. \A n, m : OtherEnd(n, m)' = OtherEnd(n, m) BY <2>1 DEF OtherEnd
  <2>7. \A n, e : Follows(n, e)' <=> Follows(n, e)
    <3> TAKE n, e
    <3> QED BY <2>1, <2>3, <2>6 DEF Follows
  <2>8. l.next \in Int /\ l.my \in Int /\ l.nxt \in Int
    <3>1. CASE generated BY <1>1, <1>2, <3>1, GeneratedLineAccepted
    <3>2. CASE ~ generated
      <4>1. l \in [from : Nat, to : Nat, next : Int, my : Int, nxt : Int]
        BY <1>1, <3>2, EditedAssumption
      <4> QED BY <4>1
    <3> QED BY <3>1, <3>2
  <2>9. l.next >= 0 => Follows(l.from, <<l.next, 1 + l.my, 1 + l.nxt>>)
    BY <1>4, <2>2, <2>8, AcceptedFollows
  <2>10. DOMAIN nextHop' = DOMAIN nextHop BY <2>1
  <2>11. ASSUME NEW p \in DOMAIN nextHop, nextHop'[p][1] >= 0 PROVE Follows(p[1], nextHop'[p])
    <3>1. CASE p = <<l.from, l.to>>
      <4>1. nextHop'[p] = <<l.next, 1 + l.my, 1 + l.nxt>> BY <2>1, <3>1
      <4>2. p[1] = l.from BY <3>1
      <4>3. nextHop'[p][1] = l.next BY <4>1
      <4> QED BY <2>9, <2>11, <4>1, <4>2, <4>3
    <3>2. CASE p # <<l.from, l.to>>
      <4>1. nextHop'[p] = nextHop[p] BY <2>1, <3>2
      <4> QED BY <2>2, <2>11, <4>1
    <3> QED BY <3>1, <3>2
  <2>12. \A p \in DOMAIN nextHop' : nextHop'[p][1] >= 0 => Follows(p[1], nextHop[p])'
    BY <2>7, <2>10, <2>11
  <2> QED BY <1>2, <2>1, <2>2, <2>3, <2>4, <2>5, <2>10, <2>12 DEF NetworkInv
<1> QED BY <1>3, <1>4

-----------------------------------------------------------------------------
(***************************************************************************)
(* The invariant holds, and with it the properties.                        *)
(***************************************************************************)
(* Where all is unchanged that the invariant is about, it still holds. *)
LEMMA NetworkUnchanged ==
    ASSUME NetworkInv,
           UNCHANGED <<input, phase, satellites, allNodes, left, built, arp, nextHop>>
    PROVE  NetworkInv'
<1>1. /\ files' = files /\ generated' = generated /\ satellites' = satellites /\ phase' = phase
      /\ allNodes' = allNodes /\ left' = left /\ devices' = devices /\ interfaces' = interfaces
      /\ network' = network /\ arp' = arp /\ nextHop' = nextHop
  BY DEF input, built
<1>2. Done' = Done /\ Gsl' = Gsl BY <1>1 DEF Done, Gsl
<1>3. (DevicesInv' <=> DevicesInv) /\ (InterfacesInv' <=> InterfacesInv)
  BY <1>1, <1>2 DEF DevicesInv, InterfacesInv
<1>4. ArpOf(0..(allNodes - 1))' = ArpOf(0..(allNodes - 1)) BY <1>1 DEF ArpOf
<1>5. \A n, m : OtherEnd(n, m)' = OtherEnd(n, m) BY <1>1 DEF OtherEnd
<1>6. \A n, e : Follows(n, e)' <=> Follows(n, e)
  <2> TAKE n, e
  <2> QED BY <1>1, <1>2, <1>5 DEF Follows
<1> QED BY <1>1, <1>2, <1>3, <1>4, <1>6 DEF NetworkInv

(* A rate changes nothing that the invariant is about. *)
LEMMA BandwidthLineStep == NetworkInv /\ BandwidthLine => NetworkInv'
<1> SUFFICES ASSUME NetworkInv, BandwidthLine PROVE NetworkInv' OBVIOUS
<1>1. PICK r \in IF generated THEN GslIfBandwidthLines(files) ELSE Rates :
        IF r.node \notin 0..(allNodes - 1) \/ ~ HasInterface(r.node, r.if) THEN Ends("failed")
        ELSE IF NetDevice(r.node, r.if).channel # Gsl THEN Ends("undefined")
        ELSE /\ read' = read + 1
             /\ UNCHANGED <<input, phase, satellites, allNodes, left, built, arp, nextHop>>
  BY DEF BandwidthLine
<1>2. phase = "running" BY DEF BandwidthLine
<1>3. ASSUME generated
      PROVE  /\ r.node \in 0..(allNodes - 1) /\ HasInterface(r.node, r.if)
             /\ NetDevice(r.node, r.if).channel = Gsl
  <2>1. /\ files.blocks \in Nat /\ Len(files.stations) \in Nat
        /\ allNodes = files.blocks + Len(files.stations)
    BY <1>2, <1>3, GeneratedRunning
  <2>2. PICK n \in 0..(allNodes - 1) : r.node = n /\ r.if = GslIf(files.isls, n)
    <3>1. r \in GslIfBandwidthLines(files) BY <1>1, <1>3
    <3>2. CASE \E s \in 0..(files.blocks - 1) : r = [node |-> s, if |-> GslIf(files.isls, s)]
      BY <2>1, <3>2
    <3>3. CASE \E g \in Stations(files) : r = [node |-> g, if |-> 0]
      <4>1. PICK g \in Stations(files) : r = [node |-> g, if |-> 0] BY <3>3
      <4>2. g \in 0..(allNodes - 1) /\ g >= files.blocks BY <2>1 DEF Stations
      <4>3. GslIf(files.isls, g) = 0 BY <1>2, <1>3, <4>2, GroundInterfaces
      <4> QED BY <4>1, <4>2, <4>3
    <3> QED BY <3>1, <3>2, <3>3 DEF GslIfBandwidthLines
  <2> QED BY <1>2, <1>3, <2>2, GroundInterfaces
<1>4. CASE Ends("failed") \/ Ends("undefined")
  <2>1. phase' # "running" BY <1>4 DEF Ends
  <2>2. ~ generated BY <1>1, <1>2, <1>3, <2>1
  <2> QED BY <1>4, <2>2, GivenUp
<1>5. CASE ~ (Ends("failed") \/ Ends("undefined"))
  <2>1. UNCHANGED <<input, phase, satellites, allNodes, left, built, arp, nextHop>> BY <1>1, <1>5
  <2> QED BY <2>1, NetworkUnchanged
<1> QED BY <1>4, <1>5

(* The invariant is inductive. *)
LEMMA NetworkInvariant == NetworkSpec => []NetworkInv
<1>1. NetworkInit => NetworkInv BY InitNetwork
<1>2. NetworkInv /\ [NetworkNext]_networkVars => NetworkInv'
  <2> SUFFICES ASSUME NetworkInv, [NetworkNext]_networkVars PROVE NetworkInv' OBVIOUS
  <2>1. CASE ReadSatellites BY <2>1, ReadSatellitesStep
  <2>2. CASE ReadGroundStations BY <2>2, ReadGroundStationsStep
  <2>3. CASE ReadISL BY <2>3, ReadISLStep
  <2>4. CASE CreateGSLs BY <2>4, CreateGSLsStep
  <2>5. CASE PopulateArpCaches BY <2>5, PopulateArpCachesStep
  <2>6. CASE ForwardingLine BY <2>6, ForwardingLineStep
  <2>7. CASE BandwidthLine BY <2>7, BandwidthLineStep
  <2>8. CASE UNCHANGED networkVars
    <3>1. UNCHANGED <<input, phase, satellites, allNodes, left, built, arp, nextHop>>
      BY <2>8 DEF networkVars, built
    <3> QED BY <3>1, NetworkUnchanged
  <2> QED BY <2>1, <2>2, <2>3, <2>4, <2>5, <2>6, <2>7, <2>8 DEF NetworkNext
<1> QED BY <1>1, <1>2, PTL DEF NetworkSpec

(* A packet arrives where the entry that directs it says. *)
THEOREM NetworkEntriesLeadToNextHop == NetworkSpec => []EntriesLeadToNextHop
BY NetworkInvariant, InvEntriesLead, PTL

(* Writer and reader agree about every network of gen_state.py. *)
THEOREM NetworkGeneratedIsAccepted == NetworkSpec => []GeneratedIsAccepted
<1>1. NetworkInv => GeneratedIsAccepted BY DEF NetworkInv, GeneratedIsAccepted
<1> QED BY <1>1, NetworkInvariant, PTL
=============================================================================
