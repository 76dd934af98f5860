---------------------------- MODULE SingleForward ----------------------------
(***************************************************************************)
(* The dynamic state of a satellite network and the packets that cross it: *)
(* ArbiterSingleForwardHelper and GslIfBandwidthHelper load, step by step, *)
(* the files fstate_<t>.txt and gsl_if_bandwidth_<t>.txt; each node's      *)
(* ArbiterSingleForward answers from what was loaded last; the IP layer    *)
(* asks it at every node a packet visits.                                  *)
(*                                                                         *)
(* A generator outside this code writes a pair of files every Step.  The   *)
(* first pair says everything, a later one only what changed: a file means *)
(* nothing without all the files before it.                                *)
(*                                                                         *)
(* The devices between two nodes (GslNetDevice, LaserNetDevice) appear     *)
(* here only by the time a packet spends in them, any member of Delay.     *)
(***************************************************************************)
EXTENDS Integers, Sequences, FiniteSets

CONSTANTS
    Node,             \* satellites and ground stations
    GroundStation,    \* the nodes packets are sent from and to
    Isl,              \* the pairs {a, b} of satellites joined by a laser link
    Drop,             \* the entry (-1, -1, -1): no route
    Unset,            \* the entry (-2, -2, -2): never loaded
    Rate,             \* data rates of GSL interfaces
    InitialRate,      \* the rate a GSL interface is built with
    Step,             \* time between two generated files
    Generated,        \* bound: the forwarding states generated, from 0 on
    GeneratedRates,   \* bound: the rates generated, from 0 on
    Intervals,        \* dynamic_state_update_interval_ns
    EndTimes,         \* simulation_end_time_ns
    Flow,             \* <<source, destination>> of the traffic
    StartTimes,       \* when a flow sends first
    Gaps,             \* time from one packet of a flow to the next
    Delay,            \* time from a decision to the arrival at the next node
    InitialTtl,       \* time to live the IP layer gives a packet
    MaxPackets        \* bound: packets sent in a run

Pair == {p \in Node \X GroundStation : p[1] # p[2]}

(* The interface a line of a file names decides whether it is an ISL.      *)
Hop == [next : Node, isl : BOOLEAN]
NoHop == {Drop, Unset}

ASSUME NetworkAssumption ==
    /\ GroundStation \subseteq Node
    /\ Flow \subseteq {f \in GroundStation \X GroundStation : f[1] # f[2]}
    /\ Drop # Unset /\ Drop \notin Hop /\ Unset \notin Hop
ASSUME TimeAssumption ==
    /\ Step \in Nat \ {0}
    /\ Intervals \subseteq Nat \ {0} /\ EndTimes \subseteq Nat
    /\ StartTimes \subseteq Nat /\ Gaps \subseteq Nat /\ Delay \subseteq Nat
    /\ InitialTtl \in Nat \ {0} /\ MaxPackets \in Nat
ASSUME GeneratedAssumption ==
    /\ \A h \in Generated \cup GeneratedRates :
           DOMAIN h \subseteq Nat /\ \A k \in DOMAIN h : 0..k \subseteq DOMAIN h
    /\ \A h \in Generated : \A k \in DOMAIN h :
           /\ DOMAIN h[0] \subseteq Pair
           /\ h[k] \in [DOMAIN h[0] -> Hop \cup {Drop}]
    /\ \A h \in GeneratedRates : \A k \in DOMAIN h : h[k] \in [Node -> Rate]
    /\ InitialRate \in Rate

VARIABLES
    routes,           \* the generated forwarding history
    rates,            \* the generated rate history
    interval,         \* m_dynamicStateUpdateIntervalNs
    endTime,          \* GetSimulationEndTimeNs()
    forceStatic,      \* satellite_network_force_static
    phase,            \* how far main has come, "failed" after an exception or abort
    now,              \* Simulator::Now
    uid,              \* the number the simulator gives to the next event
    updates,          \* pending updates of the two helpers
    sends,            \* pending transmissions of the applications
    arrivals,         \* packets on their way to the next node
    nextHop,          \* m_next_hop_list of all arbiters
    gslRate,          \* data rate of the GSL interface of each node
    fstateTime,       \* history: t of the last UpdateForwardingState
    rateTime,         \* history: t of the last UpdateGslIfBandwidth
    sent,             \* history: packets sent so far
    settled           \* history: <<packet, fate>> of the packets that are gone

config == <<routes, rates, interval, endTime, forceStatic>>
installed == <<nextHop, gslRate, fstateTime, rateTime>>
traffic == <<sends, arrivals, sent, settled>>
vars == <<config, phase, now, uid, updates, installed, traffic>>

-----------------------------------------------------------------------------
(***************************************************************************)
(* The simulator runs the event scheduled first among the earliest ones.   *)
(* Its stop event was scheduled before all others: no event at the end     *)
(* time itself runs any more.                                              *)
(***************************************************************************)
Events == updates \cup sends \cup arrivals

IsNextEvent(e) ==
    /\ e.ts < endTime
    /\ \A f \in Events : e.ts < f.ts \/ (e.ts = f.ts /\ e.uid <= f.uid)

Runs(e) == phase = "running" /\ IsNextEvent(e) /\ now' = e.ts

(***************************************************************************)
(* The generated files.                                                    *)
(***************************************************************************)
FileExists(history, t) == t % Step = 0 /\ t \div Step \in DOMAIN history

(* The keys whose line is in the file at t: all of them, or those changed. *)
Changed(history, t) ==
    LET k == t \div Step IN
    {x \in DOMAIN history[0] : k = 0 \/ history[k][x] # history[k - 1][x]}

(* Mutant of Overlay: the lines that say "drop" are skipped. *)
OverlayWithoutDrops(table, history, t) ==
    [x \in DOMAIN table |->
        IF x \in Changed(history, t) /\ history[t \div Step][x] # Drop
        THEN history[t \div Step][x] ELSE table[x]]

(* The overlay of the lines of the file at t on what is installed. *)
Overlay(table, history, t) ==
    [x \in DOMAIN table |-> IF x \in Changed(history, t)
                            THEN history[t \div Step][x] ELSE table[x]]

(* A line over an ISL must name the two ends of one; every node has a GSL  *)
(* interface, so any line over a GSL is accepted.                          *)
LineAccepted(x, hop) == (hop # Drop /\ hop.isl) => {x[1], hop.next} \in Isl

FileAccepted(t) ==
    \A x \in Changed(routes, t) : LineAccepted(x, routes[t \div Step][x])

(***************************************************************************)
(* The two helpers.                                                        *)
(***************************************************************************)
(* Mutant of NextUpdate: an update is planned for the end time too. *)
NextUpdateUpToEnd(helper, t) ==
    IF ~forceStatic /\ t + interval <= endTime
    THEN {[helper |-> helper, ts |-> t + interval, uid |-> uid]} ELSE {}

(* Mutant of NextUpdate: the bandwidth helper ignores force_static. *)
NextUpdateForcesRates(helper, t) ==
    IF (helper = "fstate" => ~forceStatic) /\ t + interval < endTime
    THEN {[helper |-> helper, ts |-> t + interval, uid |-> uid]} ELSE {}

(* The update after the one at t, if there is one. *)
NextUpdate(helper, t) ==
    IF ~forceStatic /\ t + interval < endTime
    THEN {[helper |-> helper, ts |-> t + interval, uid |-> uid]} ELSE {}

(* Mutant of LoadFstate: each file replaces the state before it. *)
LoadFstateAfresh(t, pending) ==
    /\ nextHop' = Overlay([p \in Pair |-> Unset], routes, t)
    /\ fstateTime' = t
    /\ updates' = pending \cup NextUpdate("fstate", t)
    /\ uid' = uid + 1
    /\ UNCHANGED <<gslRate, rateTime>>

(* Mutant of LoadFstate: after t = 0 only lines over laser links are set. *)
LoadFstateLaserOnly(t, pending) ==
    /\ nextHop' = [x \in Pair |->
                      LET hop == Overlay(nextHop, routes, t)[x] IN
                      IF t > 0 /\ hop \notin NoHop /\ ~hop.isl THEN nextHop[x] ELSE hop]
    /\ fstateTime' = t
    /\ updates' = pending \cup NextUpdate("fstate", t)
    /\ uid' = uid + 1
    /\ UNCHANGED <<gslRate, rateTime>>

LoadFstate(t, pending) ==
    /\ nextHop' = Overlay(nextHop, routes, t)
    /\ fstateTime' = t
    /\ updates' = pending \cup NextUpdate("fstate", t)
    /\ uid' = uid + 1
    /\ UNCHANGED <<gslRate, rateTime>>

CanLoadFstate(t) == FileExists(routes, t) /\ FileAccepted(t)

(* Mutant of LoadRates: interfaces the file does not name get the rate     *)
(* they were built with.                                                   *)
LoadRatesAfresh(t, pending) ==
    /\ gslRate' = Overlay([n \in Node |-> InitialRate], rates, t)
    /\ rateTime' = t
    /\ updates' = pending \cup NextUpdate("rate", t)
    /\ uid' = uid + 1
    /\ UNCHANGED <<nextHop, fstateTime>>

LoadRates(t, pending) ==
    /\ gslRate' = Overlay(gslRate, rates, t)
    /\ rateTime' = t
    /\ updates' = pending \cup NextUpdate("rate", t)
    /\ uid' = uid + 1
    /\ UNCHANGED <<nextHop, fstateTime>>

Fail == /\ phase' = "failed"
        /\ UNCHANGED <<uid, updates, installed, traffic>>

UpdateForwardingState(e) ==
    /\ e \in updates /\ e.helper = "fstate" /\ Runs(e)
    /\ \/ /\ CanLoadFstate(e.ts)
          /\ LoadFstate(e.ts, updates \ {e})
          /\ UNCHANGED <<phase, traffic>>
       \/ ~CanLoadFstate(e.ts) /\ Fail
    /\ UNCHANGED config

UpdateGslIfBandwidth(e) ==
    /\ e \in updates /\ e.helper = "rate" /\ Runs(e)
    /\ \/ /\ FileExists(rates, e.ts)
          /\ LoadRates(e.ts, updates \ {e})
          /\ UNCHANGED <<phase, traffic>>
       \/ ~FileExists(rates, e.ts) /\ Fail
    /\ UNCHANGED config

(***************************************************************************)
(* main, in its order: arbiters and their first forwarding state, first    *)
(* rates, then the schedulers of the traffic.                              *)
(***************************************************************************)
Init ==
    /\ routes \in Generated /\ rates \in GeneratedRates
    /\ interval \in Intervals /\ endTime \in EndTimes /\ forceStatic \in BOOLEAN
    /\ phase = "arbiters" /\ now = 0 /\ uid = 0
    /\ updates = {} /\ sends = {} /\ arrivals = {}
    /\ nextHop = [p \in Pair |-> Unset] /\ gslRate = [n \in Node |-> InitialRate]
    /\ fstateTime = 0 /\ rateTime = 0
    /\ sent = 0 /\ settled = {}

ConstructArbiterHelper ==
    /\ phase = "arbiters"
    /\ \/ /\ CanLoadFstate(0)
          /\ LoadFstate(0, {})
          /\ phase' = "rates"
          /\ UNCHANGED traffic
       \/ ~CanLoadFstate(0) /\ Fail
    /\ UNCHANGED <<config, now>>

ConstructBandwidthHelper ==
    /\ phase = "rates"
    /\ \/ /\ FileExists(rates, 0)
          /\ LoadRates(0, updates)
          /\ phase' = "flows"
          /\ UNCHANGED traffic
       \/ ~FileExists(rates, 0) /\ Fail
    /\ UNCHANGED <<config, now>>

ScheduleFlow(f, t) ==
    /\ phase = "flows"
    /\ \A e \in sends : e.flow # f
    /\ sends' = sends \cup {[flow |-> f, ts |-> t, uid |-> uid]}
    /\ uid' = uid + 1
    /\ UNCHANGED <<config, phase, now, updates, installed, arrivals, sent, settled>>

StartSimulation ==
    /\ phase = "flows"
    /\ phase' = "running"
    /\ UNCHANGED <<config, now, uid, updates, installed, traffic>>

(***************************************************************************)
(* A decision of the arbiter of node n for packet p: Ipv4ArbiterRouting::  *)
(* LookupArbiter, ArbiterSatnet::Decide.  The trail is history: where the  *)
(* route was looked up, when, to which node, and from which files.  Only   *)
(* then does the IP layer look at the time to live.                        *)
(***************************************************************************)
Decided(n, p, t, hop) ==
    [p EXCEPT !.trail = Append(@,
        [node |-> n, next |-> hop.next, ts |-> t, fstate |-> fstateTime, rate |-> rateTime])]

Route(n, p, t, pending) ==
    LET hop == nextHop[<<n, p.to>>] IN
    \/ /\ hop = Unset
       /\ phase' = "failed"
       /\ arrivals' = pending
       /\ UNCHANGED settled
    \/ /\ hop = Drop
       /\ settled' = settled \cup {<<p, "no route">>}
       /\ arrivals' = pending
       /\ UNCHANGED phase
    \/ /\ hop \notin NoHop /\ p.ttl = 0
       /\ settled' = settled \cup {<<Decided(n, p, t, hop), "expired">>}
       /\ arrivals' = pending
       /\ UNCHANGED phase
    \/ /\ hop \notin NoHop /\ p.ttl # 0
       /\ \E delay \in Delay :
              arrivals' = pending \cup
                  {[ts |-> t + delay, uid |-> uid, node |-> hop.next,
                    pkt |-> Decided(n, p, t, hop)]}
       /\ UNCHANGED <<phase, settled>>

(* An application sends a packet and schedules its next one. *)
Send(e) ==
    LET p == [id |-> sent, from |-> e.flow[1], to |-> e.flow[2],
              ttl |-> InitialTtl, trail |-> <<>>]
    IN  /\ e \in sends /\ Runs(e)
        /\ Route(p.from, p, e.ts, arrivals)
        /\ sent' = sent + 1
        /\ \/ sends' = sends \ {e}
           \/ /\ sent + 1 < MaxPackets
              /\ \E gap \in Gaps : sends' = (sends \ {e}) \cup
                     {[flow |-> e.flow, ts |-> e.ts + gap, uid |-> uid + 1]}
        /\ uid' = uid + 2
        /\ UNCHANGED <<config, updates, installed>>

(* A packet reaches a node: its destination, or one that routes it on      *)
(* (Ipv4ArbiterRouting::RouteInput, Ipv4L3Protocol::IpForward).            *)
Arrive(e) ==
    /\ e \in arrivals /\ Runs(e)
    /\ \/ /\ e.node = e.pkt.to
          /\ settled' = settled \cup {<<e.pkt, "delivered">>}
          /\ arrivals' = arrivals \ {e}
          /\ UNCHANGED phase
       \/ /\ e.node # e.pkt.to
          /\ Route(e.node, [e.pkt EXCEPT !.ttl = @ - 1], e.ts, arrivals \ {e})
    /\ uid' = uid + 1
    /\ UNCHANGED <<config, updates, installed, sends, sent>>

(* Simulator::Stop: what is pending at the end time is lost. *)
Stop ==
    /\ phase = "running"
    /\ \A e \in Events : endTime <= e.ts
    /\ phase' = "stopped" /\ now' = endTime
    /\ UNCHANGED <<config, uid, updates, installed, traffic>>

Next ==
    \/ ConstructArbiterHelper
    \/ ConstructBandwidthHelper
    \/ \E f \in Flow, t \in StartTimes : ScheduleFlow(f, t)
    \/ StartSimulation
    \/ \E e \in updates : UpdateForwardingState(e) \/ UpdateGslIfBandwidth(e)
    \/ \E e \in sends : Send(e)
    \/ \E e \in arrivals : Arrive(e)
    \/ Stop

Spec == Init /\ [][Next]_vars
-----------------------------------------------------------------------------
(***************************************************************************)
(* Correctness.                                                            *)
(***************************************************************************)
Update == [helper : {"fstate", "rate"}, ts : Nat, uid : Nat]
SendEvent == [flow : Flow, ts : Nat, uid : Nat]
Decision == [node : Node, next : Node, ts : Nat, fstate : Nat, rate : Nat]
Packet == [id : Nat, from : GroundStation, to : GroundStation,
           ttl : 0..InitialTtl, trail : Seq(Decision)]
Arrival == [ts : Nat, uid : Nat, node : Node, pkt : Packet]
Fate == {"delivered", "no route", "expired"}

(* Every variable has its type; no update is planned for the end time.     *)
TypeOK ==
    /\ routes \in Generated /\ rates \in GeneratedRates
    /\ interval \in Intervals /\ endTime \in EndTimes /\ forceStatic \in BOOLEAN
    /\ phase \in {"arbiters", "rates", "flows", "running", "stopped", "failed"}
    /\ now \in Nat /\ uid \in Nat
    /\ updates \subseteq Update /\ \A e \in updates : e.ts < endTime
    /\ sends \subseteq SendEvent
    /\ arrivals \subseteq Arrival /\ \A e \in arrivals : e.pkt.ttl # 0
    /\ nextHop \in [Pair -> Hop \cup NoHop] /\ gslRate \in [Node -> Rate]
    /\ fstateTime \in Nat /\ rateTime \in Nat
    /\ sent \in Nat /\ settled \subseteq (Packet \X Fate)

(***************************************************************************)
(* With files that are all acceptable and cover the run at the interval    *)
(* that is configured, no run fails: no file is missing when its update    *)
(* comes and no packet meets an entry that was never set.                  *)
(***************************************************************************)
FilesCoverRun ==
    /\ \A k \in DOMAIN routes : DOMAIN routes[k] = Pair /\ FileAccepted(k * Step)
    /\ \A t \in {0} \cup 0..(endTime - 1) :
           t % interval = 0 /\ (t = 0 \/ ~forceStatic) =>
               FileExists(routes, t) /\ FileExists(rates, t)
NeverFails == FilesCoverRun => phase # "failed"

(* The packets of the run, wherever they are. *)
Packets == {e.pkt : e \in arrivals} \cup {s[1] : s \in settled}

(***************************************************************************)
(* The two helpers update the network one after the other, in two events,  *)
(* but no packet is ever routed between the two: the forwarding state and  *)
(* the rates a decision is made with come from the same moment.            *)
(***************************************************************************)
DecisionsUseOneUpdate ==
    \A p \in Packets : \A i \in DOMAIN p.trail : p.trail[i].fstate = p.trail[i].rate

(***************************************************************************)
(* If every generated file is loaded, each hop of each packet is the one   *)
(* the files up to that moment, laid over each other, give its node: what  *)
(* scripts/path_truth.py takes for the path is the path.  At the very      *)
(* instant of an update it may still be the hop of the step that ends.     *)
(***************************************************************************)
InForce(k, t) == IF forceStatic THEN k = 0
                 ELSE k * Step <= t /\ t <= (k + 1) * Step
FollowsGeneratedPath ==
    interval = Step =>
        \A p \in Packets : \A i \in DOMAIN p.trail :
            LET d == p.trail[i] IN
            \E k \in DOMAIN routes :
                /\ InForce(k, d.ts)
                /\ routes[k][<<d.node, p.to>>] # Drop
                /\ routes[k][<<d.node, p.to>>].next = d.next

(* A forwarding state without loops: shorter and shorter ways to go. *)
LoopFree(table) ==
    \A g \in GroundStation : \E dist \in [Node -> 0..Cardinality(Node)] :
        \A x \in DOMAIN table :
            x[2] = g /\ table[x] # Drop => dist[table[x].next] < dist[x[1]]

(***************************************************************************)
(* If no generated state has a loop and every file is loaded, a packet     *)
(* visits a node twice only if the forwarding state changed in between.    *)
(***************************************************************************)
LoopsNeedAnUpdate ==
    (interval = Step /\ \A k \in DOMAIN routes : LoopFree(routes[k])) =>
        \A p \in Packets : \A i, j \in DOMAIN p.trail :
            i < j /\ p.trail[i].node = p.trail[j].node =>
                p.trail[i].fstate < p.trail[j].fstate

(***************************************************************************)
(* What the arbiters and the GSL devices hold is what the generator meant: *)
(* if every file is loaded, the rates of all interfaces are those of one   *)
(* generated state in force, those included that many files passed over in *)
(* silence, and unless the rates of this very moment are still to come,    *)
(* the entries are those of the same state.  With force_static that is the *)
(* first state, to the end of the run.                                     *)
(***************************************************************************)
InstalledIsGenerated ==
    phase = "running" /\ interval = Step =>
        \E k \in DOMAIN rates :
            /\ InForce(k, now) /\ gslRate = rates[k]
            /\ fstateTime = rateTime =>
                   \A x \in DOMAIN routes[k] : nextHop[x] = routes[k][x]
=============================================================================
