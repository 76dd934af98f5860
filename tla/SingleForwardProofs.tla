------------------------- MODULE SingleForwardProofs -------------------------
(***************************************************************************)
(* Proofs about SingleForward: its types; that no packet is routed between *)
(* the updates of the two helpers; that files that cover a run let it end; *)
(* and that, with every generated file loaded, what is installed is a      *)
(* generated state in force, each hop is one such a state gives, and a     *)
(* loop needs an update.                                                   *)
(***************************************************************************)
EXTENDS SingleForward, SequenceTheorems, TLAPS

-----------------------------------------------------------------------------
(***************************************************************************)
(* Types.                                                                  *)
(***************************************************************************)
(* What a lookup adds to a packet: one decision at the end of its trail. *)
LEMMA DecidedType ==
    ASSUME NEW n \in Node, NEW p \in Packet, NEW t \in Nat, NEW hop \in Hop,
           fstateTime \in Nat, rateTime \in Nat
    PROVE  LET q == Decided(n, p, t, hop)
               d == [node |-> n, next |-> hop.next, ts |-> t,
                     fstate |-> fstateTime, rate |-> rateTime]
           IN  /\ q \in Packet /\ d \in Decision
               /\ q.ttl = p.ttl /\ q.to = p.to /\ q.trail = Append(p.trail, d)
<1> DEFINE d == [node |-> n, next |-> hop.next, ts |-> t,
                 fstate |-> fstateTime, rate |-> rateTime]
<1>1. d \in Decision BY DEF Decision, Hop
<1> HIDE DEF d
<1>2. p.trail \in Seq(Decision) BY DEF Packet
<1>3. Append(p.trail, d) \in Seq(Decision) BY <1>1, <1>2
<1>4. Decided(n, p, t, hop) = [p EXCEPT !.trail = Append(@, d)] BY DEF Decided, d
<1>5. [p EXCEPT !.trail = Append(@, d)] \in Packet BY <1>3 DEF Packet
<1>6. /\ [p EXCEPT !.trail = Append(@, d)].ttl = p.ttl
      /\ [p EXCEPT !.trail = Append(@, d)].to = p.to
      /\ [p EXCEPT !.trail = Append(@, d)].trail = Append(p.trail, d)
  BY DEF Packet
<1> QED BY <1>1, <1>4, <1>5, <1>6 DEF d

(* An update that is loaded keeps the tables typed. *)
LEMMA OverlayType ==
    ASSUME TypeOK, NEW t \in Nat
    PROVE  /\ FileExists(routes, t) =>
                  Overlay(nextHop, routes, t) \in [Pair -> Hop \cup NoHop]
           /\ FileExists(rates, t) => Overlay(gslRate, rates, t) \in [Node -> Rate]
<1>1. ASSUME FileExists(routes, t)
      PROVE  Overlay(nextHop, routes, t) \in [Pair -> Hop \cup NoHop]
  <2> DEFINE k == t \div Step
  <2>1. k \in DOMAIN routes BY <1>1 DEF FileExists
  <2>2. routes \in Generated BY DEF TypeOK
  <2>3. routes[k] \in [DOMAIN routes[0] -> Hop \cup {Drop}] BY <2>1, <2>2, GeneratedAssumption
  <2>4. nextHop \in [Pair -> Hop \cup NoHop] BY DEF TypeOK
  <2> QED BY <2>3, <2>4 DEF Overlay, Changed, NoHop
<1>2. ASSUME FileExists(rates, t)
      PROVE  Overlay(gslRate, rates, t) \in [Node -> Rate]
  <2> DEFINE k == t \div Step
  <2>1. k \in DOMAIN rates BY <1>2 DEF FileExists
  <2>2. rates \in GeneratedRates BY DEF TypeOK
  <2>3. rates[k] \in [Node -> Rate] BY <2>1, <2>2, GeneratedAssumption
  <2>4. gslRate \in [Node -> Rate] BY DEF TypeOK
  <2> QED BY <2>3, <2>4 DEF Overlay, Changed
<1> QED BY <1>1, <1>2

(* The update a helper plans is one, and before the end time. *)
LEMMA NextUpdateType ==
    ASSUME TypeOK, NEW t \in Nat, NEW h \in {"fstate", "rate"}
    PROVE  /\ NextUpdate(h, t) \subseteq Update
           /\ \A e \in NextUpdate(h, t) : e.ts < endTime
<1>1. interval \in Nat /\ uid \in Nat /\ endTime \in Nat BY TimeAssumption DEF TypeOK
<1>2. t + interval \in Nat BY <1>1
<1>3. [helper |-> h, ts |-> t + interval, uid |-> uid] \in Update BY <1>1, <1>2 DEF Update
<1>4. CASE ~forceStatic /\ t + interval < endTime
  <2>1. NextUpdate(h, t) = {[helper |-> h, ts |-> t + interval, uid |-> uid]}
    BY <1>4 DEF NextUpdate
  <2> QED BY <2>1, <1>3, <1>4
<1>5. CASE ~(~forceStatic /\ t + interval < endTime)
  BY <1>5 DEF NextUpdate
<1> QED BY <1>4, <1>5

(* Routing a packet keeps its places typed. *)
LEMMA RouteType ==
    ASSUME TypeOK, NEW n \in Node, NEW p \in Packet, NEW t \in Nat,
           NEW pending, pending \subseteq Arrival,
           \A e \in pending : e.pkt.ttl # 0,
           n # p.to, phase = "running", Route(n, p, t, pending)
    PROVE  /\ arrivals' \subseteq Arrival /\ \A e \in arrivals' : e.pkt.ttl # 0
           /\ settled' \subseteq (Packet \X Fate)
           /\ phase' \in {"running", "failed"}
<1> DEFINE hop == nextHop[<<n, p.to>>]
<1>1. <<n, p.to>> \in Pair BY DEF Pair, Packet
<1>2. hop \in Hop \cup NoHop BY <1>1 DEF TypeOK
<1>3. settled \subseteq (Packet \X Fate) /\ fstateTime \in Nat /\ rateTime \in Nat /\ uid \in Nat
  BY DEF TypeOK
<1>4. CASE /\ hop = Unset /\ phase' = "failed" /\ arrivals' = pending
           /\ UNCHANGED settled
  BY <1>4, <1>3
<1>5. CASE /\ hop = Drop /\ settled' = settled \cup {<<p, "no route">>}
           /\ arrivals' = pending /\ UNCHANGED phase
  <2>1. <<p, "no route">> \in Packet \X Fate BY DEF Fate
  <2> QED BY ONLY <2>1, <1>5, <1>3, phase = "running", pending \subseteq Arrival,
                  \A e \in pending : e.pkt.ttl # 0
<1>6. CASE /\ hop \notin NoHop /\ p.ttl = 0
           /\ settled' = settled \cup {<<Decided(n, p, t, hop), "expired">>}
           /\ arrivals' = pending /\ UNCHANGED phase
  <2>1. hop \in Hop BY <1>2, <1>6
  <2>2. Decided(n, p, t, hop) \in Packet BY <2>1, <1>3, DecidedType
  <2>3. <<Decided(n, p, t, hop), "expired">> \in Packet \X Fate BY <2>2 DEF Fate
  <2> QED BY ONLY <2>3, <1>6, <1>3, phase = "running", pending \subseteq Arrival,
                  \A e \in pending : e.pkt.ttl # 0
<1>7. ASSUME hop \notin NoHop, p.ttl # 0, NEW delay \in Delay,
             arrivals' = pending \cup
                 {[ts |-> t + delay, uid |-> uid, node |-> hop.next,
                   pkt |-> Decided(n, p, t, hop)]},
             UNCHANGED <<phase, settled>>
      PROVE  /\ arrivals' \subseteq Arrival /\ \A e \in arrivals' : e.pkt.ttl # 0
             /\ settled' \subseteq (Packet \X Fate)
             /\ phase' \in {"running", "failed"}
  <2>1. hop \in Hop BY <1>2, <1>7
  <2> DEFINE q == Decided(n, p, t, hop)
  <2>2. q \in Packet /\ q.ttl = p.ttl
    <3>1. n \in Node /\ p \in Packet /\ t \in Nat /\ fstateTime \in Nat /\ rateTime \in Nat
      BY <1>3
    <3> QED BY ONLY <2>1, <3>1, DecidedType
  <2> HIDE DEF q
  <2>3. t + delay \in Nat /\ hop.next \in Node BY <2>1, TimeAssumption DEF Hop
  <2> DEFINE a == [ts |-> t + delay, uid |-> uid, node |-> hop.next, pkt |-> q]
  <2>4. a \in Arrival /\ a.pkt = q BY <2>2, <2>3, <1>3 DEF Arrival
  <2>5. arrivals' = pending \cup {a} BY <1>7 DEF q
  <2> HIDE DEF a
  <2> QED BY <2>2, <2>4, <2>5, <1>3, <1>7
<1> QED BY <1>4, <1>5, <1>6, <1>7 DEF Route

THEOREM SFTypeInitially == Init => TypeOK
<1> SUFFICES ASSUME Init PROVE TypeOK OBVIOUS
<1>1. [p \in Pair |-> Unset] \in [Pair -> Hop \cup NoHop] BY DEF NoHop
<1>2. [n \in Node |-> InitialRate] \in [Node -> Rate] BY GeneratedAssumption
<1> QED BY <1>1, <1>2 DEF Init, TypeOK

THEOREM SFTypePreserved == TypeOK /\ [Next]_vars => TypeOK'
<1> SUFFICES ASSUME TypeOK, [Next]_vars PROVE TypeOK' OBVIOUS
<1> USE DEF config, installed, traffic
<1>t. /\ interval \in Nat /\ endTime \in Nat /\ uid \in Nat /\ now \in Nat
      /\ Delay \subseteq Nat /\ Gaps \subseteq Nat /\ StartTimes \subseteq Nat
  BY TimeAssumption DEF TypeOK
<1>l. ASSUME NEW t \in Nat, NEW pending, pending \subseteq updates,
             CanLoadFstate(t), LoadFstate(t, pending)
      PROVE  /\ nextHop' \in [Pair -> Hop \cup NoHop] /\ gslRate' \in [Node -> Rate]
             /\ fstateTime' \in Nat /\ rateTime' \in Nat /\ uid' \in Nat
             /\ updates' \subseteq Update /\ \A e \in updates' : e.ts < endTime
  <2>1. nextHop' \in [Pair -> Hop \cup NoHop] BY <1>l, OverlayType DEF LoadFstate, CanLoadFstate
  <2>2. /\ NextUpdate("fstate", t) \subseteq Update
        /\ \A e \in NextUpdate("fstate", t) : e.ts < endTime
    BY NextUpdateType
  <2>3. pending \subseteq Update /\ \A e \in pending : e.ts < endTime BY <1>l DEF TypeOK
  <2>4. updates' = pending \cup NextUpdate("fstate", t) BY <1>l DEF LoadFstate
  <2>5. updates' \subseteq Update /\ \A e \in updates' : e.ts < endTime BY <2>2, <2>3, <2>4
  <2> QED BY <1>l, <1>t, <2>1, <2>5 DEF LoadFstate, TypeOK
<1>r. ASSUME NEW t \in Nat, NEW pending, pending \subseteq updates,
             FileExists(rates, t), LoadRates(t, pending)
      PROVE  /\ nextHop' \in [Pair -> Hop \cup NoHop] /\ gslRate' \in [Node -> Rate]
             /\ fstateTime' \in Nat /\ rateTime' \in Nat /\ uid' \in Nat
             /\ updates' \subseteq Update /\ \A e \in updates' : e.ts < endTime
  <2>1. gslRate' \in [Node -> Rate] BY <1>r, OverlayType DEF LoadRates
  <2>2. /\ NextUpdate("rate", t) \subseteq Update
        /\ \A e \in NextUpdate("rate", t) : e.ts < endTime
    BY NextUpdateType
  <2>3. pending \subseteq Update /\ \A e \in pending : e.ts < endTime BY <1>r DEF TypeOK
  <2>4. updates' = pending \cup NextUpdate("rate", t) BY <1>r DEF LoadRates
  <2>5. updates' \subseteq Update /\ \A e \in updates' : e.ts < endTime BY <2>2, <2>3, <2>4
  <2> QED BY <1>r, <1>t, <2>1, <2>5 DEF LoadRates, TypeOK
<1>1. CASE ConstructArbiterHelper
  <2>1. CASE CanLoadFstate(0) /\ LoadFstate(0, {}) /\ phase' = "rates" /\ UNCHANGED <<config, now, traffic>>
    <3>1. /\ nextHop' \in [Pair -> Hop \cup NoHop] /\ gslRate' \in [Node -> Rate]
          /\ fstateTime' \in Nat /\ rateTime' \in Nat /\ uid' \in Nat
          /\ updates' \subseteq Update /\ \A e \in updates' : e.ts < endTime
      BY <2>1, <1>l
    <3> QED BY <2>1, <3>1 DEF TypeOK
  <2>2. CASE Fail /\ UNCHANGED <<config, now>> BY <2>2 DEF Fail, TypeOK
  <2> QED BY <1>1, <2>1, <2>2 DEF ConstructArbiterHelper
<1>2. CASE ConstructBandwidthHelper
  <2>1. CASE FileExists(rates, 0) /\ LoadRates(0, updates) /\ phase' = "flows" /\ UNCHANGED <<config, now, traffic>>
    <3>1. /\ nextHop' \in [Pair -> Hop \cup NoHop] /\ gslRate' \in [Node -> Rate]
          /\ fstateTime' \in Nat /\ rateTime' \in Nat /\ uid' \in Nat
          /\ updates' \subseteq Update /\ \A e \in updates' : e.ts < endTime
      BY <2>1, <1>r
    <3> QED BY <2>1, <3>1 DEF TypeOK
  <2>2. CASE Fail /\ UNCHANGED <<config, now>> BY <2>2 DEF Fail, TypeOK
  <2> QED BY <1>2, <2>1, <2>2 DEF ConstructBandwidthHelper
<1>3. ASSUME NEW f \in Flow, NEW t \in StartTimes, ScheduleFlow(f, t) PROVE TypeOK'
  <2>1. [flow |-> f, ts |-> t, uid |-> uid] \in SendEvent BY <1>t DEF SendEvent
  <2>2. sends' \subseteq SendEvent BY <2>1, <1>3 DEF ScheduleFlow, TypeOK
  <2> QED BY <1>3, <1>t, <2>2 DEF ScheduleFlow, TypeOK
<1>4. CASE StartSimulation BY <1>4 DEF StartSimulation, TypeOK
<1>5. ASSUME NEW e \in updates, UpdateForwardingState(e) PROVE TypeOK'
  <2>0. e.ts \in Nat /\ now' = e.ts BY <1>5 DEF TypeOK, Update, UpdateForwardingState, Runs
  <2>1. CASE CanLoadFstate(e.ts) /\ LoadFstate(e.ts, updates \ {e}) /\ UNCHANGED <<config, phase, traffic>>
    <3>1. /\ nextHop' \in [Pair -> Hop \cup NoHop] /\ gslRate' \in [Node -> Rate]
          /\ fstateTime' \in Nat /\ rateTime' \in Nat /\ uid' \in Nat
          /\ updates' \subseteq Update /\ \A x \in updates' : x.ts < endTime
      BY <2>0, <2>1, <1>l
    <3> QED BY <2>0, <2>1, <3>1 DEF TypeOK
  <2>2. CASE Fail /\ UNCHANGED config BY <2>0, <2>2 DEF Fail, TypeOK
  <2> QED BY <1>5, <2>1, <2>2 DEF UpdateForwardingState
<1>6. ASSUME NEW e \in updates, UpdateGslIfBandwidth(e) PROVE TypeOK'
  <2>0. e.ts \in Nat /\ now' = e.ts BY <1>6 DEF TypeOK, Update, UpdateGslIfBandwidth, Runs
  <2>1. CASE FileExists(rates, e.ts) /\ LoadRates(e.ts, updates \ {e}) /\ UNCHANGED <<config, phase, traffic>>
    <3>1. /\ nextHop' \in [Pair -> Hop \cup NoHop] /\ gslRate' \in [Node -> Rate]
          /\ fstateTime' \in Nat /\ rateTime' \in Nat /\ uid' \in Nat
          /\ updates' \subseteq Update /\ \A x \in updates' : x.ts < endTime
      BY <2>0, <2>1, <1>r
    <3> QED BY <2>0, <2>1, <3>1 DEF TypeOK
  <2>2. CASE Fail /\ UNCHANGED config BY <2>0, <2>2 DEF Fail, TypeOK
  <2> QED BY <1>6, <2>1, <2>2 DEF UpdateGslIfBandwidth
<1>7. ASSUME NEW e \in sends, Send(e) PROVE TypeOK'
  <2> DEFINE p == [id |-> sent, from |-> e.flow[1], to |-> e.flow[2],
                   ttl |-> InitialTtl, trail |-> <<>>]
  <2>0. e.ts \in Nat /\ now' = e.ts /\ phase = "running"
    BY <1>7 DEF TypeOK, SendEvent, Send, Runs
  <2>1. /\ e.flow \in GroundStation \X GroundStation /\ e.flow[1] # e.flow[2]
        /\ e.flow \in Flow
    BY NetworkAssumption DEF TypeOK, SendEvent
  <2>2. p \in Packet /\ p.from \in Node /\ p.from # p.to
    BY <2>1, NetworkAssumption, TimeAssumption DEF TypeOK, Packet
  <2>3. Route(p.from, p, e.ts, arrivals) BY <1>7 DEF Send
  <2> HIDE DEF p
  <2>4. arrivals \subseteq Arrival /\ \A x \in arrivals : x.pkt.ttl # 0 BY DEF TypeOK
  <2>5. /\ arrivals' \subseteq Arrival /\ \A x \in arrivals' : x.pkt.ttl # 0
        /\ settled' \subseteq (Packet \X Fate)
        /\ phase' \in {"running", "failed"}
    BY <2>0, <2>2, <2>3, <2>4, RouteType
  <2>6. sends' \subseteq SendEvent
    <3>1. CASE sends' = sends \ {e} BY <3>1 DEF TypeOK
    <3>2. ASSUME NEW gap \in Gaps,
                 sends' = (sends \ {e}) \cup {[flow |-> e.flow, ts |-> e.ts + gap, uid |-> uid + 1]}
          PROVE  sends' \subseteq SendEvent
      <4>1. e.ts + gap \in Nat /\ uid + 1 \in Nat BY <2>0, <1>t
      <4>2. [flow |-> e.flow, ts |-> e.ts + gap, uid |-> uid + 1] \in SendEvent
        BY <2>1, <4>1 DEF SendEvent
      <4> QED BY <3>2, <4>2 DEF TypeOK
    <3> QED BY <1>7, <3>1, <3>2 DEF Send
  <2>7. sent' \in Nat /\ uid' \in Nat /\ UNCHANGED <<config, updates, installed>>
    BY <1>7, <1>t DEF Send, TypeOK
  <2> QED BY <2>0, <2>5, <2>6, <2>7 DEF TypeOK
<1>8. ASSUME NEW e \in arrivals, Arrive(e) PROVE TypeOK'
  <2>0. /\ e.ts \in Nat /\ now' = e.ts /\ phase = "running"
        /\ e.pkt \in Packet /\ e.node \in Node /\ e.pkt.ttl # 0
    BY <1>8 DEF TypeOK, Arrival, Arrive, Runs
  <2>1. UNCHANGED <<config, updates, installed, sends, sent>> /\ uid' \in Nat
    BY <1>8, <1>t DEF Arrive
  <2>2. arrivals \ {e} \subseteq Arrival /\ \A x \in arrivals \ {e} : x.pkt.ttl # 0
    BY DEF TypeOK
  <2>3. CASE /\ settled' = settled \cup {<<e.pkt, "delivered">>}
             /\ arrivals' = arrivals \ {e} /\ UNCHANGED phase
    <3>1. <<e.pkt, "delivered">> \in Packet \X Fate BY <2>0 DEF Fate
    <3>2. settled \subseteq (Packet \X Fate) BY DEF TypeOK
    <3>3. settled' \subseteq (Packet \X Fate) BY <2>3, <3>1, <3>2
    <3> QED BY <2>0, <2>1, <2>2, <2>3, <3>3 DEF TypeOK
  <2>4. CASE /\ e.node # e.pkt.to
             /\ Route(e.node, [e.pkt EXCEPT !.ttl = @ - 1], e.ts, arrivals \ {e})
    <3> DEFINE p == [e.pkt EXCEPT !.ttl = @ - 1]
    <3>1. p \in Packet /\ p.to = e.pkt.to BY <2>0, TimeAssumption DEF Packet
    <3> HIDE DEF p
    <3>2. Route(e.node, p, e.ts, arrivals \ {e}) BY <2>4 DEF p
    <3>3. e.node # p.to BY <2>4, <3>1
    <3>4. /\ arrivals' \subseteq Arrival /\ \A x \in arrivals' : x.pkt.ttl # 0
          /\ settled' \subseteq (Packet \X Fate)
          /\ phase' \in {"running", "failed"}
      BY <2>0, <2>2, <3>1, <3>2, <3>3, RouteType
    <3> QED BY <2>0, <2>1, <3>4 DEF TypeOK
  <2> QED BY <1>8, <2>3, <2>4 DEF Arrive
<1>9. CASE Stop BY <1>9, <1>t DEF Stop, TypeOK
<1>10. CASE UNCHANGED vars BY <1>10 DEF vars, TypeOK
<1> QED BY <1>1, <1>2, <1>3, <1>4, <1>5, <1>6, <1>7, <1>8, <1>9, <1>10 DEF Next

(* No step takes a variable out of its type. *)
THEOREM SFTypeCorrect == Spec => []TypeOK
BY SFTypeInitially, SFTypePreserved, PTL DEF Spec

-----------------------------------------------------------------------------
(***************************************************************************)
(* The order of the two helpers.                                           *)
(***************************************************************************)
Before(e, f) == e.ts < f.ts \/ (e.ts = f.ts /\ e.uid < f.uid)

(* Pending events lie ahead, and an update shares its number with no other *)
(* kind of event.                                                          *)
EventsInv ==
    /\ \A e \in Events : now <= e.ts /\ e.uid < uid
    /\ \A e \in updates : \A f \in sends \cup arrivals : e.uid # f.uid

(* The update a helper has pending after the last of the forwarding state. *)
Planned == ~forceStatic /\ fstateTime + interval < endTime
NextOf(helper, u) ==
    IF Planned THEN {[helper |-> helper, ts |-> fstateTime + interval, uid |-> u]} ELSE {}

(* Both helpers are at the same moment, and their next events are          *)
(* neighbours in the order of scheduling.                                  *)
Together == /\ fstateTime = rateTime
            /\ \E u \in Nat : updates = NextOf("fstate", u) \cup NextOf("rate", u + 1)

(* The forwarding state is loaded and the rates are what comes next.       *)
Between ==
    \E r \in updates :
        /\ r.helper = "rate" /\ r.ts = fstateTime
        /\ updates = {r} \cup NextOf("fstate", uid - 1)
        /\ \A f \in Events : f = r \/ Before(r, f)

HelpersInv ==
    /\ phase \in {"arbiters", "rates", "flows"} => now = 0 /\ fstateTime = 0 /\ rateTime = 0
    /\ phase \in {"arbiters", "rates"} => sends = {} /\ arrivals = {} /\ settled = {}
    /\ phase = "arbiters" => updates = {} /\ uid = 0
    /\ phase = "rates" => uid = 1 /\ updates = NextOf("fstate", 0)
    /\ phase = "flows" => Together
    /\ phase = "running" => Together \/ Between

OrderInv == EventsInv /\ HelpersInv

(* The numbers and times of what a lookup schedules. *)
LEMMA RouteEvents ==
    ASSUME TypeOK, NEW n, NEW p, NEW t \in Nat, NEW pending, Route(n, p, t, pending)
    PROVE  /\ \A e \in arrivals' \ pending : e.uid = uid /\ t <= e.ts
           /\ phase' = phase \/ phase' = "failed"
<1>1. ASSUME NEW delay \in Delay, NEW m, NEW q,
             arrivals' = pending \cup {[ts |-> t + delay, uid |-> uid, node |-> m, pkt |-> q]}
      PROVE  \A e \in arrivals' \ pending : e.uid = uid /\ t <= e.ts
  <2>1. delay \in Nat /\ t <= t + delay BY TimeAssumption
  <2> QED BY <1>1, <2>1
<1>2. CASE arrivals' = pending BY <1>2 DEF Route
<1> QED BY <1>1, <1>2 DEF Route

(***************************************************************************)
(* The event the simulator takes is an update or comes while both helpers  *)
(* are together: an event of the traffic never runs between the two.       *)
(***************************************************************************)
LEMMA NoEventBetween ==
    ASSUME TypeOK, OrderInv, phase = "running",
           NEW e \in sends \cup arrivals, IsNextEvent(e)
    PROVE  Together
<1> SUFFICES ASSUME Between PROVE FALSE BY DEF OrderInv, HelpersInv
<1>1. PICK r \in updates : \A f \in Events : f = r \/ Before(r, f) BY DEF Between
<1>2. e.uid # r.uid BY DEF OrderInv, EventsInv
<1>3. e # r BY <1>2
<1>4. Before(r, e) BY <1>1, <1>3 DEF Events
<1>5. e.ts < r.ts \/ (e.ts = r.ts /\ e.uid <= r.uid) BY DEF IsNextEvent, Events
<1>6. /\ e.ts \in Nat /\ r.ts \in Nat /\ e.uid \in Nat /\ r.uid \in Nat
  BY DEF TypeOK, Update, SendEvent, Arrival
<1> QED BY <1>4, <1>5, <1>6 DEF Before

(* While both are together, the forwarding state is updated first. *)
LEMMA FstateFirst ==
    ASSUME TypeOK, OrderInv, phase = "running", NEW e \in updates, IsNextEvent(e)
    PROVE  \/ /\ e.helper = "fstate" /\ Together /\ Planned
              /\ e.ts = fstateTime + interval
              /\ updates = {e} \cup NextOf("rate", e.uid + 1)
              /\ e.uid \in Nat
           \/ /\ e.helper = "rate" /\ Between /\ e.ts = fstateTime
              /\ updates = {e} \cup NextOf("fstate", uid - 1)
<1>t. /\ interval \in Nat \ {0} /\ endTime \in Nat /\ uid \in Nat /\ fstateTime \in Nat
  BY TimeAssumption DEF TypeOK
<1>1. CASE Together
  <2>1. PICK u \in Nat : updates = NextOf("fstate", u) \cup NextOf("rate", u + 1)
    BY <1>1 DEF Together
  <2>2. Planned BY <2>1 DEF NextOf
  <2> DEFINE a == [helper |-> "fstate", ts |-> fstateTime + interval, uid |-> u]
             b == [helper |-> "rate", ts |-> fstateTime + interval, uid |-> u + 1]
  <2>3. NextOf("fstate", u) = {a} /\ NextOf("rate", u + 1) = {b} BY <2>2 DEF NextOf
  <2>4. updates = {a, b} BY <2>1, <2>3
  <2>5. e # b
    <3> SUFFICES ASSUME e = b PROVE FALSE OBVIOUS
    <3>1. e.ts < a.ts \/ (e.ts = a.ts /\ e.uid <= a.uid) BY <2>4 DEF IsNextEvent, Events
    <3> QED BY <3>1, <1>t
  <2>6. e = a BY <2>4, <2>5
  <2> QED BY <1>1, <2>2, <2>3, <2>1, <2>6
<1>2. CASE Between
  <2>1. PICK r \in updates :
           /\ r.helper = "rate" /\ r.ts = fstateTime
           /\ updates = {r} \cup NextOf("fstate", uid - 1)
           /\ \A f \in Events : f = r \/ Before(r, f)
    BY <1>2 DEF Between
  <2>2. e = r
    <3> SUFFICES ASSUME e # r PROVE FALSE OBVIOUS
    <3>1. Before(r, e) BY <2>1 DEF Events
    <3>2. e.ts < r.ts \/ (e.ts = r.ts /\ e.uid <= r.uid) BY DEF IsNextEvent, Events
    <3>3. /\ e.ts \in Nat /\ r.ts \in Nat /\ e.uid \in Nat /\ r.uid \in Nat
      BY DEF TypeOK, Update
    <3> QED BY <3>1, <3>2, <3>3 DEF Before
  <2> QED BY <1>2, <2>1, <2>2
<1> QED BY <1>1, <1>2 DEF OrderInv, HelpersInv

LEMMA OrderInitially == Init => OrderInv
BY DEF Init, OrderInv, EventsInv, HelpersInv, Events

(* What a helper plans after an update at t comes later and has its own number. *)
LEMMA NextUpdateIs ==
    ASSUME TypeOK, NEW t \in Nat, NEW h
    PROVE  /\ NextUpdate(h, t) =
                  IF ~forceStatic /\ t + interval < endTime
                  THEN {[helper |-> h, ts |-> t + interval, uid |-> uid]} ELSE {}
           /\ \A e \in NextUpdate(h, t) : e.uid = uid /\ t < e.ts
<1>1. interval \in Nat \ {0} BY TimeAssumption DEF TypeOK
<1>2. t < t + interval BY <1>1
<1> QED BY <1>2 DEF NextUpdate

LEMMA OrderPreserved == TypeOK /\ OrderInv /\ [Next]_vars => OrderInv'
<1> SUFFICES ASSUME TypeOK, OrderInv, [Next]_vars PROVE OrderInv' OBVIOUS
<1> USE DEF config, installed, traffic
<1>t. /\ interval \in Nat \ {0} /\ endTime \in Nat /\ uid \in Nat /\ now \in Nat
      /\ fstateTime \in Nat /\ StartTimes \subseteq Nat /\ Gaps \subseteq Nat
  BY TimeAssumption DEF TypeOK
<1>e. \A e \in Events : e.ts \in Nat /\ e.uid \in Nat
  BY DEF TypeOK, Events, Update, SendEvent, Arrival
<1>f. ASSUME Fail, UNCHANGED config, now' = now \/ \E e \in Events : IsNextEvent(e) /\ now' = e.ts
      PROVE  OrderInv'
  <2>1. Events' = Events BY <1>f DEF Fail, Events
  <2>2. \A e \in Events : now' <= e.ts BY <1>f, <1>e DEF IsNextEvent, OrderInv, EventsInv
  <2>3. EventsInv' BY <2>1, <2>2, <1>f DEF Fail, OrderInv, EventsInv
  <2>4. HelpersInv' BY <1>f DEF Fail, HelpersInv
  <2> QED BY <2>3, <2>4 DEF OrderInv
<1>1. CASE ConstructArbiterHelper
  <2>1. CASE CanLoadFstate(0) /\ LoadFstate(0, {}) /\ phase' = "rates" /\ UNCHANGED <<config, now, traffic>>
    <3>1. now = 0 /\ fstateTime = 0 /\ rateTime = 0 /\ uid = 0
          /\ sends = {} /\ arrivals = {} /\ settled = {}
      BY <1>1 DEF ConstructArbiterHelper, OrderInv, HelpersInv
    <3>2. /\ updates' = NextUpdate("fstate", 0) /\ fstateTime' = 0 /\ rateTime' = 0 /\ uid' = 1
      BY <2>1, <3>1 DEF LoadFstate
    <3>3. updates' = NextOf("fstate", 0)' BY <3>1, <3>2, <2>1, NextUpdateIs DEF NextOf, Planned
    <3>4. HelpersInv' BY <3>1, <3>2, <3>3, <2>1 DEF HelpersInv
    <3>5. \A e \in updates' : e.uid = 0 /\ 0 < e.ts BY <3>1, <3>2, NextUpdateIs
    <3>6. \A e \in updates' : e.ts \in Nat BY <3>1, <3>2, <1>t, NextUpdateIs
    <3>7. \A e \in updates' : 0 <= e.ts /\ e.uid < 1 BY <3>5, <3>6
    <3>8. EventsInv' BY <3>1, <3>2, <3>7, <2>1 DEF EventsInv, Events
    <3> QED BY <3>4, <3>8 DEF OrderInv
  <2>2. CASE Fail /\ UNCHANGED <<config, now>> BY <2>2, <1>f
  <2> QED BY <1>1, <2>1, <2>2 DEF ConstructArbiterHelper
<1>2. CASE ConstructBandwidthHelper
  <2>1. CASE FileExists(rates, 0) /\ LoadRates(0, updates) /\ phase' = "flows" /\ UNCHANGED <<config, now, traffic>>
    <3>1. now = 0 /\ fstateTime = 0 /\ rateTime = 0 /\ uid = 1
          /\ sends = {} /\ arrivals = {} /\ updates = NextOf("fstate", 0)
      BY <1>2 DEF ConstructBandwidthHelper, OrderInv, HelpersInv
    <3>2. /\ updates' = updates \cup NextUpdate("rate", 0)
          /\ fstateTime' = 0 /\ rateTime' = 0 /\ uid' = 2
      BY <2>1, <3>1 DEF LoadRates
    <3>3. NextUpdate("rate", 0) = NextOf("rate", 1)'
      BY <3>1, <3>2, <2>1, NextUpdateIs DEF NextOf, Planned
    <3>4. updates = NextOf("fstate", 0)' BY <3>1, <3>2, <2>1 DEF NextOf, Planned
    <3>5. updates' = NextOf("fstate", 0)' \cup NextOf("rate", 0 + 1)' BY <3>2, <3>3, <3>4
    <3>6. Together' BY <3>2, <3>5 DEF Together
    <3>7. HelpersInv' BY <3>1, <3>2, <3>6, <2>1 DEF HelpersInv
    <3>8. \A e \in updates' : e.uid < 2 /\ 0 <= e.ts
      <4>1. \A e \in NextUpdate("rate", 0) : e.uid = 1 /\ 0 < e.ts BY <3>1, NextUpdateIs
      <4>2. \A e \in updates : e.uid < 1 /\ 0 <= e.ts
        BY <3>1 DEF OrderInv, EventsInv, Events
      <4>3. \A e \in updates : e.uid \in Nat /\ e.ts \in Nat BY <1>e DEF Events
      <4>4. \A e \in updates : e.uid < 2 BY <4>2, <4>3
      <4>5. \A e \in NextUpdate("rate", 0) : e.ts \in Nat BY <1>t, NextUpdateIs
      <4> QED BY <4>1, <4>2, <4>4, <4>5, <3>2
    <3>9. EventsInv' BY <3>1, <3>2, <3>8, <2>1 DEF EventsInv, Events
    <3> QED BY <3>7, <3>9 DEF OrderInv
  <2>2. CASE Fail /\ UNCHANGED <<config, now>> BY <2>2, <1>f
  <2> QED BY <1>2, <2>1, <2>2 DEF ConstructBandwidthHelper
<1>3. ASSUME NEW f \in Flow, NEW t \in StartTimes, ScheduleFlow(f, t) PROVE OrderInv'
  <2> DEFINE s == [flow |-> f, ts |-> t, uid |-> uid]
  <2>1. sends' = sends \cup {s} /\ uid' = uid + 1 /\ phase = "flows"
        /\ UNCHANGED <<config, phase, now, updates, installed, arrivals, settled>>
    BY <1>3 DEF ScheduleFlow
  <2>2. now = 0 /\ fstateTime = 0 /\ rateTime = 0 /\ Together
    BY <2>1 DEF OrderInv, HelpersInv
  <2>3. Together' BY <2>1, <2>2 DEF Together, NextOf, Planned
  <2>4. HelpersInv' BY <2>1, <2>2, <2>3 DEF HelpersInv
  <2>5. s.uid = uid /\ s.ts = t /\ 0 <= t BY <1>t
  <2> HIDE DEF s
  <2>6. Events' = Events \cup {s} BY <2>1 DEF Events
  <2>7. \A e \in Events : now <= e.ts /\ e.uid < uid /\ e.uid \in Nat BY <1>e DEF OrderInv, EventsInv
  <2>8. \A e \in Events' : now' <= e.ts /\ e.uid < uid' BY <2>1, <2>2, <2>5, <2>6, <2>7, <1>t
  <2>9. \A e \in updates' : \A x \in sends' \cup arrivals' : e.uid # x.uid
    <3>1. \A e \in updates : e.uid # s.uid BY <2>5, <2>7, <1>t DEF Events
    <3> QED BY <3>1, <2>1 DEF OrderInv, EventsInv
  <2> QED BY <2>4, <2>8, <2>9 DEF OrderInv, EventsInv
<1>4. CASE StartSimulation
  <2>1. phase = "flows" /\ phase' = "running" /\ UNCHANGED <<config, now, uid, updates, installed, traffic>>
    BY <1>4 DEF StartSimulation
  <2>2. Together' BY <2>1 DEF OrderInv, HelpersInv, Together, NextOf, Planned
  <2>3. HelpersInv' BY <2>1, <2>2 DEF HelpersInv
  <2>4. EventsInv' BY <2>1 DEF OrderInv, EventsInv, Events
  <2> QED BY <2>3, <2>4 DEF OrderInv
<1>5. ASSUME NEW e \in updates, UpdateForwardingState(e) PROVE OrderInv'
  <2>0. e.helper = "fstate" /\ phase = "running" /\ IsNextEvent(e) /\ now' = e.ts
    BY <1>5 DEF UpdateForwardingState, Runs
  <2>1. CASE CanLoadFstate(e.ts) /\ LoadFstate(e.ts, updates \ {e}) /\ UNCHANGED <<config, phase, traffic>>
    <3>1. /\ Together /\ Planned /\ e.ts = fstateTime + interval
          /\ updates = {e} \cup NextOf("rate", e.uid + 1) /\ e.uid \in Nat
      BY <2>0, FstateFirst
    <3>2. e.ts \in Nat BY <1>e DEF Events
    <3> DEFINE r == [helper |-> "rate", ts |-> e.ts, uid |-> e.uid + 1]
    <3>3. r.helper = "rate" /\ r.ts = e.ts /\ r.uid = e.uid + 1 /\ r # e BY <2>0
    <3>4. NextOf("rate", e.uid + 1) = {r} BY <3>1 DEF NextOf
    <3> HIDE DEF r
    <3>5. updates \ {e} = {r} BY <3>1, <3>3, <3>4
    <3>6. /\ updates' = {r} \cup NextUpdate("fstate", e.ts) /\ fstateTime' = e.ts
          /\ uid' = uid + 1
      BY <2>1, <3>5 DEF LoadFstate
    <3>7. NextUpdate("fstate", e.ts) = NextOf("fstate", uid - 1)'
      <4>1. uid' - 1 = uid BY <3>6, <1>t
      <4> QED BY <4>1, <3>2, <3>6, <2>1, NextUpdateIs DEF NextOf, Planned
    <3>8. /\ \A f \in NextUpdate("fstate", e.ts) : f.uid = uid /\ e.ts < f.ts
      BY <3>2, NextUpdateIs
    <3>9. r \in updates BY <3>5
    <3>10. \A f \in sends \cup arrivals : Before(r, f)
      <4> TAKE f \in sends \cup arrivals
      <4>1. f.uid # e.uid /\ f.uid # r.uid BY <3>9 DEF OrderInv, EventsInv
      <4>2. e.ts < f.ts \/ (e.ts = f.ts /\ e.uid <= f.uid) BY <2>0 DEF IsNextEvent, Events
      <4>3. f.ts \in Nat /\ f.uid \in Nat BY <1>e DEF Events
      <4> QED BY <4>1, <4>2, <4>3, <3>1, <3>2, <3>3 DEF Before
    <3>11. \A f \in Events' : f = r \/ Before(r, f)
      <4>1. Events' = {r} \cup NextUpdate("fstate", e.ts) \cup sends \cup arrivals
        BY <3>6, <2>1 DEF Events
      <4>2. \A f \in NextUpdate("fstate", e.ts) : Before(r, f) BY <3>3, <3>8 DEF Before
      <4> QED BY <4>1, <4>2, <3>10
    <3>12. Between'
      <4>1. r \in updates' /\ updates' = {r} \cup NextOf("fstate", uid - 1)' BY <3>6, <3>7
      <4>2. r.ts = fstateTime' BY <3>3, <3>6
      <4> QED BY <4>1, <4>2, <3>3, <3>11 DEF Between
    <3>13. HelpersInv' BY <2>0, <2>1, <3>12 DEF HelpersInv
    <3>14. \A f \in Events' : now' <= f.ts /\ f.uid < uid'
      <4>1. Events' = {r} \cup NextUpdate("fstate", e.ts) \cup sends \cup arrivals
        BY <3>6, <2>1 DEF Events
      <4>2. \A f \in Events : now' <= f.ts /\ f.uid < uid /\ f.uid \in Nat
        BY <2>0, <1>e, <3>2 DEF IsNextEvent, OrderInv, EventsInv
      <4>3. r \in Events BY <3>9 DEF Events
      <4>4. \A f \in NextUpdate("fstate", e.ts) : now' <= f.ts /\ f.uid < uid'
        <5>1. \A f \in NextUpdate("fstate", e.ts) : f.ts \in Nat
          BY <3>2, <1>t, NextUpdateIs
        <5> QED BY <5>1, <3>2, <3>8, <3>6, <2>0, <1>t
      <4>5. \A f \in Events : f.uid < uid' BY <4>2, <3>6, <1>t
      <4> QED BY <4>1, <4>2, <4>3, <4>4, <4>5 DEF Events
    <3>15. \A x \in updates' : \A f \in sends' \cup arrivals' : x.uid # f.uid
      <4>1. \A f \in sends \cup arrivals : f.uid < uid /\ f.uid \in Nat
        BY <1>e DEF OrderInv, EventsInv, Events
      <4>2. \A x \in NextUpdate("fstate", e.ts) : \A f \in sends \cup arrivals : x.uid # f.uid
        BY <3>8, <4>1, <1>t
      <4>3. \A f \in sends \cup arrivals : r.uid # f.uid BY <3>9 DEF OrderInv, EventsInv
      <4> QED BY <4>2, <4>3, <3>6, <2>1
    <3> QED BY <3>13, <3>14, <3>15 DEF OrderInv, EventsInv
  <2>2. CASE Fail /\ UNCHANGED config BY <2>0, <2>2, <1>f DEF Events
  <2> QED BY <1>5, <2>1, <2>2 DEF UpdateForwardingState
<1>6. ASSUME NEW e \in updates, UpdateGslIfBandwidth(e) PROVE OrderInv'
  <2>0. e.helper = "rate" /\ phase = "running" /\ IsNextEvent(e) /\ now' = e.ts
    BY <1>6 DEF UpdateGslIfBandwidth, Runs
  <2>1. CASE FileExists(rates, e.ts) /\ LoadRates(e.ts, updates \ {e}) /\ UNCHANGED <<config, phase, traffic>>
    <3>1. Between /\ e.ts = fstateTime /\ updates = {e} \cup NextOf("fstate", uid - 1)
      BY <2>0, FstateFirst
    <3>2. e.ts \in Nat /\ e.uid \in Nat BY <1>e DEF Events
    <3>3. uid - 1 \in Nat
      <4>1. e.uid < uid BY DEF OrderInv, EventsInv, Events
      <4> QED BY <4>1, <3>2, <1>t
    <3>4. updates \ {e} = NextOf("fstate", uid - 1)
      <4>1. e \notin NextOf("fstate", uid - 1) BY <2>0 DEF NextOf
      <4> QED BY <3>1, <4>1
    <3>5. /\ updates' = NextOf("fstate", uid - 1) \cup NextUpdate("rate", e.ts)
          /\ rateTime' = e.ts /\ uid' = uid + 1 /\ fstateTime' = fstateTime
      BY <2>1, <3>4 DEF LoadRates
    <3>6. PICK u \in Nat : u = uid - 1 BY <3>3
    <3>7. /\ NextUpdate("rate", e.ts) = NextOf("rate", u + 1)'
          /\ NextOf("fstate", uid - 1) = NextOf("fstate", u)'
      <4>1. Planned' = (~forceStatic /\ e.ts + interval < endTime) /\ Planned' = Planned
        BY <3>1, <3>5, <2>1 DEF Planned
      <4>2. u + 1 = uid BY <3>6, <1>t
      <4> QED BY <4>1, <4>2, <3>1, <3>2, <3>5, <3>6, <2>1, NextUpdateIs DEF NextOf, Planned
    <3>8. Together' BY <3>1, <3>5, <3>7 DEF Together
    <3>9. HelpersInv' BY <2>0, <2>1, <3>8 DEF HelpersInv
    <3>10. updates' \subseteq updates \cup NextUpdate("rate", e.ts) BY <3>1, <3>5
    <3>11. \A f \in Events : now' <= f.ts /\ f.uid < uid /\ f.uid \in Nat
      BY <2>0, <1>e, <3>2 DEF IsNextEvent, OrderInv, EventsInv
    <3>12. \A f \in NextUpdate("rate", e.ts) : f.uid = uid /\ e.ts < f.ts /\ f.ts \in Nat
      BY <3>2, <1>t, NextUpdateIs
    <3>13. \A f \in Events' : now' <= f.ts /\ f.uid < uid'
      <4>1. Events' \subseteq Events \cup NextUpdate("rate", e.ts) BY <3>10, <2>1 DEF Events
      <4>2. \A f \in Events : f.uid < uid' BY <3>11, <3>5, <1>t
      <4>3. \A f \in NextUpdate("rate", e.ts) : now' <= f.ts /\ f.uid < uid'
        BY <3>12, <3>5, <2>0, <3>2, <1>t
      <4> QED BY <4>1, <4>2, <4>3, <3>11
    <3>14. \A x \in updates' : \A f \in sends' \cup arrivals' : x.uid # f.uid
      <4>1. \A x \in NextUpdate("rate", e.ts) : \A f \in sends \cup arrivals : x.uid # f.uid
        BY <3>11, <3>12, <1>t DEF Events
      <4> QED BY <4>1, <3>10, <2>1 DEF OrderInv, EventsInv
    <3> QED BY <3>9, <3>13, <3>14 DEF OrderInv, EventsInv
  <2>2. CASE Fail /\ UNCHANGED config BY <2>0, <2>2, <1>f DEF Events
  <2> QED BY <1>6, <2>1, <2>2 DEF UpdateGslIfBandwidth
<1>7. ASSUME NEW e \in sends, Send(e) PROVE OrderInv'
  <2>0. phase = "running" /\ IsNextEvent(e) /\ now' = e.ts /\ e.ts \in Nat
    BY <1>7, <1>e DEF Send, Runs, Events
  <2>1. Together BY <2>0, NoEventBetween
  <2>2. UNCHANGED <<config, updates, installed>> /\ uid' = uid + 2 BY <1>7 DEF Send
  <2>3. Together' BY <2>1, <2>2 DEF Together, NextOf, Planned
  <2>4. /\ \A a \in arrivals' \ arrivals : a.uid = uid /\ e.ts <= a.ts
        /\ phase' = phase \/ phase' = "failed"
    BY <1>7, <2>0, RouteEvents DEF Send
  <2>5. HelpersInv' BY <2>0, <2>3, <2>4 DEF HelpersInv
  <2>6. \A a \in sends' \ sends : a.uid = uid + 1 /\ e.ts <= a.ts
    <3>1. ASSUME NEW gap \in Gaps,
                 sends' = (sends \ {e}) \cup {[flow |-> e.flow, ts |-> e.ts + gap, uid |-> uid + 1]}
          PROVE  \A a \in sends' \ sends : a.uid = uid + 1 /\ e.ts <= a.ts
      <4>1. e.ts <= e.ts + gap BY <2>0, <1>t
      <4> QED BY <3>1, <4>1
    <3>2. CASE sends' = sends \ {e} BY <3>2
    <3> QED BY <1>7, <3>1, <3>2 DEF Send
  <2>7. \A f \in Events : now' <= f.ts /\ f.uid < uid /\ f.uid \in Nat
    BY <2>0, <1>e DEF IsNextEvent, OrderInv, EventsInv
  <2>8. \A f \in Events' : now' <= f.ts /\ f.uid < uid'
    <3>1. \A f \in Events : f.uid < uid' BY <2>7, <2>2, <1>t
    <3>2. \A f \in (arrivals' \ arrivals) \cup (sends' \ sends) : now' <= f.ts /\ f.uid < uid'
      BY <2>0, <2>2, <2>4, <2>6, <1>t
    <3>3. Events' \subseteq Events \cup (arrivals' \ arrivals) \cup (sends' \ sends)
      BY <2>2 DEF Events
    <3> QED BY <3>1, <3>2, <3>3, <2>7
  <2>9. \A x \in updates' : \A f \in sends' \cup arrivals' : x.uid # f.uid
    <3>1. \A x \in updates : x.uid < uid /\ x.uid \in Nat BY <2>7 DEF Events
    <3>2. \A x \in updates : \A f \in (arrivals' \ arrivals) \cup (sends' \ sends) : x.uid # f.uid
      BY <3>1, <2>4, <2>6, <1>t
    <3> QED BY <3>2, <2>2 DEF OrderInv, EventsInv
  <2> QED BY <2>5, <2>8, <2>9 DEF OrderInv, EventsInv
<1>8. ASSUME NEW e \in arrivals, Arrive(e) PROVE OrderInv'
  <2>0. phase = "running" /\ IsNextEvent(e) /\ now' = e.ts /\ e.ts \in Nat
    BY <1>8, <1>e DEF Arrive, Runs, Events
  <2>1. Together BY <2>0, NoEventBetween
  <2>2. UNCHANGED <<config, updates, installed, sends>> /\ uid' = uid + 1 BY <1>8 DEF Arrive
  <2>3. Together' BY <2>1, <2>2 DEF Together, NextOf, Planned
  <2>4. /\ \A a \in arrivals' \ arrivals : a.uid = uid /\ e.ts <= a.ts
        /\ phase' = phase \/ phase' = "failed"
    <3>1. CASE arrivals' = arrivals \ {e} /\ UNCHANGED phase BY <3>1
    <3>2. CASE Route(e.node, [e.pkt EXCEPT !.ttl = @ - 1], e.ts, arrivals \ {e})
      <4>1. /\ \A a \in arrivals' \ (arrivals \ {e}) : a.uid = uid /\ e.ts <= a.ts
            /\ phase' = phase \/ phase' = "failed"
        BY <2>0, <3>2, RouteEvents
      <4> QED BY <4>1
    <3> QED BY <1>8, <3>1, <3>2 DEF Arrive
  <2>5. HelpersInv' BY <2>0, <2>3, <2>4 DEF HelpersInv
  <2>7. \A f \in Events : now' <= f.ts /\ f.uid < uid /\ f.uid \in Nat
    BY <2>0, <1>e DEF IsNextEvent, OrderInv, EventsInv
  <2>8. \A f \in Events' : now' <= f.ts /\ f.uid < uid'
    <3>1. \A f \in Events : f.uid < uid' BY <2>7, <2>2, <1>t
    <3>2. \A f \in arrivals' \ arrivals : now' <= f.ts /\ f.uid < uid'
      BY <2>0, <2>2, <2>4, <1>t
    <3>3. Events' \subseteq Events \cup (arrivals' \ arrivals) BY <2>2 DEF Events
    <3> QED BY <3>1, <3>2, <3>3, <2>7
  <2>9. \A x \in updates' : \A f \in sends' \cup arrivals' : x.uid # f.uid
    <3>1. \A x \in updates : x.uid < uid /\ x.uid \in Nat BY <2>7 DEF Events
    <3>2. \A x \in updates : \A f \in arrivals' \ arrivals : x.uid # f.uid
      BY <3>1, <2>4, <1>t
    <3> QED BY <3>2, <2>2 DEF OrderInv, EventsInv
  <2> QED BY <2>5, <2>8, <2>9 DEF OrderInv, EventsInv
<1>9. CASE Stop
  <2>1. Events' = Events /\ \A e \in Events' : now' <= e.ts BY <1>9 DEF Stop, Events
  <2>2. EventsInv' BY <1>9, <2>1 DEF Stop, OrderInv, EventsInv
  <2>3. HelpersInv' BY <1>9 DEF Stop, HelpersInv
  <2> QED BY <2>2, <2>3 DEF OrderInv
<1>10. CASE UNCHANGED vars
  BY <1>10 DEF vars, OrderInv, EventsInv, HelpersInv, Events, Together, Between, NextOf, Planned, Before
<1> QED BY <1>1, <1>2, <1>3, <1>4, <1>5, <1>6, <1>7, <1>8, <1>9, <1>10 DEF Next

-----------------------------------------------------------------------------
(***************************************************************************)
(* What is installed.                                                      *)
(***************************************************************************)
LEMMA Multiples ==
    ASSUME NEW k \in Nat, NEW b \in Nat \ {0}
    PROVE  /\ k * b \in Nat /\ (k + 1) * b = k * b + b
           /\ (k * b) % b = 0 /\ (k * b) \div b = k
           /\ k * b = 0 => k = 0
<1>1. k * b \in Nat /\ (k + 1) * b = k * b + b BY SMT
<1>2. (k * b) \div b = k BY SMT
<1>3. (k * b) % b = 0 BY SMT
<1>4. k * b = 0 => k = 0 BY SMT
<1> QED BY <1>1, <1>2, <1>3, <1>4

LEMMA MultipleOf ==
    ASSUME NEW t \in Nat, NEW b \in Nat \ {0}, t % b = 0
    PROVE  t \div b \in Nat /\ t = (t \div b) * b
BY SMT

Loaded == phase \in {"rates", "flows", "running"}

(* The last file was the one of a multiple of the interval, in the past.   *)
(* If no file is skipped, the entries are those of the generated state.    *)
FilesInv ==
    /\ \E m \in Nat : fstateTime = m * interval
    /\ fstateTime <= now /\ now <= endTime
    /\ phase = "arbiters" => \A x \in Pair : nextHop[x] = Unset
    /\ forceStatic => fstateTime = 0
    /\ Loaded /\ DOMAIN routes[0] = Pair => \A x \in Pair : nextHop[x] # Unset
    /\ Loaded /\ interval = Step =>
           \E k \in DOMAIN routes :
               /\ fstateTime = k * Step
               /\ \A x \in DOMAIN routes[0] : nextHop[x] = routes[k][x]
               /\ \A x \in Pair \ DOMAIN routes[0] : nextHop[x] = Unset

(* The files are typed. *)
LEMMA GeneratedType ==
    ASSUME TypeOK
    PROVE  /\ DOMAIN routes \subseteq Nat
           /\ \A k \in DOMAIN routes : /\ 0..k \subseteq DOMAIN routes
                                       /\ routes[k] \in [DOMAIN routes[0] -> Hop \cup {Drop}]
                                       /\ DOMAIN routes[0] \subseteq Pair
<1>1. routes \in Generated BY DEF TypeOK
<1> QED BY <1>1, GeneratedAssumption

(* Loading the file at t = 0 into the empty tables. *)
LEMMA FirstLoad ==
    ASSUME TypeOK, FileExists(routes, 0), \A x \in Pair : nextHop[x] = Unset
    PROVE  LET table == Overlay(nextHop, routes, 0) IN
           /\ 0 \in DOMAIN routes
           /\ \A x \in DOMAIN routes[0] : table[x] = routes[0][x]
           /\ \A x \in Pair \ DOMAIN routes[0] : table[x] = Unset
           /\ \A x \in DOMAIN routes[0] : table[x] # Unset
<1>1. 0 \div Step = 0 BY TimeAssumption
<1>2. 0 \in DOMAIN routes BY <1>1 DEF FileExists
<1>3. /\ DOMAIN routes[0] \subseteq Pair
      /\ routes[0] \in [DOMAIN routes[0] -> Hop \cup {Drop}]
  BY <1>2, GeneratedType
<1>4. DOMAIN nextHop = Pair BY DEF TypeOK
<1>5. Changed(routes, 0) = DOMAIN routes[0] BY <1>1 DEF Changed
<1>6. \A x \in Pair : Overlay(nextHop, routes, 0)[x] =
          IF x \in DOMAIN routes[0] THEN routes[0][x] ELSE Unset
  BY <1>1, <1>4, <1>5 DEF Overlay
<1>7. \A x \in DOMAIN routes[0] : routes[0][x] # Unset
  BY <1>3, NetworkAssumption
<1> QED BY <1>2, <1>3, <1>6, <1>7

(* A later file replaces an entry or leaves it: no entry becomes unset. *)
LEMMA NeverUnsetAgain ==
    ASSUME TypeOK, NEW t \in Nat, FileExists(routes, t),
           NEW x \in Pair, nextHop[x] # Unset
    PROVE  Overlay(nextHop, routes, t)[x] # Unset
<1>1. t \div Step \in DOMAIN routes BY DEF FileExists
<1>2. routes[t \div Step] \in [DOMAIN routes[0] -> Hop \cup {Drop}] BY <1>1, GeneratedType
<1>3. DOMAIN nextHop = Pair BY DEF TypeOK
<1>4. x \in Changed(routes, t) => routes[t \div Step][x] # Unset
  BY <1>2, NetworkAssumption DEF Changed
<1> QED BY <1>3, <1>4 DEF Overlay

(* The next file, laid over one generated state, gives the next one. *)
LEMMA NextLoad ==
    ASSUME TypeOK, NEW k \in DOMAIN routes, k + 1 \in DOMAIN routes,
           \A x \in DOMAIN routes[0] : nextHop[x] = routes[k][x],
           \A x \in Pair \ DOMAIN routes[0] : nextHop[x] = Unset
    PROVE  LET table == Overlay(nextHop, routes, (k + 1) * Step) IN
           /\ \A x \in DOMAIN routes[0] : table[x] = routes[k + 1][x]
           /\ \A x \in Pair \ DOMAIN routes[0] : table[x] = Unset
<1>1. k \in Nat /\ k + 1 # 0 /\ (k + 1) - 1 = k BY GeneratedType
<1>2. ((k + 1) * Step) \div Step = k + 1 BY <1>1, Multiples, TimeAssumption
<1>3. DOMAIN nextHop = Pair /\ DOMAIN routes[0] \subseteq Pair BY GeneratedType DEF TypeOK
<1>4. Changed(routes, (k + 1) * Step) =
          {x \in DOMAIN routes[0] : routes[k + 1][x] # routes[k][x]}
  BY <1>1, <1>2 DEF Changed
<1>5. \A x \in Pair : Overlay(nextHop, routes, (k + 1) * Step)[x] =
          IF x \in DOMAIN routes[0] /\ routes[k + 1][x] # routes[k][x]
          THEN routes[k + 1][x] ELSE nextHop[x]
  BY <1>2, <1>3, <1>4 DEF Overlay
<1> QED BY <1>3, <1>5

LEMMA FilesInitially == Init => FilesInv
<1> SUFFICES ASSUME Init PROVE FilesInv OBVIOUS
<1>1. interval \in Nat /\ 0 <= endTime BY TimeAssumption DEF Init
<1>2. fstateTime = 0 * interval BY <1>1 DEF Init
<1> QED BY <1>1, <1>2 DEF Init, FilesInv, Loaded

LEMMA FilesPreserved == TypeOK /\ OrderInv /\ FilesInv /\ [Next]_vars => FilesInv'
<1> SUFFICES ASSUME TypeOK, OrderInv, FilesInv, [Next]_vars PROVE FilesInv' OBVIOUS
<1> USE DEF config, installed, traffic
<1>t. /\ interval \in Nat \ {0} /\ endTime \in Nat /\ uid \in Nat /\ now \in Nat
      /\ fstateTime \in Nat /\ Step \in Nat \ {0}
  BY TimeAssumption DEF TypeOK
<1>e. \A e \in Events : e.ts \in Nat
  BY DEF TypeOK, Events, Update, SendEvent, Arrival
<1>o. ASSUME now' \in Nat, now <= now', now' <= endTime, Loaded' => Loaded,
             phase' # "arbiters" \/ phase' = phase,
             UNCHANGED <<config, nextHop, fstateTime>>
      PROVE  FilesInv'
  <2>1. fstateTime <= now' BY <1>o, <1>t DEF FilesInv
  <2> QED BY <2>1, <1>o DEF FilesInv
<1>n. ASSUME NEW e \in Events, IsNextEvent(e), now' = e.ts
      PROVE  now' \in Nat /\ now <= now' /\ now' <= endTime
  BY <1>n, <1>e, <1>t DEF OrderInv, EventsInv, IsNextEvent
<1>s. now <= now /\ now <= endTime BY <1>t DEF FilesInv
<1>1. CASE ConstructArbiterHelper
  <2>1. CASE CanLoadFstate(0) /\ LoadFstate(0, {}) /\ phase' = "rates" /\ UNCHANGED <<config, now, traffic>>
    <3>1. /\ nextHop' = Overlay(nextHop, routes, 0) /\ fstateTime' = 0
      BY <2>1 DEF LoadFstate
    <3>2. fstateTime = 0 /\ now = 0
      BY <1>1 DEF ConstructArbiterHelper, OrderInv, HelpersInv
    <3>3. \A x \in Pair : nextHop[x] = Unset
      BY <1>1 DEF ConstructArbiterHelper, FilesInv
    <3>4. /\ 0 \in DOMAIN routes
          /\ \A x \in DOMAIN routes[0] : nextHop'[x] = routes[0][x]
          /\ \A x \in Pair \ DOMAIN routes[0] : nextHop'[x] = Unset
          /\ \A x \in DOMAIN routes[0] : nextHop'[x] # Unset
      BY <2>1, <3>1, <3>3, FirstLoad DEF CanLoadFstate
    <3>5. 0 * interval = 0 /\ 0 * Step = 0 BY <1>t
    <3>6. fstateTime' <= now' /\ now' <= endTime' BY <3>1, <3>2, <2>1, <1>s
    <3> QED BY <2>1, <3>1, <3>4, <3>5, <3>6 DEF FilesInv, Loaded
  <2>2. CASE Fail /\ UNCHANGED <<config, now>> BY <2>2, <1>o, <1>t, <1>s DEF Fail, Loaded
  <2> QED BY <1>1, <2>1, <2>2 DEF ConstructArbiterHelper
<1>2. CASE ConstructBandwidthHelper
  <2>1. CASE LoadRates(0, updates) /\ phase' = "flows" /\ UNCHANGED <<config, now, traffic>>
    BY <2>1, <1>2, <1>o, <1>t, <1>s DEF LoadRates, Loaded, ConstructBandwidthHelper
  <2>2. CASE Fail /\ UNCHANGED <<config, now>> BY <2>2, <1>o, <1>t, <1>s DEF Fail, Loaded
  <2> QED BY <1>2, <2>1, <2>2 DEF ConstructBandwidthHelper
<1>3. ASSUME NEW f \in Flow, NEW t \in StartTimes, ScheduleFlow(f, t) PROVE FilesInv'
  BY <1>3, <1>o, <1>t, <1>s DEF ScheduleFlow, Loaded
<1>4. CASE StartSimulation BY <1>4, <1>o, <1>t, <1>s DEF StartSimulation, Loaded
<1>5. ASSUME NEW e \in updates, UpdateForwardingState(e) PROVE FilesInv'
  <2>0. e.helper = "fstate" /\ phase = "running" /\ IsNextEvent(e) /\ now' = e.ts
        /\ UNCHANGED config /\ e.ts \in Nat /\ e \in Events
    BY <1>5, <1>e DEF UpdateForwardingState, Runs, Events
  <2>1. CASE CanLoadFstate(e.ts) /\ LoadFstate(e.ts, updates \ {e}) /\ UNCHANGED <<config, phase, traffic>>
    <3>1. Planned /\ e.ts = fstateTime + interval BY <2>0, FstateFirst
    <3>2. /\ nextHop' = Overlay(nextHop, routes, e.ts) /\ fstateTime' = e.ts
          /\ FileExists(routes, e.ts)
      BY <2>1 DEF LoadFstate, CanLoadFstate
    <3>3. \E m \in Nat : fstateTime' = m * interval'
      <4>1. PICK m \in Nat : fstateTime = m * interval BY DEF FilesInv
      <4>2. (m + 1) * interval = m * interval + interval BY <1>t, Multiples
      <4> QED BY <4>1, <4>2, <3>1, <3>2, <2>0
    <3>4. fstateTime' <= now' /\ now' <= endTime' /\ ~forceStatic'
      BY <2>0, <3>1, <3>2, <1>n DEF Planned
    <3>5. ASSUME Loaded, DOMAIN routes[0] = Pair, NEW x \in Pair PROVE nextHop'[x] # Unset
      BY <3>5, <3>2, <2>0, NeverUnsetAgain DEF FilesInv
    <3>6. ASSUME interval = Step
          PROVE  \E k \in DOMAIN routes :
                     /\ fstateTime' = k * Step
                     /\ \A x \in DOMAIN routes[0] : nextHop'[x] = routes[k][x]
                     /\ \A x \in Pair \ DOMAIN routes[0] : nextHop'[x] = Unset
      <4>1. PICK k \in DOMAIN routes :
               /\ fstateTime = k * Step
               /\ \A x \in DOMAIN routes[0] : nextHop[x] = routes[k][x]
               /\ \A x \in Pair \ DOMAIN routes[0] : nextHop[x] = Unset
        BY <3>6, <2>0 DEF FilesInv, Loaded
      <4>2. k \in Nat BY GeneratedType
      <4>3. e.ts = (k + 1) * Step BY <4>1, <4>2, <3>1, <3>6, <1>t, Multiples
      <4>4. e.ts \div Step = k + 1
        <5>1. k + 1 \in Nat BY <4>2
        <5> QED BY <5>1, <4>3, <1>t, Multiples
      <4>5. k + 1 \in DOMAIN routes BY <4>4, <3>2 DEF FileExists
      <4>6. /\ \A x \in DOMAIN routes[0] : nextHop'[x] = routes[k + 1][x]
            /\ \A x \in Pair \ DOMAIN routes[0] : nextHop'[x] = Unset
        BY <4>1, <4>3, <4>5, <3>2, NextLoad
      <4> QED BY <4>3, <4>5, <4>6, <3>2
    <3> QED BY <3>3, <3>4, <3>5, <3>6, <2>1, <2>0 DEF FilesInv, Loaded
  <2>2. CASE Fail /\ UNCHANGED config
    BY <2>0, <2>2, <1>n, <1>o DEF Fail, Loaded
  <2> QED BY <1>5, <2>1, <2>2 DEF UpdateForwardingState
<1>6. ASSUME NEW e \in updates, UpdateGslIfBandwidth(e) PROVE FilesInv'
  <2>0. phase = "running" /\ IsNextEvent(e) /\ now' = e.ts /\ UNCHANGED config /\ e \in Events
    BY <1>6 DEF UpdateGslIfBandwidth, Runs, Events
  <2>1. UNCHANGED <<nextHop, fstateTime>> /\ phase' \in {"running", "failed"}
    BY <1>6, <2>0 DEF UpdateGslIfBandwidth, LoadRates, Fail
  <2>2. Loaded BY <2>0 DEF Loaded
  <2> QED BY <2>0, <2>1, <2>2, <1>n, <1>o
<1>7. ASSUME NEW e \in sends, Send(e) PROVE FilesInv'
  <2>0. phase = "running" /\ IsNextEvent(e) /\ now' = e.ts /\ e \in Events
        /\ UNCHANGED <<config, nextHop, fstateTime>>
    BY <1>7 DEF Send, Runs, Events
  <2>1. Loaded BY <2>0 DEF Loaded
  <2>2. phase' = phase \/ phase' = "failed"
    BY <1>7, <1>e, <2>0, RouteEvents DEF Send
  <2> QED BY <2>0, <2>1, <2>2, <1>n, <1>o
<1>8. ASSUME NEW e \in arrivals, Arrive(e) PROVE FilesInv'
  <2>0. phase = "running" /\ IsNextEvent(e) /\ now' = e.ts /\ e \in Events
        /\ UNCHANGED <<config, nextHop, fstateTime>>
    BY <1>8 DEF Arrive, Runs, Events
  <2>1. Loaded BY <2>0 DEF Loaded
  <2>2. phase' = phase \/ phase' = "failed"
    <3>1. CASE UNCHANGED phase BY <3>1
    <3>2. CASE Route(e.node, [e.pkt EXCEPT !.ttl = @ - 1], e.ts, arrivals \ {e})
      BY <1>e, <2>0, <3>2, RouteEvents
    <3> QED BY <1>8, <3>1, <3>2 DEF Arrive
  <2> QED BY <2>0, <2>1, <2>2, <1>n, <1>o
<1>9. CASE Stop
  <2>1. now <= endTime /\ endTime \in Nat /\ endTime <= endTime BY <1>s, <1>t
  <2> QED BY <1>9, <2>1, <1>o DEF Stop, Loaded
<1>10. CASE UNCHANGED vars BY <1>10, <1>o, <1>t, <1>s DEF vars, Loaded
<1> QED BY <1>1, <1>2, <1>3, <1>4, <1>5, <1>6, <1>7, <1>8, <1>9, <1>10 DEF Next

-----------------------------------------------------------------------------
(***************************************************************************)
(* What the packets have met.                                              *)
(***************************************************************************)
OneUpdate(p) == \A i \in DOMAIN p.trail : p.trail[i].fstate = p.trail[i].rate

Current(d, target) ==
    \E k \in DOMAIN routes : /\ InForce(k, d.ts)
                             /\ routes[k][<<d.node, target>>] # Drop
                             /\ routes[k][<<d.node, target>>].next = d.next
OnPath(p) == interval = Step => \A i \in DOMAIN p.trail : Current(p.trail[i], p.to)

TrailInv == \A p \in Packets : p \in Packet /\ OneUpdate(p) /\ OnPath(p)

LEMMA TrailInvMeans ==
    ASSUME TrailInv PROVE DecisionsUseOneUpdate /\ FollowsGeneratedPath
BY DEF TrailInv, OneUpdate, OnPath, Current, DecisionsUseOneUpdate, FollowsGeneratedPath

(* One more good decision keeps a trail good. *)
LEMMA GoodDecision ==
    ASSUME NEW p \in Packet, NEW q, NEW d, d.fstate = d.rate,
           q.to = p.to, q.trail = Append(p.trail, d),
           interval = Step => Current(d, p.to),
           OneUpdate(p), OnPath(p)
    PROVE  OneUpdate(q) /\ OnPath(q)
<1>1. p.trail \in Seq(Decision) BY DEF Packet
<1>2. /\ DOMAIN q.trail = DOMAIN p.trail \cup {Len(p.trail) + 1}
      /\ \A i \in DOMAIN p.trail : q.trail[i] = p.trail[i]
      /\ q.trail[Len(p.trail) + 1] = d
  BY <1>1
<1>3. OneUpdate(q) BY <1>2 DEF OneUpdate
<1>4. OnPath(q) BY <1>2 DEF OnPath
<1> QED BY <1>3, <1>4

(* At an event of the traffic, the generated state whose entries are       *)
(* installed is in force.                                                  *)
LEMMA InstalledIsInForce ==
    ASSUME TypeOK, OrderInv, FilesInv, phase = "running",
           NEW e \in sends \cup arrivals, IsNextEvent(e), interval = Step
    PROVE  \E k \in DOMAIN routes :
               /\ InForce(k, e.ts)
               /\ \A x \in Pair : nextHop[x] # Unset => nextHop[x] = routes[k][x]
<1>t. /\ interval \in Nat \ {0} /\ endTime \in Nat /\ now \in Nat
      /\ fstateTime \in Nat /\ Step \in Nat \ {0}
  BY TimeAssumption DEF TypeOK
<1>1. PICK k \in DOMAIN routes :
           /\ fstateTime = k * Step
           /\ \A x \in DOMAIN routes[0] : nextHop[x] = routes[k][x]
           /\ \A x \in Pair \ DOMAIN routes[0] : nextHop[x] = Unset
  BY DEF FilesInv, Loaded
<1>2. k \in Nat BY GeneratedType
<1>3. e \in Events /\ e.ts \in Nat /\ now <= e.ts /\ e.ts < endTime
  BY DEF TypeOK, SendEvent, Arrival, OrderInv, EventsInv, Events, IsNextEvent
<1>4. fstateTime <= e.ts BY <1>3, <1>t DEF FilesInv
<1>5. CASE forceStatic
  <2>1. k * Step = 0 BY <1>1, <1>5 DEF FilesInv
  <2>2. k = 0 BY <2>1, <1>2, <1>t, Multiples
  <2> QED BY <1>1, <1>5, <2>2 DEF InForce
<1>6. CASE ~forceStatic
  <2>1. e.ts <= fstateTime + interval
    <3>1. CASE Planned
      <4>1. PICK u \in Nat : updates = NextOf("fstate", u) \cup NextOf("rate", u + 1)
        BY NoEventBetween DEF Together
      <4> DEFINE a == [helper |-> "fstate", ts |-> fstateTime + interval, uid |-> u]
      <4>2. a \in Events BY <4>1, <3>1 DEF NextOf, Events
      <4>3. a.ts = fstateTime + interval OBVIOUS
      <4> HIDE DEF a
      <4>4. e.ts < a.ts \/ e.ts = a.ts BY <4>2 DEF IsNextEvent
      <4> QED BY <4>3, <4>4, <1>3, <1>t
    <3>2. CASE ~Planned
      <4>1. endTime <= fstateTime + interval BY <3>2, <1>6, <1>t DEF Planned
      <4> QED BY <4>1, <1>3, <1>t
    <3> QED BY <3>1, <3>2
  <2>2. (k + 1) * Step = fstateTime + interval BY <1>1, <1>2, <1>t, Multiples
  <2>3. InForce(k, e.ts) BY <1>1, <1>4, <1>6, <2>1, <2>2 DEF InForce
  <2> QED BY <1>1, <2>3
<1> QED BY <1>5, <1>6

(* The packets after a lookup are those before and the one looked up. *)
LEMMA RoutePackets ==
    ASSUME NEW n, NEW p, NEW t, NEW pending, Route(n, p, t, pending)
    PROVE  \A q \in Packets' :
               \/ \E a \in pending : q = a.pkt
               \/ \E s \in settled : q = s[1]
               \/ q = p
               \/ /\ nextHop[<<n, p.to>>] \notin NoHop
                  /\ q = Decided(n, p, t, nextHop[<<n, p.to>>])
<1> DEFINE hop == nextHop[<<n, p.to>>]
<1>1. ASSUME hop \notin NoHop, NEW delay \in Delay,
             arrivals' = pending \cup
                 {[ts |-> t + delay, uid |-> uid, node |-> hop.next,
                   pkt |-> Decided(n, p, t, hop)]},
             settled' = settled,
             NEW q \in Packets'
      PROVE  \/ \E a \in pending : q = a.pkt
             \/ \E s \in settled : q = s[1]
             \/ q = Decided(n, p, t, hop)
  BY <1>1 DEF Packets
<1>2. ASSUME arrivals' = pending, NEW x, NEW f, settled' = settled \cup {<<x, f>>},
             NEW q \in Packets'
      PROVE  \/ \E a \in pending : q = a.pkt
             \/ \E s \in settled : q = s[1]
             \/ q = x
  BY <1>2 DEF Packets
<1>3. ASSUME arrivals' = pending, settled' = settled, NEW q \in Packets'
      PROVE  \/ \E a \in pending : q = a.pkt
             \/ \E s \in settled : q = s[1]
  BY <1>3 DEF Packets
<1> QED BY <1>1, <1>2, <1>3 DEF Route

(* A lookup at an event of the traffic adds a good decision or none. *)
LEMMA RouteTrails ==
    ASSUME TypeOK, OrderInv, FilesInv, TrailInv, phase = "running",
           NEW e \in sends \cup arrivals, IsNextEvent(e), e.ts \in Nat,
           NEW n \in Node, NEW p \in Packet, n # p.to, OneUpdate(p), OnPath(p),
           NEW pending, pending \subseteq arrivals,
           Route(n, p, e.ts, pending)
    PROVE  \A q \in Packets' : q \in Packet /\ OneUpdate(q) /\ OnPath(q)
<1> DEFINE hop == nextHop[<<n, p.to>>]
<1>1. ASSUME NEW q \in Packets, q \in Packets'
      PROVE  q \in Packet /\ OneUpdate(q) /\ OnPath(q)
  BY DEF TrailInv
<1>2. /\ \A a \in pending : a.pkt \in Packets
      /\ \A s \in settled : s[1] \in Packets
  BY DEF Packets
<1>3. ASSUME hop \notin NoHop
      PROVE  LET q == Decided(n, p, e.ts, hop) IN
             q \in Packet /\ OneUpdate(q) /\ OnPath(q)
  <2>1. <<n, p.to>> \in Pair BY DEF Pair, Packet
  <2>2. hop \in Hop /\ hop # Unset /\ hop # Drop BY <1>3, <2>1 DEF TypeOK, NoHop
  <2>3. fstateTime \in Nat /\ rateTime \in Nat BY DEF TypeOK
  <2> DEFINE q == Decided(n, p, e.ts, hop)
             d == [node |-> n, next |-> hop.next, ts |-> e.ts,
                   fstate |-> fstateTime, rate |-> rateTime]
  <2>4. q \in Packet /\ q.to = p.to /\ q.trail = Append(p.trail, d)
    BY <2>2, <2>3, DecidedType
  <2>5. d.fstate = d.rate BY NoEventBetween DEF Together
  <2>6. d.node = n /\ d.next = hop.next /\ d.ts = e.ts OBVIOUS
  <2> HIDE DEF d, q
  <2>7. interval = Step => Current(d, p.to)
    <3> SUFFICES ASSUME interval = Step PROVE Current(d, p.to) OBVIOUS
    <3>1. PICK k \in DOMAIN routes :
              /\ InForce(k, e.ts)
              /\ \A x \in Pair : nextHop[x] # Unset => nextHop[x] = routes[k][x]
      BY InstalledIsInForce
    <3>2. hop = routes[k][<<n, p.to>>] BY <3>1, <2>1, <2>2
    <3> QED BY <3>1, <3>2, <2>2, <2>6 DEF Current
  <2>8. OneUpdate(q) /\ OnPath(q) BY <2>4, <2>5, <2>7, GoodDecision
  <2> QED BY <2>4, <2>8 DEF q
<1>4. \A q \in Packets' :
          \/ \E a \in pending : q = a.pkt
          \/ \E s \in settled : q = s[1]
          \/ q = p
          \/ hop \notin NoHop /\ q = Decided(n, p, e.ts, hop)
  BY RoutePackets
<1> QED BY <1>1, <1>2, <1>3, <1>4

LEMMA TrailPreserved ==
    TypeOK /\ OrderInv /\ FilesInv /\ TrailInv /\ [Next]_vars => TrailInv'
<1> SUFFICES ASSUME TypeOK, OrderInv, FilesInv, TrailInv, [Next]_vars PROVE TrailInv'
  OBVIOUS
<1>1. ASSUME UNCHANGED config,
             \A q \in Packets' : q \in Packet /\ OneUpdate(q) /\ OnPath(q)
      PROVE  TrailInv'
  BY <1>1 DEF TrailInv, OneUpdate, OnPath, Current, InForce, config
<1>2. ASSUME UNCHANGED config, UNCHANGED <<arrivals, settled>> PROVE TrailInv'
  <2>1. Packets' = Packets BY <1>2 DEF Packets
  <2> QED BY <1>1, <1>2, <2>1 DEF TrailInv
<1>3. CASE ConstructArbiterHelper
  BY <1>2, <1>3 DEF ConstructArbiterHelper, Fail, traffic
<1>4. CASE ConstructBandwidthHelper
  BY <1>2, <1>4 DEF ConstructBandwidthHelper, Fail, traffic
<1>5. ASSUME NEW f \in Flow, NEW t \in StartTimes, ScheduleFlow(f, t) PROVE TrailInv'
  BY <1>2, <1>5 DEF ScheduleFlow
<1>6. CASE StartSimulation BY <1>2, <1>6 DEF StartSimulation, traffic
<1>7. ASSUME NEW e \in updates, UpdateForwardingState(e) \/ UpdateGslIfBandwidth(e)
      PROVE  TrailInv'
  BY <1>2, <1>7 DEF UpdateForwardingState, UpdateGslIfBandwidth, Fail, traffic
<1>8. ASSUME NEW e \in sends, Send(e) PROVE TrailInv'
  <2> DEFINE p == [id |-> sent, from |-> e.flow[1], to |-> e.flow[2],
                   ttl |-> InitialTtl, trail |-> <<>>]
  <2>1. phase = "running" /\ IsNextEvent(e) /\ e.ts \in Nat /\ UNCHANGED config
    BY <1>8 DEF TypeOK, SendEvent, Send, Runs
  <2>2. e.flow \in GroundStation \X GroundStation /\ e.flow[1] # e.flow[2]
    BY NetworkAssumption DEF TypeOK, SendEvent
  <2>3. p \in Packet /\ p.from \in Node /\ p.from # p.to
    BY <2>2, NetworkAssumption, TimeAssumption DEF TypeOK, Packet
  <2>4. OneUpdate(p) /\ OnPath(p) BY DEF OneUpdate, OnPath
  <2>5. Route(p.from, p, e.ts, arrivals) BY <1>8 DEF Send
  <2> HIDE DEF p
  <2>6. \A q \in Packets' : q \in Packet /\ OneUpdate(q) /\ OnPath(q)
    BY <2>1, <2>3, <2>4, <2>5, RouteTrails
  <2> QED BY <2>1, <2>6, <1>1
<1>9. ASSUME NEW e \in arrivals, Arrive(e) PROVE TrailInv'
  <2>1. /\ phase = "running" /\ IsNextEvent(e) /\ e.ts \in Nat /\ UNCHANGED config
        /\ e.pkt \in Packet /\ e.node \in Node
    BY <1>9 DEF TypeOK, Arrival, Arrive, Runs
  <2>2. e.pkt \in Packets BY DEF Packets
  <2>3. OneUpdate(e.pkt) /\ OnPath(e.pkt) BY <2>2 DEF TrailInv
  <2>4. CASE /\ settled' = settled \cup {<<e.pkt, "delivered">>}
             /\ arrivals' = arrivals \ {e}
    <3>1. Packets' \subseteq Packets BY <2>4 DEF Packets
    <3> QED BY <3>1, <2>1, <1>1 DEF TrailInv
  <2>5. CASE /\ e.node # e.pkt.to
             /\ Route(e.node, [e.pkt EXCEPT !.ttl = @ - 1], e.ts, arrivals \ {e})
    <3> DEFINE p == [e.pkt EXCEPT !.ttl = @ - 1]
    <3>0. e.pkt.ttl # 0 BY DEF TypeOK
    <3>1. p \in Packet /\ p.to = e.pkt.to /\ p.trail = e.pkt.trail
      BY <2>1, <3>0, TimeAssumption DEF Packet
    <3> HIDE DEF p
    <3>2. OneUpdate(p) /\ OnPath(p) BY <3>1, <2>3 DEF OneUpdate, OnPath
    <3>3. Route(e.node, p, e.ts, arrivals \ {e}) /\ e.node # p.to BY <2>5, <3>1 DEF p
    <3>4. \A q \in Packets' : q \in Packet /\ OneUpdate(q) /\ OnPath(q)
      BY <2>1, <3>1, <3>2, <3>3, RouteTrails
    <3> QED BY <2>1, <3>4, <1>1
  <2> QED BY <1>9, <2>4, <2>5 DEF Arrive
<1>10. CASE Stop BY <1>2, <1>10 DEF Stop, traffic
<1>11. CASE UNCHANGED vars BY <1>2, <1>11 DEF vars, traffic
<1> QED BY <1>3, <1>4, <1>5, <1>6, <1>7, <1>8, <1>9, <1>10, <1>11 DEF Next

LEMMA TrailInitially == Init => TrailInv
BY DEF Init, TrailInv, Packets

(* All of it together is inductive. *)
IInv == TypeOK /\ OrderInv /\ FilesInv /\ TrailInv

LEMMA IInvAlways == Spec => []IInv
<1>1. Init => IInv
  BY SFTypeInitially, OrderInitially, FilesInitially, TrailInitially DEF IInv
<1>2. IInv /\ [Next]_vars => IInv'
  BY SFTypePreserved, OrderPreserved, FilesPreserved, TrailPreserved DEF IInv
<1> QED BY <1>1, <1>2, PTL DEF Spec

(* No packet is routed between the updates of the two helpers: each        *)
(* decision of ArbiterSatnet::Decide is made with a forwarding state and   *)
(* rates of the same moment.                                               *)
THEOREM SFDecisionsUseOneUpdate == Spec => []DecisionsUseOneUpdate
<1>1. IInv => DecisionsUseOneUpdate BY TrailInvMeans DEF IInv
<1> QED BY <1>1, IInvAlways, PTL

(* When every generated file is loaded, the decisions of ArbiterSatnet     *)
(* follow the generated forwarding states, whatever these are.             *)
THEOREM SFFollowsGeneratedPath == Spec => []FollowsGeneratedPath
<1>1. IInv => FollowsGeneratedPath BY TrailInvMeans DEF IInv
<1> QED BY <1>1, IInvAlways, PTL

-----------------------------------------------------------------------------
(***************************************************************************)
(* Runs do not fail.                                                       *)
(***************************************************************************)
(* A file that covers the run is there and is accepted when it is due.     *)
LEMMA FileIsThere ==
    ASSUME TypeOK, FilesCoverRun, NEW m \in Nat, NEW t \in Nat, t = m * interval,
           t = 0 \/ (t < endTime /\ ~forceStatic)
    PROVE  CanLoadFstate(t) /\ FileExists(rates, t)
<1>t. interval \in Nat \ {0} /\ Step \in Nat \ {0} /\ endTime \in Nat
  BY TimeAssumption DEF TypeOK
<1>1. t % interval = 0 BY <1>t, Multiples
<1>2. t \in {0} \cup 0..(endTime - 1) BY <1>t
<1>3. FileExists(routes, t) /\ FileExists(rates, t) BY <1>1, <1>2 DEF FilesCoverRun
<1>4. t % Step = 0 /\ t \div Step \in DOMAIN routes BY <1>3 DEF FileExists
<1>5. t = (t \div Step) * Step BY <1>4, <1>t, MultipleOf
<1>6. FileAccepted(t) BY <1>4, <1>5 DEF FilesCoverRun
<1> QED BY <1>3, <1>6 DEF CanLoadFstate

(* Once loaded, the entry of every pair is set. *)
LEMMA AllSet ==
    ASSUME TypeOK, FilesInv, FilesCoverRun, phase = "running", NEW x \in Pair
    PROVE  nextHop[x] # Unset
<1>1. 0 = 0 * interval BY TimeAssumption DEF TypeOK
<1>2. FileExists(routes, 0) BY <1>1, FileIsThere DEF CanLoadFstate
<1>3. 0 \in DOMAIN routes BY <1>2, TimeAssumption DEF FileExists
<1>4. DOMAIN routes[0] = Pair BY <1>3 DEF FilesCoverRun
<1> QED BY <1>4 DEF FilesInv, Loaded

(* A lookup of an entry that is set does not fail. *)
LEMMA RouteSucceeds ==
    ASSUME TypeOK, FilesInv, FilesCoverRun, phase = "running",
           NEW n \in Node, NEW p, p.to \in GroundStation, n # p.to, NEW t, NEW pending,
           Route(n, p, t, pending)
    PROVE  phase' = "running"
<1>1. <<n, p.to>> \in Pair BY DEF Pair
<1>2. nextHop[<<n, p.to>>] # Unset BY <1>1, AllSet
<1> QED BY <1>2 DEF Route

LEMMA SuccessPreserved == IInv /\ NeverFails /\ [Next]_vars => NeverFails'
<1> SUFFICES ASSUME IInv, NeverFails, [Next]_vars, FilesCoverRun' PROVE phase' # "failed"
  BY DEF NeverFails
<1> USE DEF IInv
<1>0. UNCHANGED config
  BY DEF Next, vars, ConstructArbiterHelper, ConstructBandwidthHelper, ScheduleFlow,
         StartSimulation, UpdateForwardingState, UpdateGslIfBandwidth, Send, Arrive, Stop
<1>c. FilesCoverRun /\ phase # "failed"
  BY <1>0 DEF FilesCoverRun, FileAccepted, NeverFails, config
<1>t. /\ interval \in Nat \ {0} /\ endTime \in Nat /\ fstateTime \in Nat
  BY TimeAssumption DEF TypeOK
<1>f. CanLoadFstate(0) /\ FileExists(rates, 0)
  <2>1. 0 = 0 * interval BY <1>t
  <2> QED BY <2>1, <1>c, FileIsThere
<1>m. PICK m \in Nat : fstateTime = m * interval BY DEF FilesInv
<1>1. CASE ConstructArbiterHelper BY <1>1, <1>f DEF ConstructArbiterHelper
<1>2. CASE ConstructBandwidthHelper BY <1>2, <1>f DEF ConstructBandwidthHelper
<1>3. ASSUME NEW f \in Flow, NEW t \in StartTimes, ScheduleFlow(f, t) PROVE phase' # "failed"
  BY <1>3, <1>c DEF ScheduleFlow
<1>4. CASE StartSimulation BY <1>4 DEF StartSimulation
<1>5. ASSUME NEW e \in updates, UpdateForwardingState(e) PROVE phase' # "failed"
  <2>0. e.helper = "fstate" /\ phase = "running" /\ IsNextEvent(e)
    BY <1>5 DEF UpdateForwardingState, Runs
  <2>1. Planned /\ e.ts = fstateTime + interval BY <2>0, FstateFirst
  <2>2. e.ts = (m + 1) * interval /\ e.ts \in Nat BY <2>1, <1>m, <1>t, Multiples
  <2>3. e.ts < endTime /\ ~forceStatic BY <2>1 DEF Planned
  <2>4. CanLoadFstate(e.ts)
    <3>1. m + 1 \in Nat OBVIOUS
    <3> QED BY <3>1, <2>2, <2>3, <1>c, FileIsThere
  <2> QED BY <1>5, <2>0, <2>4 DEF UpdateForwardingState
<1>6. ASSUME NEW e \in updates, UpdateGslIfBandwidth(e) PROVE phase' # "failed"
  <2>0. e.helper = "rate" /\ phase = "running" /\ IsNextEvent(e)
    BY <1>6 DEF UpdateGslIfBandwidth, Runs
  <2>1. e.ts = fstateTime BY <2>0, FstateFirst
  <2>2. e.ts = 0 \/ (e.ts < endTime /\ ~forceStatic)
    BY <2>0, <2>1 DEF IsNextEvent, FilesInv
  <2>3. FileExists(rates, e.ts) BY <2>1, <2>2, <1>m, <1>t, <1>c, FileIsThere
  <2> QED BY <1>6, <2>0, <2>3 DEF UpdateGslIfBandwidth
<1>7. ASSUME NEW e \in sends, Send(e) PROVE phase' # "failed"
  <2> DEFINE p == [id |-> sent, from |-> e.flow[1], to |-> e.flow[2],
                   ttl |-> InitialTtl, trail |-> <<>>]
  <2>1. e.flow \in GroundStation \X GroundStation /\ e.flow[1] # e.flow[2]
    BY NetworkAssumption DEF TypeOK, SendEvent
  <2>2. p.to \in GroundStation /\ p.from \in Node /\ p.from # p.to
    BY <2>1, NetworkAssumption
  <2>3. Route(p.from, p, e.ts, arrivals) /\ phase = "running" BY <1>7 DEF Send, Runs
  <2> HIDE DEF p
  <2>4. phase' = "running" BY <2>2, <2>3, <1>c, RouteSucceeds
  <2> QED BY <2>4
<1>8. ASSUME NEW e \in arrivals, Arrive(e) PROVE phase' # "failed"
  <2>1. phase = "running" /\ e.pkt \in Packet /\ e.node \in Node
    BY <1>8 DEF TypeOK, Arrival, Arrive, Runs
  <2>2. CASE UNCHANGED phase BY <2>1, <2>2
  <2>3. CASE /\ e.node # e.pkt.to
             /\ Route(e.node, [e.pkt EXCEPT !.ttl = @ - 1], e.ts, arrivals \ {e})
    <3> DEFINE p == [e.pkt EXCEPT !.ttl = @ - 1]
    <3>1. p.to = e.pkt.to /\ e.pkt.to \in GroundStation BY <2>1 DEF Packet
    <3>2. Route(e.node, p, e.ts, arrivals \ {e}) BY <2>3
    <3> HIDE DEF p
    <3>3. phase' = "running" BY <2>1, <2>3, <3>1, <3>2, <1>c, RouteSucceeds
    <3> QED BY <3>3
  <2> QED BY <1>8, <2>2, <2>3 DEF Arrive
<1>9. CASE Stop BY <1>9 DEF Stop
<1>10. CASE UNCHANGED vars BY <1>10, <1>c DEF vars
<1> QED BY <1>1, <1>2, <1>3, <1>4, <1>5, <1>6, <1>7, <1>8, <1>9, <1>10 DEF Next

(* With acceptable files for every update of the run, neither helper       *)
(* throws and no arbiter meets the entry (-2, -2, -2).                     *)
THEOREM SFNeverFails == Spec => []NeverFails
<1>1. Init => NeverFails BY DEF Init, NeverFails
<1> QED BY <1>1, SuccessPreserved, IInvAlways, PTL DEF Spec

-----------------------------------------------------------------------------
(***************************************************************************)
(* What the devices and the arbiters hold.                                 *)
(***************************************************************************)
(* The rates of the moment of the last forwarding state are still to come. *)
RatesDue == \E r \in updates : r.helper = "rate" /\ r.ts = fstateTime

RatesInv ==
    /\ forceStatic => rateTime = 0
    /\ phase \in {"flows", "running"} =>
           IF RatesDue THEN rateTime + interval = fstateTime ELSE rateTime = fstateTime
    /\ phase = "arbiters" \/ phase = "rates" =>
           gslRate = [n \in Node |-> InitialRate]
    /\ phase \in {"flows", "running"} /\ interval = Step =>
           \E k \in DOMAIN rates : rateTime = k * Step /\ gslRate = rates[k]

(* The files of the rates are typed and name every node. *)
LEMMA GeneratedRatesType ==
    ASSUME TypeOK
    PROVE  /\ DOMAIN rates \subseteq Nat
           /\ \A k \in DOMAIN rates : 0..k \subseteq DOMAIN rates /\ rates[k] \in [Node -> Rate]
<1>1. rates \in GeneratedRates BY DEF TypeOK
<1> QED BY <1>1, GeneratedAssumption

(* The first file sets every rate. *)
LEMMA FirstRates ==
    ASSUME TypeOK, FileExists(rates, 0)
    PROVE  0 \in DOMAIN rates /\ Overlay(gslRate, rates, 0) = rates[0]
<1>1. 0 \div Step = 0 BY TimeAssumption
<1>2. 0 \in DOMAIN rates BY <1>1 DEF FileExists
<1>3. rates[0] \in [Node -> Rate] BY <1>2, GeneratedRatesType
<1>4. DOMAIN gslRate = Node BY DEF TypeOK
<1>5. Changed(rates, 0) = Node BY <1>1, <1>3 DEF Changed
<1>6. Overlay(gslRate, rates, 0) = [n \in Node |-> rates[0][n]]
  BY <1>1, <1>4, <1>5 DEF Overlay
<1> QED BY <1>2, <1>3, <1>6

(* The next file, laid over the rates of one state, gives the next one. *)
LEMMA NextRates ==
    ASSUME TypeOK, NEW k \in DOMAIN rates, k + 1 \in DOMAIN rates, gslRate = rates[k]
    PROVE  Overlay(gslRate, rates, (k + 1) * Step) = rates[k + 1]
<1>1. k \in Nat /\ k + 1 # 0 /\ (k + 1) - 1 = k BY GeneratedRatesType
<1>2. ((k + 1) * Step) \div Step = k + 1
  <2>1. k + 1 \in Nat BY <1>1
  <2> QED BY <2>1, Multiples, TimeAssumption
<1>3. 0 \in 0..k BY <1>1
<1>4. /\ rates[0] \in [Node -> Rate] /\ rates[k] \in [Node -> Rate]
      /\ rates[k + 1] \in [Node -> Rate]
  BY <1>3, GeneratedRatesType
<1>5. Changed(rates, (k + 1) * Step) = {n \in Node : rates[k + 1][n] # rates[k][n]}
  BY <1>1, <1>2, <1>4 DEF Changed
<1>6. DOMAIN gslRate = Node BY DEF TypeOK
<1>7. Overlay(gslRate, rates, (k + 1) * Step) =
          [n \in Node |-> IF rates[k + 1][n] # rates[k][n]
                          THEN rates[k + 1][n] ELSE gslRate[n]]
  BY <1>2, <1>5, <1>6 DEF Overlay
<1>8. Overlay(gslRate, rates, (k + 1) * Step) = [n \in Node |-> rates[k + 1][n]]
  BY <1>7
<1> QED BY <1>4, <1>8

LEMMA RatesPreserved == IInv /\ RatesInv /\ [Next]_vars => RatesInv'
<1> SUFFICES ASSUME IInv, RatesInv, [Next]_vars PROVE RatesInv' OBVIOUS
<1> USE DEF IInv, config, installed, traffic
<1>t. /\ interval \in Nat \ {0} /\ endTime \in Nat /\ uid \in Nat
      /\ fstateTime \in Nat /\ rateTime \in Nat /\ Step \in Nat \ {0}
  BY TimeAssumption DEF TypeOK
<1>o. ASSUME UNCHANGED <<config, updates, installed>>,
             phase' \in {"flows", "running"} => phase \in {"flows", "running"},
             phase' \notin {"arbiters", "rates"} \/ phase' = phase
      PROVE  RatesInv'
  BY <1>o DEF RatesInv, RatesDue
<1>f. ASSUME Fail, UNCHANGED config PROVE RatesInv'
  BY <1>f, <1>o DEF Fail
<1>1. CASE ConstructArbiterHelper
  <2>1. CASE LoadFstate(0, {}) /\ phase' = "rates"
    <3>1. phase = "arbiters" /\ UNCHANGED <<forceStatic, gslRate, rateTime>>
      BY <1>1, <2>1 DEF ConstructArbiterHelper, LoadFstate
    <3> QED BY <2>1, <3>1 DEF RatesInv
  <2> QED BY <1>1, <1>f, <2>1 DEF ConstructArbiterHelper
<1>2. CASE ConstructBandwidthHelper
  <2>1. CASE FileExists(rates, 0) /\ LoadRates(0, updates) /\ phase' = "flows" /\ UNCHANGED config
    <3>1. /\ gslRate' = rates[0] /\ 0 \in DOMAIN rates /\ rateTime' = 0 /\ fstateTime' = 0
      BY <1>2, <2>1, FirstRates
         DEF ConstructBandwidthHelper, LoadRates, OrderInv, HelpersInv
    <3>2. updates' = NextOf("fstate", 0) \cup NextUpdate("rate", 0) /\ fstateTime = 0
      BY <1>2, <2>1 DEF ConstructBandwidthHelper, LoadRates, OrderInv, HelpersInv
    <3>3. \A e \in NextUpdate("rate", 0) : 0 < e.ts BY NextUpdateIs
    <3>4. \A e \in NextOf("fstate", 0) : e.helper = "fstate" BY DEF NextOf
    <3>5. ~RatesDue'
      <4> SUFFICES ASSUME NEW r \in updates', r.helper = "rate", r.ts = 0 PROVE FALSE
        BY <3>1 DEF RatesDue
      <4>1. r \in NextUpdate("rate", 0) BY <3>2, <3>4
      <4> QED BY <4>1, <3>3
    <3>6. 0 = 0 * Step BY <1>t
    <3> QED BY <2>1, <3>1, <3>5, <3>6 DEF RatesInv
  <2> QED BY <1>2, <1>f, <2>1 DEF ConstructBandwidthHelper
<1>3. ASSUME NEW f \in Flow, NEW t \in StartTimes, ScheduleFlow(f, t) PROVE RatesInv'
  BY <1>3, <1>o DEF ScheduleFlow
<1>4. CASE StartSimulation BY <1>4, <1>o DEF StartSimulation
<1>5. ASSUME NEW e \in updates, UpdateForwardingState(e) PROVE RatesInv'
  <2>0. e.helper = "fstate" /\ phase = "running" /\ IsNextEvent(e) /\ UNCHANGED config
    BY <1>5 DEF UpdateForwardingState, Runs
  <2>1. CASE LoadFstate(e.ts, updates \ {e}) /\ phase' = phase
    <3>1. /\ Together /\ Planned /\ e.ts = fstateTime + interval
          /\ updates = {e} \cup NextOf("rate", e.uid + 1)
      BY <2>0, FstateFirst
    <3>2. /\ fstateTime' = fstateTime + interval /\ UNCHANGED <<gslRate, rateTime>>
          /\ updates \ {e} \subseteq updates'
      BY <2>1, <3>1 DEF LoadFstate
    <3> DEFINE r == [helper |-> "rate", ts |-> fstateTime + interval, uid |-> e.uid + 1]
    <3>3. r \in updates BY <3>1 DEF NextOf
    <3>4. r \in updates' /\ r.helper = "rate" /\ r.ts = fstateTime'
      BY <2>0, <3>2, <3>3
    <3> HIDE DEF r
    <3>5. RatesDue' BY <3>4 DEF RatesDue
    <3>6. rateTime' + interval' = fstateTime' BY <2>0, <3>1, <3>2 DEF Together
    <3> QED BY <2>0, <2>1, <3>2, <3>5, <3>6 DEF RatesInv
  <2> QED BY <1>5, <1>f, <2>1 DEF UpdateForwardingState
<1>6. ASSUME NEW e \in updates, UpdateGslIfBandwidth(e) PROVE RatesInv'
  <2>0. e.helper = "rate" /\ phase = "running" /\ IsNextEvent(e) /\ UNCHANGED config
    BY <1>6 DEF UpdateGslIfBandwidth, Runs
  <2>1. CASE FileExists(rates, e.ts) /\ LoadRates(e.ts, updates \ {e}) /\ phase' = phase
    <3>1. e.ts = fstateTime /\ updates = {e} \cup NextOf("fstate", uid - 1)
      BY <2>0, FstateFirst
    <3>2. rateTime + interval = fstateTime
      <4>1. RatesDue BY <2>0, <3>1 DEF RatesDue
      <4> QED BY <2>0, <4>1 DEF RatesInv
    <3>3. /\ rateTime' = fstateTime /\ gslRate' = Overlay(gslRate, rates, fstateTime)
          /\ fstateTime' = fstateTime
          /\ updates' = (updates \ {e}) \cup NextUpdate("rate", fstateTime)
      BY <2>1, <3>1 DEF LoadRates
    <3>4. ~RatesDue'
      <4> SUFFICES ASSUME NEW r \in updates', r.helper = "rate", r.ts = fstateTime PROVE FALSE
        BY <3>3 DEF RatesDue
      <4>1. \A f \in NextOf("fstate", uid - 1) : f.helper = "fstate" BY DEF NextOf
      <4>2. r \in NextUpdate("rate", fstateTime) BY <3>1, <3>3, <4>1
      <4>3. fstateTime < r.ts BY <4>2, <1>t, NextUpdateIs
      <4> QED BY <4>3, <1>t
    <3>5. ASSUME interval = Step
          PROVE  \E k \in DOMAIN rates : rateTime' = k * Step /\ gslRate' = rates[k]
      <4>1. PICK k \in DOMAIN rates : rateTime = k * Step /\ gslRate = rates[k]
        BY <2>0, <3>5 DEF RatesInv
      <4>2. k \in Nat /\ k + 1 \in Nat BY <4>1, GeneratedRatesType
      <4>3. fstateTime = (k + 1) * Step BY <3>2, <3>5, <4>1, <4>2, <1>t, Multiples
      <4>4. fstateTime \div Step = k + 1 BY <4>2, <4>3, <1>t, Multiples
      <4>5. k + 1 \in DOMAIN rates BY <2>1, <3>1, <4>4 DEF FileExists
      <4>6. gslRate' = rates[k + 1] BY <3>3, <4>1, <4>3, <4>5, NextRates
      <4> QED BY <3>3, <4>3, <4>5, <4>6
    <3>6. ~forceStatic
      <4>1. forceStatic => rateTime = 0 /\ fstateTime = 0 BY DEF RatesInv, FilesInv
      <4> QED BY <4>1, <3>2, <1>t
    <3> QED BY <2>0, <2>1, <3>3, <3>4, <3>5, <3>6 DEF RatesInv
  <2> QED BY <1>6, <1>f, <2>1 DEF UpdateGslIfBandwidth
<1>r. ASSUME NEW n, NEW p, NEW t \in Nat, NEW pending, Route(n, p, t, pending)
      PROVE  phase' = phase \/ phase' = "failed"
  BY <1>r, RouteEvents
<1>7. ASSUME NEW e \in sends, Send(e) PROVE RatesInv'
  <2>1. e.ts \in Nat /\ phase = "running" BY <1>7 DEF TypeOK, SendEvent, Send, Runs
  <2>2. phase' = phase \/ phase' = "failed" BY <1>7, <1>r, <2>1 DEF Send
  <2> QED BY <1>7, <1>o, <2>1, <2>2 DEF Send
<1>8. ASSUME NEW e \in arrivals, Arrive(e) PROVE RatesInv'
  <2>1. e.ts \in Nat /\ phase = "running" BY <1>8 DEF TypeOK, Arrival, Arrive, Runs
  <2>2. phase' = phase \/ phase' = "failed" BY <1>8, <1>r, <2>1 DEF Arrive
  <2> QED BY <1>8, <1>o, <2>1, <2>2 DEF Arrive
<1>9. CASE Stop BY <1>9, <1>o DEF Stop
<1>10. CASE UNCHANGED vars BY <1>10, <1>o DEF vars
<1> QED BY <1>1, <1>2, <1>3, <1>4, <1>5, <1>6, <1>7, <1>8, <1>9, <1>10 DEF Next

(* The update after the last of the rates is still ahead. *)
LEMMA NextUpdateAhead ==
    ASSUME IInv, RatesInv, phase = "running", ~forceStatic
    PROVE  now <= rateTime + interval
<1> USE DEF IInv
<1>t. /\ interval \in Nat \ {0} /\ endTime \in Nat /\ now \in Nat
      /\ fstateTime \in Nat /\ rateTime \in Nat
  BY TimeAssumption DEF TypeOK
<1>1. CASE RatesDue
  <2>1. rateTime + interval = fstateTime BY <1>1 DEF RatesInv
  <2>2. PICK r \in updates : r.ts = fstateTime BY <1>1 DEF RatesDue
  <2>3. now <= r.ts BY DEF OrderInv, EventsInv, Events
  <2> QED BY <2>1, <2>2, <2>3
<1>2. CASE ~RatesDue
  <2>1. rateTime = fstateTime BY <1>2 DEF RatesInv
  <2>2. Together BY <1>2 DEF OrderInv, HelpersInv, Between, RatesDue
  <2>3. CASE Planned
    <3>1. PICK u \in Nat : updates = NextOf("fstate", u) \cup NextOf("rate", u + 1)
      BY <2>2 DEF Together
    <3> DEFINE a == [helper |-> "fstate", ts |-> fstateTime + interval, uid |-> u]
    <3>2. a \in Events BY <2>3, <3>1 DEF NextOf, Events
    <3>3. a.ts = fstateTime + interval OBVIOUS
    <3> HIDE DEF a
    <3>4. now <= a.ts BY <3>2 DEF OrderInv, EventsInv
    <3> QED BY <2>1, <3>3, <3>4
  <2>4. CASE ~Planned
    <3>1. endTime <= fstateTime + interval BY <2>4, <1>t DEF Planned
    <3>2. now <= endTime BY DEF FilesInv
    <3> QED BY <2>1, <3>1, <3>2, <1>t
  <2> QED BY <2>3, <2>4
<1> QED BY <1>1, <1>2

LEMMA RatesInvMeans ==
    ASSUME IInv, RatesInv
    PROVE  InstalledIsGenerated
<1> SUFFICES ASSUME phase = "running", interval = Step
             PROVE  \E k \in DOMAIN rates :
                        /\ InForce(k, now) /\ gslRate = rates[k]
                        /\ fstateTime = rateTime =>
                               \A x \in DOMAIN routes[k] : nextHop[x] = routes[k][x]
  BY DEF InstalledIsGenerated
<1> USE DEF IInv
<1>t. /\ interval \in Nat \ {0} /\ now \in Nat /\ Step \in Nat \ {0}
      /\ fstateTime \in Nat /\ rateTime \in Nat
  BY TimeAssumption DEF TypeOK
<1>1. PICK k \in DOMAIN rates : rateTime = k * Step /\ gslRate = rates[k]
  BY DEF RatesInv
<1>2. k \in Nat BY GeneratedRatesType
<1>3. InForce(k, now)
  <2>1. CASE forceStatic
    <3>1. k * Step = 0 BY <1>1, <2>1 DEF RatesInv
    <3>2. k = 0 BY <3>1, <1>2, <1>t, Multiples
    <3> QED BY <2>1, <3>2 DEF InForce
  <2>2. CASE ~forceStatic
    <3>1. now <= rateTime + interval BY <2>2, NextUpdateAhead
    <3>2. (k + 1) * Step = rateTime + interval BY <1>1, <1>2, <1>t, Multiples
    <3>3. rateTime <= fstateTime
      <4>1. rateTime + interval = fstateTime \/ rateTime = fstateTime BY DEF RatesInv
      <4> QED BY <4>1, <1>t
    <3>4. fstateTime <= now BY DEF FilesInv
    <3>5. k * Step <= now BY <1>1, <3>3, <3>4, <1>t
    <3> QED BY <2>2, <3>1, <3>2, <3>5 DEF InForce
  <2> QED BY <2>1, <2>2
<1>4. ASSUME fstateTime = rateTime, NEW x \in DOMAIN routes[k]
      PROVE  nextHop[x] = routes[k][x]
  <2>1. PICK j \in DOMAIN routes :
           /\ fstateTime = j * Step
           /\ \A y \in DOMAIN routes[0] : nextHop[y] = routes[j][y]
    BY DEF FilesInv, Loaded
  <2>2. j \in Nat BY GeneratedType
  <2>3. j = k
    <3>1. (j * Step) \div Step = j BY <2>2, <1>t, Multiples
    <3>2. (k * Step) \div Step = k BY <1>2, <1>t, Multiples
    <3> QED BY <3>1, <3>2, <2>1, <1>1, <1>4
  <2>4. DOMAIN routes[k] = DOMAIN routes[0] BY <2>3, GeneratedType
  <2> QED BY <1>4, <2>1, <2>3, <2>4
<1> QED BY <1>1, <1>3, <1>4

(* When every generated file is loaded, the GSL devices have the rates and *)
(* the arbiters the entries of a generated state in force, those included  *)
(* that no file since the first has named.                                 *)
THEOREM SFInstalledIsGenerated == Spec => []InstalledIsGenerated
<1>1. Init => RatesInv BY DEF Init, RatesInv
<1>2. IInv /\ RatesInv => InstalledIsGenerated BY RatesInvMeans
<1> QED BY <1>1, <1>2, IInvAlways, RatesPreserved, PTL DEF Spec

-----------------------------------------------------------------------------
(***************************************************************************)
(* Loops.                                                                  *)
(***************************************************************************)
Premise == interval = Step /\ \A k \in DOMAIN routes : LoopFree(routes[k])

Distances == [Node -> 0..Cardinality(Node)]
Shortens(dist, table, g) ==
    \A x \in DOMAIN table : x[2] = g /\ table[x] # Drop => dist[table[x].next] < dist[x[1]]

(* How far node n is from g in the forwarding state loaded at t. *)
DistanceTo(g, t) == CHOOSE dist \in Distances : Shortens(dist, routes[t \div Step], g)

(* A packet that comes to n is nearer to its destination than at each      *)
(* node where the state that is installed now routed it.                   *)
Nearer(p, n) ==
    LET dist == DistanceTo(p.to, fstateTime) IN
    \A i \in DOMAIN p.trail :
        /\ p.trail[i].fstate <= fstateTime
        /\ p.trail[i].fstate = fstateTime => dist[n] < dist[p.trail[i].node]

NoLoop(p) ==
    \A i, j \in DOMAIN p.trail :
        i < j /\ p.trail[i].node = p.trail[j].node => p.trail[i].fstate < p.trail[j].fstate

LoopInv ==
    Premise => /\ \A e \in arrivals : Nearer(e.pkt, e.node)
               /\ \A p \in Packets : NoLoop(p)

(* A hop that is installed leads nearer to the destination. *)
LEMMA HopShortens ==
    ASSUME TypeOK, FilesInv, Loaded, Premise, NEW g \in GroundStation
    PROVE  /\ DistanceTo(g, fstateTime) \in Distances
           /\ \A n \in Node : n # g /\ nextHop[<<n, g>>] \notin NoHop =>
                  DistanceTo(g, fstateTime)[nextHop[<<n, g>>].next]
                      < DistanceTo(g, fstateTime)[n]
<1>1. PICK k \in DOMAIN routes :
          /\ fstateTime = k * Step
          /\ \A x \in DOMAIN routes[0] : nextHop[x] = routes[k][x]
          /\ \A x \in Pair \ DOMAIN routes[0] : nextHop[x] = Unset
  BY DEF FilesInv, Premise
<1>2. fstateTime \div Step = k
  <2>1. k \in Nat BY GeneratedType
  <2> QED BY <1>1, <2>1, Multiples, TimeAssumption
<1>3. \E dist \in Distances : Shortens(dist, routes[k], g)
  <2>1. LoopFree(routes[k]) BY DEF Premise
  <2> QED BY <2>1 DEF LoopFree, Distances, Shortens
<1>4. DistanceTo(g, fstateTime) = CHOOSE dist \in Distances : Shortens(dist, routes[k], g)
  BY <1>2 DEF DistanceTo
<1>5. PICK dist : dist = DistanceTo(g, fstateTime) OBVIOUS
<1>6. dist \in Distances /\ Shortens(dist, routes[k], g) BY <1>3, <1>4, <1>5, Zenon
<1>7. DOMAIN routes[k] = DOMAIN routes[0] BY GeneratedType
<1>8. ASSUME NEW n \in Node, n # g, nextHop[<<n, g>>] \notin NoHop
      PROVE  dist[nextHop[<<n, g>>].next] < dist[n]
  <2> DEFINE x == <<n, g>>
  <2>1. x \in Pair /\ x[1] = n /\ x[2] = g BY <1>8 DEF Pair
  <2>2. nextHop[x] # Unset /\ nextHop[x] # Drop BY <1>8 DEF NoHop
  <2> HIDE DEF x
  <2>3. x \in DOMAIN routes[0] BY <1>1, <2>1, <2>2
  <2>4. nextHop[x] = routes[k][x] /\ x \in DOMAIN routes[k] BY <1>1, <1>7, <2>3
  <2>5. dist[nextHop[x].next] < dist[x[1]] BY <1>6, <2>1, <2>2, <2>4 DEF Shortens
  <2> QED BY <2>1, <2>5 DEF x
<1> QED BY <1>5, <1>6, <1>8

(* One more hop in the installed state. *)
LEMMA HopIsNoLoop ==
    ASSUME TypeOK, NEW dist \in Distances, NEW p \in Packet, NEW n \in Node, NEW m \in Node,
           dist = DistanceTo(p.to, fstateTime), dist[m] < dist[n],
           Nearer(p, n), NoLoop(p),
           NEW q, NEW d, d.node = n, d.fstate = fstateTime,
           q.to = p.to, q.trail = Append(p.trail, d)
    PROVE  Nearer(q, m) /\ NoLoop(q)
<1>1. p.trail \in Seq(Decision) BY DEF Packet
<1>2. PICK l \in Nat : l = Len(p.trail) BY <1>1
<1>3. DOMAIN p.trail = 1..l /\ DOMAIN q.trail = 1..(l + 1)
      /\ (\A i \in 1..l : q.trail[i] = p.trail[i]) /\ q.trail[l + 1] = d
  BY <1>1, <1>2
<1>4. \A i \in 1..l : p.trail[i].node \in Node /\ p.trail[i].fstate \in Nat
  <2>1. \A i \in 1..l : p.trail[i] \in Decision BY <1>1, <1>2
  <2> QED BY <2>1 DEF Decision
<1>5. \A c \in Node : dist[c] \in Int BY DEF Distances
<1>6. \A i \in 1..l :
        /\ p.trail[i].fstate <= fstateTime
        /\ p.trail[i].fstate = fstateTime => dist[n] < dist[p.trail[i].node]
  BY <1>3 DEF Nearer
<1>7. \A i \in 1..(l + 1) : i \in 1..l \/ i = l + 1 OBVIOUS
<1>8. fstateTime \in Nat BY DEF TypeOK
<1>9. ASSUME NEW i \in 1..(l + 1)
      PROVE  /\ q.trail[i].fstate <= fstateTime
             /\ q.trail[i].fstate = fstateTime => dist[m] < dist[q.trail[i].node]
  <2>1. CASE i \in 1..l
    <3>1. dist[n] < dist[p.trail[i].node] => dist[m] < dist[p.trail[i].node]
      BY <1>4, <1>5, <2>1
    <3> QED BY <1>3, <1>6, <2>1, <3>1
  <2>2. CASE i = l + 1 BY <1>3, <1>8, <2>2
  <2> QED BY <1>7, <2>1, <2>2
<1>10. Nearer(q, m) BY <1>3, <1>9 DEF Nearer
<1>11. ASSUME NEW i \in 1..(l + 1), NEW j \in 1..(l + 1), i < j,
              q.trail[i].node = q.trail[j].node
       PROVE  q.trail[i].fstate < q.trail[j].fstate
  <2>1. i \in 1..l BY <1>7, <1>11
  <2>2. CASE j \in 1..l BY <1>3, <1>11, <2>1, <2>2 DEF NoLoop
  <2>3. CASE j = l + 1
    <3>1. p.trail[i].node = n BY <1>3, <1>11, <2>1, <2>3
    <3>2. ~(dist[n] < dist[p.trail[i].node]) BY <1>5, <3>1
    <3>3. p.trail[i].fstate <= fstateTime /\ p.trail[i].fstate # fstateTime
      BY <1>6, <2>1, <3>2
    <3>4. p.trail[i].fstate < fstateTime BY <1>4, <1>8, <2>1, <3>3
    <3> QED BY <1>3, <2>1, <2>3, <3>4
  <2> QED BY <1>7, <2>2, <2>3
<1>12. NoLoop(q) BY <1>3, <1>11 DEF NoLoop
<1> QED BY <1>10, <1>12

(* A lookup makes no loop. *)
LEMMA RouteMakesNoLoop ==
    ASSUME TypeOK, FilesInv, LoopInv, Premise, phase = "running",
           NEW n \in Node, NEW p \in Packet, n # p.to, Nearer(p, n), NoLoop(p),
           NEW t \in Nat, NEW pending, pending \subseteq arrivals,
           Route(n, p, t, pending)
    PROVE  /\ \A e \in arrivals' : Nearer(e.pkt, e.node)
           /\ \A q \in Packets' : NoLoop(q)
<1> DEFINE hop == nextHop[<<n, p.to>>]
           q == Decided(n, p, t, hop)
<1>1. ASSUME hop \notin NoHop PROVE Nearer(q, hop.next) /\ NoLoop(q)
  <2>1. <<n, p.to>> \in Pair /\ p.to \in GroundStation BY DEF Pair, Packet
  <2>2. hop \in Hop /\ hop.next \in Node BY <1>1, <2>1 DEF TypeOK, NoHop, Hop
  <2>3. fstateTime \in Nat /\ rateTime \in Nat BY DEF TypeOK
  <2> DEFINE d == [node |-> n, next |-> hop.next, ts |-> t,
                   fstate |-> fstateTime, rate |-> rateTime]
  <2>4. q.to = p.to /\ q.trail = Append(p.trail, d) BY <2>2, <2>3, DecidedType
  <2>5. d.node = n /\ d.fstate = fstateTime OBVIOUS
  <2>6. PICK dist : dist = DistanceTo(p.to, fstateTime) OBVIOUS
  <2>7. dist \in Distances /\ dist[hop.next] < dist[n]
    BY <1>1, <2>1, <2>6, HopShortens DEF Loaded
  <2> HIDE DEF d, q, hop
  <2> QED BY <2>2, <2>4, <2>5, <2>6, <2>7, HopIsNoLoop
<1>2. /\ \A a \in pending : a.pkt \in Packets /\ Nearer(a.pkt, a.node)
      /\ \A s \in settled : s[1] \in Packets
  BY DEF Packets, LoopInv
<1>3. \A x \in Packets : NoLoop(x) BY DEF LoopInv
<1>4. \A x \in Packets' : NoLoop(x)
  <2>1. \A x \in Packets' :
            \/ \E a \in pending : x = a.pkt
            \/ \E s \in settled : x = s[1]
            \/ x = p
            \/ hop \notin NoHop /\ x = q
    BY RoutePackets
  <2> HIDE DEF hop, q
  <2> QED BY <1>1, <1>2, <1>3, <2>1
<1>5. \A e \in arrivals' : e \in pending \/ (hop \notin NoHop /\ e.pkt = q /\ e.node = hop.next)
  <2>1. ASSUME hop \notin NoHop, NEW delay \in Delay,
               arrivals' = pending \cup
                   {[ts |-> t + delay, uid |-> uid, node |-> hop.next, pkt |-> q]}
        PROVE  \A e \in arrivals' :
                   e \in pending \/ (hop \notin NoHop /\ e.pkt = q /\ e.node = hop.next)
    <3> HIDE DEF hop, q
    <3> QED BY <2>1
  <2>2. arrivals' = pending \/ (hop \notin NoHop /\ \E delay \in Delay :
               arrivals' = pending \cup
                   {[ts |-> t + delay, uid |-> uid, node |-> hop.next, pkt |-> q]})
    BY Zenon DEF Route
  <2> HIDE DEF hop, q
  <2> QED BY <2>1, <2>2
<1> HIDE DEF hop, q
<1>6. \A e \in arrivals' : Nearer(e.pkt, e.node) BY <1>1, <1>2, <1>5
<1> QED BY <1>4, <1>6

LEMMA LoopPreserved ==
    TypeOK /\ OrderInv /\ FilesInv /\ LoopInv /\ [Next]_vars => LoopInv'
<1> SUFFICES ASSUME TypeOK, OrderInv, FilesInv, LoopInv, [Next]_vars, Premise'
             PROVE  /\ \A e \in arrivals' : (Nearer(e.pkt, e.node))'
                    /\ \A p \in Packets' : NoLoop(p)
  BY DEF LoopInv, NoLoop
<1>0. UNCHANGED config
  BY DEF Next, vars, ConstructArbiterHelper, ConstructBandwidthHelper, ScheduleFlow,
         StartSimulation, UpdateForwardingState, UpdateGslIfBandwidth, Send, Arrive, Stop
<1>p. Premise BY <1>0 DEF Premise, LoopFree, config
<1>i. /\ \A e \in arrivals : Nearer(e.pkt, e.node)
      /\ \A p \in Packets : NoLoop(p)
  BY <1>p DEF LoopInv
<1>s. ASSUME UNCHANGED fstateTime, NEW p, NEW n, Nearer(p, n) PROVE (Nearer(p, n))'
  BY <1>0, <1>s DEF Nearer, DistanceTo, Distances, Shortens, config
<1>1. ASSUME UNCHANGED <<arrivals, settled, fstateTime>>
      PROVE  /\ \A e \in arrivals' : (Nearer(e.pkt, e.node))'
             /\ \A p \in Packets' : NoLoop(p)
  BY <1>i, <1>s, <1>1 DEF Packets
<1>2. ASSUME UNCHANGED fstateTime,
             \A e \in arrivals' : Nearer(e.pkt, e.node), \A p \in Packets' : NoLoop(p)
      PROVE  /\ \A e \in arrivals' : (Nearer(e.pkt, e.node))'
             /\ \A p \in Packets' : NoLoop(p)
  BY <1>s, <1>2
<1>3. CASE ConstructArbiterHelper
  <2>1. arrivals' = {} /\ settled' = {}
    BY <1>3 DEF ConstructArbiterHelper, OrderInv, HelpersInv, Fail, traffic
  <2> QED BY <2>1 DEF Packets
<1>4. CASE ConstructBandwidthHelper
  BY <1>1, <1>4 DEF ConstructBandwidthHelper, LoadRates, Fail, traffic, installed
<1>5. ASSUME NEW f \in Flow, NEW t \in StartTimes, ScheduleFlow(f, t)
      PROVE  /\ \A e \in arrivals' : (Nearer(e.pkt, e.node))'
             /\ \A p \in Packets' : NoLoop(p)
  BY <1>1, <1>5 DEF ScheduleFlow, installed
<1>6. CASE StartSimulation BY <1>1, <1>6 DEF StartSimulation, traffic, installed
<1>7. ASSUME NEW e \in updates, UpdateForwardingState(e)
      PROVE  /\ \A a \in arrivals' : (Nearer(a.pkt, a.node))'
             /\ \A p \in Packets' : NoLoop(p)
  <2>1. CASE Fail BY <1>1, <2>1 DEF Fail, traffic, installed
  <2>2. CASE LoadFstate(e.ts, updates \ {e}) /\ UNCHANGED traffic
    <3>1. e.ts = fstateTime + interval
      BY <1>7, FstateFirst DEF UpdateForwardingState, Runs
    <3>2. fstateTime' = e.ts /\ UNCHANGED <<arrivals, settled>> BY <2>2 DEF LoadFstate, traffic
    <3>3. interval \in Nat \ {0} /\ fstateTime \in Nat BY TimeAssumption DEF TypeOK
    <3>4. \A p \in Packets' : NoLoop(p) BY <1>i, <3>2 DEF Packets
    <3>5. ASSUME NEW a \in arrivals' PROVE (Nearer(a.pkt, a.node))'
      <4>1. a \in arrivals /\ a.pkt.trail \in Seq(Decision) BY <3>2 DEF TypeOK, Arrival, Packet
      <4>2. \A i \in DOMAIN a.pkt.trail :
               a.pkt.trail[i].fstate \in Nat /\ a.pkt.trail[i].fstate <= fstateTime
        <5>1. \A i \in DOMAIN a.pkt.trail : a.pkt.trail[i] \in Decision BY <4>1
        <5>2. \A i \in DOMAIN a.pkt.trail : a.pkt.trail[i].fstate \in Nat
          BY <5>1 DEF Decision
        <5>3. Nearer(a.pkt, a.node) BY <1>i, <4>1
        <5> QED BY <5>2, <5>3 DEF Nearer
      <4>3. \A i \in DOMAIN a.pkt.trail :
               a.pkt.trail[i].fstate <= fstateTime' /\ a.pkt.trail[i].fstate # fstateTime'
        BY <3>1, <3>2, <3>3, <4>2
      <4> QED BY <4>3 DEF Nearer
    <3> QED BY <3>4, <3>5
  <2> QED BY <1>7, <2>1, <2>2 DEF UpdateForwardingState
<1>8. ASSUME NEW e \in updates, UpdateGslIfBandwidth(e)
      PROVE  /\ \A a \in arrivals' : (Nearer(a.pkt, a.node))'
             /\ \A p \in Packets' : NoLoop(p)
  BY <1>1, <1>8 DEF UpdateGslIfBandwidth, LoadRates, Fail, traffic, installed
<1>9. ASSUME NEW e \in sends, Send(e)
      PROVE  /\ \A a \in arrivals' : (Nearer(a.pkt, a.node))'
             /\ \A p \in Packets' : NoLoop(p)
  <2> DEFINE p == [id |-> sent, from |-> e.flow[1], to |-> e.flow[2],
                   ttl |-> InitialTtl, trail |-> <<>>]
  <2>1. phase = "running" /\ e.ts \in Nat /\ UNCHANGED fstateTime
    BY <1>9 DEF TypeOK, SendEvent, Send, Runs, installed
  <2>2. e.flow \in GroundStation \X GroundStation /\ e.flow[1] # e.flow[2]
    BY NetworkAssumption DEF TypeOK, SendEvent
  <2>3. p \in Packet /\ p.from \in Node /\ p.from # p.to
    BY <2>2, NetworkAssumption, TimeAssumption DEF TypeOK, Packet
  <2>4. Nearer(p, p.from) /\ NoLoop(p) BY DEF Nearer, NoLoop
  <2>5. Route(p.from, p, e.ts, arrivals) BY <1>9 DEF Send
  <2> HIDE DEF p
  <2>6. /\ \A a \in arrivals' : Nearer(a.pkt, a.node)
        /\ \A q \in Packets' : NoLoop(q)
    BY <1>p, <2>1, <2>3, <2>4, <2>5, RouteMakesNoLoop
  <2> QED BY <1>2, <2>1, <2>6
<1>10. ASSUME NEW e \in arrivals, Arrive(e)
       PROVE  /\ \A a \in arrivals' : (Nearer(a.pkt, a.node))'
              /\ \A p \in Packets' : NoLoop(p)
  <2>1. /\ phase = "running" /\ e.ts \in Nat /\ UNCHANGED fstateTime
        /\ e.pkt \in Packet /\ e.node \in Node
    BY <1>10 DEF TypeOK, Arrival, Arrive, Runs, installed
  <2>2. e.pkt \in Packets BY DEF Packets
  <2>3. Nearer(e.pkt, e.node) /\ NoLoop(e.pkt) BY <1>i, <2>2
  <2>4. CASE /\ settled' = settled \cup {<<e.pkt, "delivered">>}
             /\ arrivals' = arrivals \ {e}
    <3>1. Packets' \subseteq Packets /\ arrivals' \subseteq arrivals BY <2>4 DEF Packets
    <3> QED BY <1>i, <1>2, <2>1, <3>1
  <2>5. CASE /\ e.node # e.pkt.to
             /\ Route(e.node, [e.pkt EXCEPT !.ttl = @ - 1], e.ts, arrivals \ {e})
    <3> DEFINE p == [e.pkt EXCEPT !.ttl = @ - 1]
    <3>0. e.pkt.ttl # 0 BY DEF TypeOK
    <3>1. p \in Packet /\ p.to = e.pkt.to /\ p.trail = e.pkt.trail
      BY <2>1, <3>0, TimeAssumption DEF Packet
    <3>2. Route(e.node, p, e.ts, arrivals \ {e}) BY <2>5
    <3> HIDE DEF p
    <3>3. Nearer(p, e.node) /\ NoLoop(p) BY <2>3, <3>1 DEF Nearer, NoLoop
    <3>4. e.node # p.to BY <2>5, <3>1
    <3>5. /\ \A a \in arrivals' : Nearer(a.pkt, a.node)
          /\ \A q \in Packets' : NoLoop(q)
      BY <1>p, <2>1, <3>1, <3>2, <3>3, <3>4, RouteMakesNoLoop
    <3> QED BY <1>2, <2>1, <3>5
  <2> QED BY <1>10, <2>4, <2>5 DEF Arrive
<1>11. CASE Stop BY <1>1, <1>11 DEF Stop, traffic, installed
<1>12. CASE UNCHANGED vars BY <1>1, <1>12 DEF vars, traffic, installed
<1> QED BY <1>3, <1>4, <1>5, <1>6, <1>7, <1>8, <1>9, <1>10, <1>11, <1>12 DEF Next

(* If no generated state has a loop and every file is loaded, a packet     *)
(* that ArbiterSingleForward routes meets a node again only after an       *)
(* update of the forwarding state.                                         *)
THEOREM SFLoopsNeedAnUpdate == Spec => []LoopsNeedAnUpdate
<1>1. Init => LoopInv BY DEF Init, LoopInv, Packets
<1>2. IInv /\ LoopInv /\ [Next]_vars => LoopInv' BY LoopPreserved DEF IInv
<1>3. LoopInv => LoopsNeedAnUpdate BY DEF LoopInv, Premise, NoLoop, LoopsNeedAnUpdate
<1> QED BY <1>1, <1>2, <1>3, IInvAlways, PTL DEF Spec
=============================================================================
