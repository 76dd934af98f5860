------------------------ MODULE LaserNetDeviceProofs ------------------------
(***************************************************************************)
(* Proofs about LaserNetDevice and the utilization tracker, for every      *)
(* interval length, every set of transmission times and delays and every   *)
(* number of packets.                                                      *)
(***************************************************************************)
EXTENDS LaserNetDevice, FiniteSetTheorems, TLAPS

(***************************************************************************)
(* What the tracker keeps between two calls: the current interval contains *)
(* the time of the last call, and its counters add up to the part of the   *)
(* interval that had passed then.                                          *)
(***************************************************************************)
TrackerConsistent(tr) ==
    /\ tr \in Tracker
    /\ tr.end = tr.start + Interval
    /\ tr.start <= tr.prev /\ tr.prev < tr.end
    /\ tr.start + tr.idle + tr.busy = tr.prev

(* A division leaves a remainder smaller than the divisor. *)
LEMMA Division ==
    ASSUME NEW a \in Nat, NEW b \in Nat \ {0}
    PROVE  /\ a \div b \in Nat
           /\ (a \div b) * b <= a
           /\ a < (a \div b) * b + b
<1>1. a \div b \in Nat BY SMT
<1>2. (a \div b) * b <= a BY SMT
<1>3. a < (a \div b) * b + b BY SMT
<1> QED BY <1>1, <1>2, <1>3

(* One more round is one more interval. *)
LEMMA Multiples ==
    ASSUME NEW n \in Nat, NEW b \in Nat
    PROVE  n * b \in Nat /\ (n + 1) * b = n * b + b
BY SMT

(* The new tracker is consistent. *)
LEMMA NewTrackerConsistent == TrackerConsistent(NewTracker)
BY IntervalAssumption DEF TrackerConsistent, NewTracker, Tracker

(***************************************************************************)
(* The loop of TrackUtilization ends in the interval that contains the     *)
(* time of the call, and the last of its rounds in the past.               *)
(***************************************************************************)
LEMMA RoundsReach ==
    ASSUME NEW tr, TrackerConsistent(tr), NEW t \in Nat, tr.prev <= t,
           Rounds(tr, t) # 0
    PROVE  /\ Rounds(tr, t) \in Nat /\ Rounds(tr, t) - 1 \in Nat
           /\ tr.end + (Rounds(tr, t) - 1) * Interval <= t
           /\ t < tr.end + Rounds(tr, t) * Interval
<1>1. tr.end \in Nat BY DEF TrackerConsistent, Tracker
<1>2. ~(t < tr.end) BY DEF Rounds
<1> DEFINE k == (t - tr.end) \div Interval
<1>3. t - tr.end \in Nat BY <1>1, <1>2
<1>4. k \in Nat /\ k * Interval <= t - tr.end /\ t - tr.end < k * Interval + Interval
  BY <1>3, IntervalAssumption, Division
<1>5. Rounds(tr, t) = k + 1 BY <1>2 DEF Rounds
<1>6. k * Interval \in Nat /\ (k + 1) * Interval = k * Interval + Interval
  BY <1>4, IntervalAssumption, Multiples
<1> HIDE DEF k
<1>7. Rounds(tr, t) - 1 = k BY <1>4, <1>5
<1> QED BY <1>1, <1>2, <1>4, <1>5, <1>6, <1>7, IntervalAssumption

(* The busy times of the intervals that ended are times. *)
LEMMA EndedIntervalsType ==
    ASSUME NEW tr, TrackerConsistent(tr), NEW nextOn \in BOOLEAN, NEW n \in Nat
    PROVE  EndedIntervals(tr, nextOn, n) \in Seq(Nat)
<1>1. BusyUpTo(tr, nextOn, tr.end) \in Nat
  BY DEF TrackerConsistent, Tracker, BusyUpTo
<1>2. \A i \in 1..n : (IF i = 1 THEN BusyUpTo(tr, nextOn, tr.end)
                       ELSE IF nextOn THEN 0 ELSE Interval) \in Nat
  BY <1>1, IntervalAssumption
<1> QED BY <1>2 DEF EndedIntervals

(* At the end of an interval, idle and busy time add up to its length.     *)
LEMMA IntervalAccounted ==
    ASSUME NEW tr, TrackerConsistent(tr), NEW nextOn \in BOOLEAN
    PROVE  IdleUpTo(tr, nextOn, tr.end) + BusyUpTo(tr, nextOn, tr.end) = Interval
BY IntervalAssumption DEF TrackerConsistent, Tracker, IdleUpTo, BusyUpTo

(***************************************************************************)
(* A call of TrackUtilization, at any later time, leaves the tracker       *)
(* consistent and its check does not fail.                                 *)
(***************************************************************************)
LEMMA TrackingConsistent ==
    ASSUME NEW tr, TrackerConsistent(tr), NEW nextOn \in BOOLEAN,
           NEW t \in Nat, tr.prev <= t
    PROVE  /\ TrackerConsistent(TrackUtilization(tr, nextOn, t))
           /\ TrackUtilization(tr, nextOn, t).prev = t
           /\ ~TimeUnaccounted(tr, nextOn, t)
<1> DEFINE n == Rounds(tr, t)
           a == AfterIntervals(tr, nextOn, n)
<1>1. ~TimeUnaccounted(tr, nextOn, t)
  BY IntervalAccounted DEF TimeUnaccounted
<1>2. /\ a \in Tracker
      /\ a.end = a.start + Interval
      /\ a.start <= a.prev /\ a.prev <= t /\ t < a.end
      /\ a.start + a.idle + a.busy = a.prev
  <2>1. CASE n = 0
    <3>1. t < tr.end \/ n = (t - tr.end) \div Interval + 1 BY DEF Rounds
    <3>2. tr.end \in Nat BY DEF TrackerConsistent, Tracker
    <3>3. t < tr.end
      <4>1. ASSUME ~(t < tr.end) PROVE FALSE
        <5>1. t - tr.end \in Nat BY <3>2, <4>1
        <5>2. (t - tr.end) \div Interval \in Nat BY <5>1, IntervalAssumption, Division
        <5> QED BY <2>1, <3>1, <4>1, <5>2
      <4> QED BY <4>1
    <3>4. a = tr BY <2>1 DEF AfterIntervals
    <3> QED BY <3>3, <3>4 DEF TrackerConsistent
  <2>2. CASE n # 0
    <3> DEFINE ended == EndedIntervals(tr, nextOn, n)
    <3>1. /\ n \in Nat /\ n - 1 \in Nat
          /\ tr.end + (n - 1) * Interval <= t
          /\ t < tr.end + n * Interval
      BY <2>2, RoundsReach
    <3>2. ended \in Seq(Nat) BY <3>1, EndedIntervalsType
    <3>3. n * Interval \in Nat /\ (n - 1) * Interval \in Nat
          /\ n * Interval = (n - 1) * Interval + Interval
      <4>1. (n - 1) + 1 = n BY <3>1
      <4> QED BY ONLY <4>1, <3>1, IntervalAssumption, Multiples
    <3>4. a = [tr EXCEPT !.prev = tr.end + (n - 1) * Interval,
                         !.start = tr.start + n * Interval,
                         !.end = tr.end + n * Interval,
                         !.idle = 0,
                         !.busy = 0,
                         !.done = @ \o ended]
      BY <2>2 DEF AfterIntervals
    <3> HIDE DEF n, a, ended
    <3>5. tr \in Tracker /\ tr.end = tr.start + Interval BY DEF TrackerConsistent
    <3>6. /\ a.prev = tr.end + (n - 1) * Interval
          /\ a.start = tr.start + n * Interval
          /\ a.end = tr.end + n * Interval
          /\ a.idle = 0 /\ a.busy = 0
      BY <3>4, <3>5 DEF Tracker
    <3>7. a \in Tracker
      <4> DEFINE prev == tr.end + (n - 1) * Interval
                 start == tr.start + n * Interval
                 end == tr.end + n * Interval
                 done == tr.done \o ended
      <4>1. prev \in Nat /\ start \in Nat /\ end \in Nat
        BY <3>3, <3>5 DEF Tracker
      <4>2. done \in Seq(Nat) BY <3>2, <3>5 DEF Tracker
      <4>3. a = [tr EXCEPT !.prev = prev, !.start = start, !.end = end,
                           !.idle = 0, !.busy = 0, !.done = done]
        BY <3>4
      <4> HIDE DEF prev, start, end, done
      <4> QED BY <3>5, <4>1, <4>2, <4>3 DEF Tracker
    <3>8. tr.start \in Nat /\ tr.end \in Nat /\ Interval \in Nat \ {0}
      BY <3>5, IntervalAssumption DEF Tracker
    <3>9. a.end = a.start + Interval
      BY ONLY <3>3, <3>5, <3>6, <3>8
    <3>10. a.start <= a.prev /\ a.prev <= t /\ t < a.end
      BY ONLY <3>1, <3>3, <3>5, <3>6, <3>8
    <3>11. a.start + a.idle + a.busy = a.prev
      BY ONLY <3>3, <3>5, <3>6, <3>8
    <3> QED BY ONLY <3>7, <3>9, <3>10, <3>11
  <2> QED BY <2>1, <2>2
<1>3. TrackUtilization(tr, nextOn, t) =
          [a EXCEPT !.idle = IdleUpTo(a, nextOn, t),
                    !.busy = BusyUpTo(a, nextOn, t),
                    !.on = nextOn,
                    !.prev = t]
  BY DEF TrackUtilization
<1> HIDE DEF a
<1>4. /\ IdleUpTo(a, nextOn, t) \in Nat /\ BusyUpTo(a, nextOn, t) \in Nat
      /\ a.start + IdleUpTo(a, nextOn, t) + BusyUpTo(a, nextOn, t) = t
  <2>1. /\ a.start \in Nat /\ a.idle \in Nat /\ a.busy \in Nat /\ a.prev \in Nat
        /\ a.prev <= t /\ a.start + a.idle + a.busy = a.prev
    BY <1>2 DEF Tracker
  <2>2. CASE nextOn
    <3>1. IdleUpTo(a, nextOn, t) = a.idle + (t - a.prev) /\ BusyUpTo(a, nextOn, t) = a.busy
      BY ONLY <2>2 DEF IdleUpTo, BusyUpTo
    <3> QED BY ONLY <2>1, <3>1, t \in Nat
  <2>3. CASE ~nextOn
    <3>1. IdleUpTo(a, nextOn, t) = a.idle /\ BusyUpTo(a, nextOn, t) = a.busy + (t - a.prev)
      BY ONLY <2>3 DEF IdleUpTo, BusyUpTo
    <3> QED BY ONLY <2>1, <3>1, t \in Nat
  <2> QED BY ONLY <2>2, <2>3
<1> DEFINE u == TrackUtilization(tr, nextOn, t)
           idle == IdleUpTo(a, nextOn, t)
           busy == BusyUpTo(a, nextOn, t)
<1>5. u = [a EXCEPT !.idle = idle, !.busy = busy, !.on = nextOn, !.prev = t]
  BY <1>3
<1>6. idle \in Nat /\ busy \in Nat /\ a.start + idle + busy = t
  BY <1>4
<1> HIDE DEF u, idle, busy
<1>7. u \in Tracker BY <1>2, <1>5, <1>6 DEF Tracker
<1>8. /\ u.start = a.start /\ u.end = a.end /\ u.idle = idle /\ u.busy = busy
      /\ u.prev = t
  BY <1>2, <1>5 DEF Tracker
<1>9. a.start <= t BY <1>2 DEF Tracker
<1>10. TrackerConsistent(u)
  BY <1>2, <1>6, <1>7, <1>8, <1>9 DEF TrackerConsistent
<1> QED BY <1>1, <1>8, <1>10 DEF u

-----------------------------------------------------------------------------
(***************************************************************************)
(* The inductive invariant: a BUSY device has the one pending              *)
(* TransmitComplete event, and every tracker is consistent at a time in    *)
(* the past.                                                               *)
(***************************************************************************)
MachineInv ==
    /\ \A e \in completions : m_txMachineState[e.dev] = "BUSY"
    /\ \A e, f \in completions : e.dev = f.dev => e = f

TrackersInv ==
    \A d \in Device : TrackerConsistent(tracker[d]) /\ tracker[d].prev <= now

IInv == MachineTypeOK /\ MachineInv /\ TrackersInv /\ AllTimeAccounted

(* The link has another end. *)
LEMMA OtherEndExists ==
    ASSUME NEW d \in Device
    PROVE  OtherEnd(d) \in Device
<1>1. \E e \in Device : e # d
  <2>1. ASSUME \A e \in Device : e = d PROVE FALSE
    <3>1. Device = {d} BY <2>1
    <3>2. Cardinality({d}) = 1 BY FS_Singleton
    <3> QED BY <3>1, <3>2, LaserAssumption
  <2> QED BY <2>1
<1> QED BY <1>1 DEF OtherEnd

(* The initial state satisfies the invariant. *)
THEOREM AccountingInitially == Init => IInv
<1> SUFFICES ASSUME Init PROVE IInv OBVIOUS
<1>1. TrackerConsistent(NewTracker) BY NewTrackerConsistent
<1>2. NewTracker \in Tracker BY <1>1 DEF TrackerConsistent
<1>3. NewTracker.prev = 0 BY DEF NewTracker
<1>4. /\ endTime \in EndTimes
      /\ now = 0 /\ completions = {} /\ arrivals = {} /\ sent = 0
      /\ m_txMachineState = [d \in Device |-> "READY"]
      /\ m_queue = [d \in Device |-> <<>>]
      /\ tracker = [d \in Device |-> NewTracker]
      /\ aborted = FALSE /\ finalized = FALSE
  BY DEF Init
<1>5. <<>> \in Seq(TxTimes) OBVIOUS
<1>6. MachineTypeOK
  <2>1. m_queue \in [Device -> Seq(TxTimes)] BY <1>4, <1>5
  <2>2. tracker \in [Device -> Tracker] BY <1>2, <1>4
  <2>3. m_txMachineState \in [Device -> {"READY", "BUSY"}] BY <1>4
  <2>4. sent \in 0..MaxPackets BY <1>4, LaserAssumption
  <2>5. completions \subseteq [ts : Nat, dev : Device]
        /\ arrivals \subseteq [ts : Nat, dev : Device, start : Nat]
    BY <1>4
  <2> QED BY <1>4, <2>1, <2>2, <2>3, <2>4, <2>5 DEF MachineTypeOK
<1>7. TrackersInv BY <1>1, <1>3, <1>4 DEF TrackersInv
<1>8. MachineInv /\ AllTimeAccounted BY <1>4 DEF MachineInv, AllTimeAccounted
<1> QED BY <1>6, <1>7, <1>8 DEF IInv

(***************************************************************************)
(* TransmitStart, called with a consistent tracker when no other           *)
(* transmission of the device is under way.                                *)
(***************************************************************************)
LEMMA TransmitStartAccounts ==
    ASSUME IInv, NEW d \in Device, NEW tx \in TxTimes, NEW t \in Nat,
           NEW tr, TrackerConsistent(tr), tr.prev <= t,
           NEW pending \in SUBSET completions, \A c \in pending : c.dev # d,
           TransmitStart(d, tx, t, "READY", tr, pending, FALSE),
           now <= t, now' = t
    PROVE  /\ completions' \subseteq [ts : Nat, dev : Device]
           /\ arrivals' \subseteq [ts : Nat, dev : Device, start : Nat]
           /\ m_txMachineState' \in [Device -> {"READY", "BUSY"}]
           /\ tracker' \in [Device -> Tracker]
           /\ MachineInv' /\ TrackersInv' /\ aborted' = FALSE
<1> DEFINE up == TrackUtilization(tr, TRUE, t)
           done == [ts |-> t + tx, dev |-> d]
<1>1. PICK delay \in Delay :
        /\ m_txMachineState' = [m_txMachineState EXCEPT ![d] = "BUSY"]
        /\ tracker' = [tracker EXCEPT ![d] = up]
        /\ aborted' = (FALSE \/ "READY" # "READY" \/ TimeUnaccounted(tr, TRUE, t))
        /\ completions' = pending \cup {done}
        /\ arrivals' = arrivals \cup
               {[ts |-> t + tx + delay, dev |-> OtherEnd(d), start |-> t]}
  BY DEF TransmitStart
<1>2. tx \in Nat /\ delay \in Nat BY LaserAssumption
<1>3. TrackerConsistent(up) /\ up.prev = t /\ ~TimeUnaccounted(tr, TRUE, t)
  BY TrackingConsistent
<1> HIDE DEF up
<1>4. up \in Tracker BY <1>3 DEF TrackerConsistent
<1>5. done \in [ts : Nat, dev : Device] /\ done.dev = d BY <1>2
<1>6. [ts |-> t + tx + delay, dev |-> OtherEnd(d), start |-> t]
          \in [ts : Nat, dev : Device, start : Nat]
  BY <1>2, OtherEndExists
<1> HIDE DEF done
<1>7. /\ completions \subseteq [ts : Nat, dev : Device]
      /\ arrivals \subseteq [ts : Nat, dev : Device, start : Nat]
      /\ m_txMachineState \in [Device -> {"READY", "BUSY"}]
      /\ tracker \in [Device -> Tracker] /\ now \in Nat
      /\ MachineInv /\ TrackersInv
  BY DEF IInv, MachineTypeOK
<1>8. /\ completions' \subseteq [ts : Nat, dev : Device]
      /\ arrivals' \subseteq [ts : Nat, dev : Device, start : Nat]
  BY <1>1, <1>5, <1>6, <1>7
<1>9. /\ m_txMachineState' \in [Device -> {"READY", "BUSY"}]
      /\ tracker' \in [Device -> Tracker]
  BY <1>1, <1>4, <1>7
<1>10. MachineInv' BY <1>1, <1>5, <1>7 DEF MachineInv
<1>11. TrackersInv'
  <2> SUFFICES ASSUME NEW c \in Device
               PROVE  TrackerConsistent(tracker'[c]) /\ tracker'[c].prev <= t
    BY DEF TrackersInv
  <2>1. CASE c = d BY <1>1, <1>3, <1>7, <2>1
  <2>2. CASE c # d
    <3>1. tracker'[c] = tracker[c] BY <1>1, <1>7, <2>2
    <3>2. TrackerConsistent(tracker[c]) /\ tracker[c].prev <= now
      BY <1>7 DEF TrackersInv
    <3>3. tracker[c].prev \in Nat BY <1>7 DEF Tracker
    <3> QED BY <1>7, <3>1, <3>2, <3>3
  <2> QED BY <2>1, <2>2
<1>12. aborted' = FALSE BY <1>1, <1>3
<1> QED BY <1>8, <1>9, <1>10, <1>11, <1>12

(* Time passing alone keeps the trackers consistent. *)
LEMMA TimePasses ==
    ASSUME IInv, NEW t \in Nat, now <= t, now' = t, tracker' = tracker
    PROVE  TrackersInv'
<1> SUFFICES ASSUME NEW c \in Device
             PROVE  TrackerConsistent(tracker[c]) /\ tracker[c].prev <= t
  BY DEF TrackersInv
<1>1. TrackerConsistent(tracker[c]) /\ tracker[c].prev <= now /\ now \in Nat
      /\ tracker[c].prev \in Nat
  BY DEF IInv, TrackersInv, MachineTypeOK, Tracker
<1> QED BY <1>1

(* What sequences keep of their type. *)
LEMMA QueueFacts ==
    ASSUME NEW S, NEW s \in Seq(S), NEW x \in S
    PROVE  /\ Append(s, x) \in Seq(S)
           /\ Tail(Append(s, x)) \in Seq(S) /\ Head(Append(s, x)) \in S
           /\ s # <<>> => Head(s) \in S /\ Tail(s) \in Seq(S)
OBVIOUS

(* Every step keeps the invariant. *)
THEOREM AccountingPreserved == IInv /\ [Next]_vars => IInv'
<1> SUFFICES ASSUME IInv, [Next]_vars PROVE IInv' OBVIOUS
<1>0. /\ MachineTypeOK /\ MachineInv /\ TrackersInv /\ aborted = FALSE
      /\ EndTimes \subseteq Nat
  BY LaserAssumption DEF IInv, AllTimeAccounted, MachineTypeOK
<1>1. ASSUME NEW d \in Device, NEW tx \in TxTimes, NEW t \in 0..endTime, Send(d, tx, t)
      PROVE  IInv'
  <2>1. /\ now <= t /\ now' = t /\ endTime' = endTime
        /\ sent < MaxPackets /\ sent' = sent + 1 /\ finalized' = finalized
        /\ t \in Nat
    BY <1>0, <1>1 DEF Send, AdvanceTo, resultVars, MachineTypeOK
  <2>2. sent' \in 0..MaxPackets
    BY <1>0, <2>1, LaserAssumption DEF MachineTypeOK
  <2>3. CASE SendDrop(d)
    <3>1. UNCHANGED <<completions, arrivals, m_txMachineState, m_queue, tracker, aborted>>
      BY <2>3 DEF SendDrop
    <3>2. TrackersInv' BY <2>1, <3>1, TimePasses
    <3>3. MachineTypeOK' BY <1>0, <2>1, <2>2, <3>1 DEF MachineTypeOK
    <3>4. MachineInv' /\ AllTimeAccounted'
      BY <1>0, <3>1 DEF MachineInv, AllTimeAccounted
    <3> QED BY <3>2, <3>3, <3>4 DEF IInv
  <2>4. CASE SendEnqueue(d, tx)
    <3>1. /\ UNCHANGED <<completions, arrivals, m_txMachineState, tracker, aborted>>
          /\ m_queue' = [m_queue EXCEPT ![d] = Append(@, tx)]
      BY <2>4 DEF SendEnqueue
    <3>2. TrackersInv' BY <2>1, <3>1, TimePasses
    <3>3. m_queue' \in [Device -> Seq(TxTimes)]
      BY <1>0, <3>1, QueueFacts DEF MachineTypeOK
    <3>4. MachineTypeOK' BY <1>0, <2>1, <2>2, <3>1, <3>3 DEF MachineTypeOK
    <3>5. MachineInv' /\ AllTimeAccounted'
      BY <1>0, <3>1 DEF MachineInv, AllTimeAccounted
    <3> QED BY <3>2, <3>4, <3>5 DEF IInv
  <2>5. CASE SendNow(d, tx, t)
    <3> DEFINE q == Append(m_queue[d], tx)
    <3>1. /\ m_txMachineState[d] = "READY"
          /\ m_queue' = [m_queue EXCEPT ![d] = Tail(q)]
          /\ TransmitStart(d, Head(q), t, m_txMachineState[d], tracker[d],
                           completions, FALSE)
      BY <2>5 DEF SendNow
    <3>2. m_queue[d] \in Seq(TxTimes) BY <1>0 DEF MachineTypeOK
    <3>3. Tail(q) \in Seq(TxTimes) /\ Head(q) \in TxTimes BY <3>2, QueueFacts
    <3> HIDE DEF q
    <3>4. TransmitStart(d, Head(q), t, "READY", tracker[d], completions, FALSE)
      BY <3>1
    <3>5. \A c \in completions : c.dev # d BY <1>0, <3>1 DEF MachineInv
    <3>6. TrackerConsistent(tracker[d]) /\ tracker[d].prev <= t
      <4>1. TrackerConsistent(tracker[d]) /\ tracker[d].prev <= now
        BY <1>0 DEF TrackersInv
      <4>2. tracker[d].prev \in Nat /\ now \in Nat BY <1>0 DEF MachineTypeOK, Tracker
      <4> QED BY <2>1, <4>1, <4>2
    <3>7. /\ completions' \subseteq [ts : Nat, dev : Device]
          /\ arrivals' \subseteq [ts : Nat, dev : Device, start : Nat]
          /\ m_txMachineState' \in [Device -> {"READY", "BUSY"}]
          /\ tracker' \in [Device -> Tracker]
          /\ MachineInv' /\ TrackersInv' /\ aborted' = FALSE
      BY <2>1, <3>3, <3>4, <3>5, <3>6, TransmitStartAccounts
    <3>8. m_queue' \in [Device -> Seq(TxTimes)]
      BY <1>0, <3>1, <3>3 DEF MachineTypeOK
    <3>9. MachineTypeOK' BY <1>0, <2>1, <2>2, <3>7, <3>8 DEF MachineTypeOK
    <3> QED BY <3>7, <3>9 DEF IInv, AllTimeAccounted
  <2> QED BY <1>1, <2>3, <2>4, <2>5 DEF Send
<1>2. ASSUME NEW e \in completions, TransmitComplete(e) PROVE IInv'
  <2> DEFINE d == e.dev
             tr == TrackUtilization(tracker[d], FALSE, e.ts)
             failed == m_txMachineState[d] # "BUSY" \/ TimeUnaccounted(tracker[d], FALSE, e.ts)
  <2>1. /\ now <= e.ts /\ now' = e.ts /\ endTime' = endTime
        /\ sent' = sent /\ finalized' = finalized
        /\ TransmitCompleteIdle(e, tr, failed) \/ TransmitCompleteNext(e, tr, failed)
    BY <1>2 DEF TransmitComplete, AdvanceTo, resultVars
  <2>2. d \in Device /\ e.ts \in Nat BY <1>0 DEF MachineTypeOK
  <2>3. m_txMachineState[d] = "BUSY" /\ \A c \in completions \ {e} : c.dev # d
    BY <1>0 DEF MachineInv
  <2>4. TrackerConsistent(tracker[d]) /\ tracker[d].prev <= e.ts
    <3>1. TrackerConsistent(tracker[d]) /\ tracker[d].prev <= now
      BY <1>0, <2>2 DEF TrackersInv
    <3>2. tracker[d].prev \in Nat /\ now \in Nat BY <1>0, <2>2 DEF MachineTypeOK, Tracker
    <3> QED BY <2>1, <2>2, <3>1, <3>2
  <2>5. TrackerConsistent(tr) /\ tr.prev = e.ts /\ ~failed
    BY <2>2, <2>3, <2>4, TrackingConsistent
  <2> HIDE DEF d, tr, failed
  <2>6. tr \in Tracker BY <2>5 DEF TrackerConsistent
  <2>7. CASE TransmitCompleteIdle(e, tr, failed)
    <3>1. /\ m_txMachineState' = [m_txMachineState EXCEPT ![d] = "READY"]
          /\ tracker' = [tracker EXCEPT ![d] = tr]
          /\ aborted' = failed
          /\ completions' = completions \ {e}
          /\ UNCHANGED <<arrivals, m_queue>>
      BY <2>7 DEF TransmitCompleteIdle, d
    <3>2. aborted' = FALSE BY <2>5, <3>1 DEF failed
    <3>3. TrackersInv'
      <4> SUFFICES ASSUME NEW c \in Device
                   PROVE  TrackerConsistent(tracker'[c]) /\ tracker'[c].prev <= e.ts
        BY <2>1 DEF TrackersInv
      <4>1. tracker \in [Device -> Tracker] /\ now \in Nat BY <1>0 DEF MachineTypeOK
      <4>2. CASE c = d BY <2>2, <2>5, <3>1, <4>1, <4>2
      <4>3. CASE c # d
        <5>1. tracker'[c] = tracker[c] BY <3>1, <4>1, <4>3
        <5>2. TrackerConsistent(tracker[c]) /\ tracker[c].prev <= now
          BY <1>0 DEF TrackersInv
        <5>3. tracker[c].prev \in Nat BY <4>1 DEF Tracker
        <5> QED BY <2>1, <2>2, <4>1, <5>1, <5>2, <5>3
      <4> QED BY <4>2, <4>3
    <3>4. MachineInv'
      BY <1>0, <2>3, <3>1 DEF MachineInv, MachineTypeOK
    <3>5. /\ m_txMachineState' \in [Device -> {"READY", "BUSY"}]
          /\ tracker' \in [Device -> Tracker]
      BY <1>0, <2>6, <3>1 DEF MachineTypeOK
    <3>6. MachineTypeOK'
      BY <1>0, <2>1, <2>2, <3>1, <3>2, <3>5 DEF MachineTypeOK
    <3> QED BY <3>2, <3>3, <3>4, <3>6 DEF IInv, AllTimeAccounted
  <2>8. CASE TransmitCompleteNext(e, tr, failed)
    <3>1. /\ m_queue[d] # <<>>
          /\ m_queue' = [m_queue EXCEPT ![d] = Tail(@)]
          /\ TransmitStart(d, Head(m_queue[d]), e.ts, "READY", tr,
                           completions \ {e}, failed)
      BY <2>8 DEF TransmitCompleteNext, d
    <3>2. failed = FALSE BY <2>5 DEF failed
    <3>3. TransmitStart(d, Head(m_queue[d]), e.ts, "READY", tr, completions \ {e}, FALSE)
      BY <3>1, <3>2
    <3>4. m_queue[d] \in Seq(TxTimes) BY <1>0, <2>2 DEF MachineTypeOK
    <3>5. Head(m_queue[d]) \in TxTimes /\ Tail(m_queue[d]) \in Seq(TxTimes)
      BY <3>1, <3>4
    <3>6. tr.prev <= e.ts BY <2>2, <2>5
    <3>7. /\ completions' \subseteq [ts : Nat, dev : Device]
          /\ arrivals' \subseteq [ts : Nat, dev : Device, start : Nat]
          /\ m_txMachineState' \in [Device -> {"READY", "BUSY"}]
          /\ tracker' \in [Device -> Tracker]
          /\ MachineInv' /\ TrackersInv' /\ aborted' = FALSE
      BY <2>1, <2>2, <2>3, <2>5, <3>3, <3>5, <3>6, TransmitStartAccounts
    <3>8. m_queue' \in [Device -> Seq(TxTimes)]
      BY <1>0, <3>1, <3>5 DEF MachineTypeOK
    <3>9. MachineTypeOK' BY <1>0, <2>1, <2>2, <3>7, <3>8 DEF MachineTypeOK
    <3> QED BY <3>7, <3>9 DEF IInv, AllTimeAccounted
  <2> QED BY <2>1, <2>7, <2>8
<1>3. ASSUME NEW e \in arrivals, Receive(e) PROVE IInv'
  <2>1. /\ now <= e.ts /\ now' = e.ts /\ endTime' = endTime
        /\ arrivals' = arrivals \ {e}
        /\ UNCHANGED <<completions, m_txMachineState, m_queue, tracker, aborted,
                       finalized, sent>>
    BY <1>3 DEF Receive, AdvanceTo, resultVars
  <2>2. e.ts \in Nat BY <1>0 DEF MachineTypeOK
  <2>3. TrackersInv' BY <2>1, <2>2, TimePasses
  <2>4. MachineTypeOK' BY <1>0, <2>1, <2>2 DEF MachineTypeOK
  <2>5. MachineInv' /\ AllTimeAccounted'
    BY <1>0, <2>1 DEF MachineInv, AllTimeAccounted
  <2> QED BY <2>3, <2>4, <2>5 DEF IInv
<1>4. ASSUME CollectUtilizationStatistics PROVE IInv'
  <2>1. /\ now <= endTime /\ now' = endTime /\ endTime' = endTime
        /\ finalized' = TRUE
        /\ tracker' = [d \in Device |-> Finalized(tracker[d], endTime)]
        /\ aborted' = \E d \in Device :
               TimeUnaccounted(tracker[d], ~tracker[d].on, endTime)
        /\ UNCHANGED <<completions, arrivals, m_txMachineState, m_queue, sent>>
    BY <1>4 DEF CollectUtilizationStatistics, AdvanceTo
  <2>2. endTime \in Nat BY <1>0 DEF MachineTypeOK
  <2>3. ASSUME NEW d \in Device
        PROVE  /\ TrackerConsistent(Finalized(tracker[d], endTime))
               /\ Finalized(tracker[d], endTime).prev = endTime
               /\ ~TimeUnaccounted(tracker[d], ~tracker[d].on, endTime)
    <3>1. TrackerConsistent(tracker[d]) /\ tracker[d].prev <= now
      BY <1>0 DEF TrackersInv
    <3>2. tracker[d].prev \in Nat /\ now \in Nat
      BY <1>0 DEF MachineTypeOK, Tracker
    <3>3. tracker[d].prev <= endTime BY <2>1, <2>2, <3>1, <3>2
    <3>4. (~tracker[d].on) \in BOOLEAN OBVIOUS
    <3> QED BY <2>2, <3>1, <3>3, <3>4, TrackingConsistent DEF Finalized
  <2>4. \A d \in Device : Finalized(tracker[d], endTime) \in Tracker
    BY <2>3 DEF TrackerConsistent
  <2>5. TrackersInv' BY <2>1, <2>2, <2>3 DEF TrackersInv
  <2>6. aborted' = FALSE BY <2>1, <2>3
  <2>7. tracker' \in [Device -> Tracker] BY <2>1, <2>4
  <2>8. MachineTypeOK' BY <1>0, <2>1, <2>2, <2>6, <2>7 DEF MachineTypeOK
  <2>9. MachineInv' BY <1>0, <2>1 DEF MachineInv
  <2> QED BY <2>5, <2>6, <2>8, <2>9 DEF IInv, AllTimeAccounted
<1>5. CASE UNCHANGED vars
  BY <1>5 DEF IInv, MachineTypeOK, MachineInv, TrackersInv, AllTimeAccounted, vars
<1> QED BY <1>1, <1>2, <1>3, <1>4, <1>5 DEF Next

(***************************************************************************)
(* AllTimeAccounted, for every interval length and every traffic: the      *)
(* check of the tracker and the assertions of the device never fail.       *)
(***************************************************************************)
THEOREM LaserAllTimeAccounted == Spec => []AllTimeAccounted
<1>1. Init => IInv BY AccountingInitially
<1>2. IInv /\ [Next]_vars => IInv' BY AccountingPreserved
<1>3. IInv => AllTimeAccounted BY DEF IInv
<1> QED BY <1>1, <1>2, <1>3, PTL DEF Spec
-----------------------------------------------------------------------------
(***************************************************************************)
(* The time tracked is the time the transmitter was on.                    *)
(***************************************************************************)
(* The units of S from a to b - 1, and their number. *)
In(S, a, b) == {s \in S : a <= s /\ s < b}
Count(S, a, b) == Cardinality(In(S, a, b))

LEMMA CountFinite ==
    ASSUME NEW S \in SUBSET Nat, NEW a \in Nat, NEW b \in Nat
    PROVE  IsFiniteSet(In(S, a, b)) /\ Count(S, a, b) \in Nat
<1>1. In(S, a, b) \in SUBSET Nat /\ \A s \in In(S, a, b) : s <= b
  <2>1. \A s \in In(S, a, b) : s \in S /\ s \in Nat /\ s < b BY DEF In
  <2>2. \A s \in Nat : s < b => s <= b OBVIOUS
  <2> QED BY <2>1, <2>2
<1>2. IsFiniteSet(In(S, a, b)) BY <1>1, FS_BoundedSetOfNaturals
<1> QED BY <1>2, FS_CardinalityType DEF Count

LEMMA CountSplit ==
    ASSUME NEW S \in SUBSET Nat, NEW a \in Nat, NEW b \in Nat, NEW c \in Nat, a <= b, b <= c
    PROVE  Count(S, a, c) = Count(S, a, b) + Count(S, b, c)
<1>1. In(S, a, c) = In(S, a, b) \cup In(S, b, c) /\ In(S, a, b) \cap In(S, b, c) = {}
  <2>1. \A s \in S : /\ a <= s /\ s < c <=> (a <= s /\ s < b) \/ (b <= s /\ s < c)
                     /\ ~((a <= s /\ s < b) /\ (b <= s /\ s < c))
    <3>1. \A s \in Nat : /\ a <= s /\ s < c <=> (a <= s /\ s < b) \/ (b <= s /\ s < c)
                         /\ ~((a <= s /\ s < b) /\ (b <= s /\ s < c))
      OBVIOUS
    <3> QED BY <3>1
  <2> QED BY <2>1, Zenon DEF In
<1>2. IsFiniteSet(In(S, a, b)) /\ IsFiniteSet(In(S, b, c)) BY CountFinite
<1>3. Count(S, a, b) \in Nat /\ Count(S, b, c) \in Nat BY CountFinite
<1>4. Cardinality(In(S, a, b) \cup In(S, b, c))
      = Cardinality(In(S, a, b)) + Cardinality(In(S, b, c)) - Cardinality(In(S, a, b) \cap In(S, b, c))
  BY <1>2, FS_Union
<1>5. Cardinality(In(S, a, b) \cap In(S, b, c)) = 0 BY <1>1, FS_EmptySet
<1> QED BY <1>1, <1>3, <1>4, <1>5 DEF Count

(* All of a stretch, and nothing of it. *)
LEMMA CountAll ==
    ASSUME NEW S \in SUBSET Nat, NEW a \in Nat, NEW b \in Nat, a <= b,
           \A s \in Nat : a <= s /\ s < b => s \in S
    PROVE  Count(S, a, b) = b - a
<1>1. In(S, a, b) = a..(b - 1)
  <2>1. \A s : s \in a..(b - 1) <=> s \in Nat /\ a <= s /\ s < b OBVIOUS
  <2>2. \A s : s \in In(S, a, b) <=> s \in Nat /\ a <= s /\ s < b BY DEF In
  <2> QED BY <2>1, <2>2
<1>2. Cardinality(a..(b - 1)) = IF a > b - 1 THEN 0 ELSE (b - 1) - a + 1
  BY FS_Interval
<1> QED BY <1>1, <1>2 DEF Count

LEMMA CountNone ==
    ASSUME NEW S \in SUBSET Nat, NEW a \in Nat, NEW b \in Nat,
           \A s \in Nat : a <= s /\ s < b => s \notin S
    PROVE  Count(S, a, b) = 0
<1>1. In(S, a, b) = {} BY DEF In
<1> QED BY <1>1, FS_EmptySet DEF Count

(***************************************************************************)
(* What the tracker holds is the number of units of S in each interval;    *)
(* since its last call, S has all units if it is on, and none if not.      *)
(***************************************************************************)
Tracks(tr, S) ==
    /\ tr.start = Len(tr.done) * Interval
    /\ \A i \in 1..Len(tr.done) : tr.done[i] = Count(S, (i - 1) * Interval, i * Interval)
    /\ tr.busy = Count(S, tr.start, tr.prev)

Since(tr, S, t) ==
    \A s \in Nat : tr.prev <= s /\ s < t => (s \in S <=> tr.on)

(* Sums of multiples, and what a sequence appended to another gives. *)
LEMMA MultiplesAdd ==
    ASSUME NEW x \in Nat, NEW y \in Nat, NEW z \in Nat
    PROVE  (x + y) * z = x * z + y * z /\ x * z \in Nat /\ y * z \in Nat
OBVIOUS

LEMMA ConcatFacts ==
    ASSUME NEW s \in Seq(Nat), NEW t \in Seq(Nat)
    PROVE  /\ Len(s \o t) = Len(s) + Len(t)
           /\ \A i \in 1..Len(s) : (s \o t)[i] = s[i]
           /\ \A i \in 1..Len(t) : (s \o t)[Len(s) + i] = t[i]
OBVIOUS

(* Between the last call and t, the count is all or nothing. *)
LEMMA CountSince ==
    ASSUME NEW tr, NEW S \in SUBSET Nat, NEW t \in Nat, tr.prev \in Nat, Since(tr, S, t),
           NEW a \in Nat, NEW b \in Nat, tr.prev <= a, a <= b, b <= t
    PROVE  Count(S, a, b) = IF tr.on THEN b - a ELSE 0
<1>1. \A s \in Nat : a <= s /\ s < b => tr.prev <= s /\ s < t OBVIOUS
<1>2. CASE tr.on
  <2>1. \A s \in Nat : a <= s /\ s < b => s \in S BY <1>1, <1>2 DEF Since
  <2> QED BY <1>2, <2>1, CountAll
<1>3. CASE ~tr.on
  <2>1. \A s \in Nat : a <= s /\ s < b => s \notin S BY <1>1, <1>3 DEF Since
  <2> QED BY <1>3, <2>1, CountNone
<1> QED BY <1>2, <1>3

(* Crediting the time since the last call. *)
LEMMA BusyUpToIsCount ==
    ASSUME NEW tr, TrackerConsistent(tr), NEW S \in SUBSET Nat, Tracks(tr, S),
           NEW t \in Nat, Since(tr, S, t), NEW u \in Nat, tr.prev <= u, u <= t
    PROVE  BusyUpTo(tr, ~tr.on, u) = Count(S, tr.start, u)
<1>1. tr.start \in Nat /\ tr.prev \in Nat /\ tr.start <= tr.prev /\ tr.on \in BOOLEAN /\ tr.busy \in Nat
  BY DEF TrackerConsistent, Tracker
<1>2. Count(S, tr.start, u) = Count(S, tr.start, tr.prev) + Count(S, tr.prev, u)
  BY <1>1, CountSplit
<1>3. Count(S, tr.prev, u) = IF tr.on THEN u - tr.prev ELSE 0 BY <1>1, CountSince
<1>4. tr.busy = Count(S, tr.start, tr.prev) BY DEF Tracks
<1>5. CASE tr.on
  <2>1. BusyUpTo(tr, ~tr.on, u) = tr.busy + (u - tr.prev) BY <1>5 DEF BusyUpTo
  <2> QED BY <1>2, <1>3, <1>4, <1>5, <2>1
<1>6. CASE ~tr.on
  <2>1. BusyUpTo(tr, ~tr.on, u) = tr.busy BY <1>6 DEF BusyUpTo
  <2>2. Count(S, tr.start, u) = tr.busy + 0 BY <1>2, <1>3, <1>4, <1>6
  <2> QED BY <1>1, <2>1, <2>2
<1> QED BY <1>5, <1>6

(***************************************************************************)
(* A call that reports the end of the state the tracker is in keeps it     *)
(* true, however many intervals ended since the last call.                 *)
(***************************************************************************)
LEMMA TrackingTrue ==
    ASSUME NEW tr, TrackerConsistent(tr), NEW S \in SUBSET Nat, Tracks(tr, S),
           NEW t \in Nat, tr.prev <= t, Since(tr, S, t)
    PROVE  /\ Tracks(TrackUtilization(tr, ~tr.on, t), S)
           /\ TrackUtilization(tr, ~tr.on, t).on = ~tr.on
<1> DEFINE n == Rounds(tr, t)
           a == AfterIntervals(tr, ~tr.on, n)
           u == TrackUtilization(tr, ~tr.on, t)
<1>1. /\ tr \in Tracker /\ tr.start \in Nat /\ tr.end \in Nat /\ tr.prev \in Nat
      /\ tr.on \in BOOLEAN /\ tr.done \in Seq(Nat) /\ Len(tr.done) \in Nat
      /\ tr.end = tr.start + Interval /\ tr.start <= tr.prev /\ tr.prev < tr.end
      /\ Interval \in Nat \ {0} /\ tr.busy \in Nat
  BY IntervalAssumption DEF TrackerConsistent, Tracker
<1>2. CASE n = 0
  <2>1. a = tr BY <1>2 DEF AfterIntervals
  <2>2. u = [tr EXCEPT !.idle = IdleUpTo(tr, ~tr.on, t), !.busy = BusyUpTo(tr, ~tr.on, t),
                       !.on = ~tr.on, !.prev = t]
    BY <2>1 DEF TrackUtilization
  <2>3. u.start = tr.start /\ u.done = tr.done /\ u.prev = t /\ u.on = ~tr.on
        /\ u.busy = BusyUpTo(tr, ~tr.on, t)
    <3> HIDE DEF u
    <3> DEFINE i == IdleUpTo(tr, ~tr.on, t)
               b == BusyUpTo(tr, ~tr.on, t)
    <3>1. u = [tr EXCEPT !.idle = i, !.busy = b, !.on = ~tr.on, !.prev = t] BY <2>2
    <3> HIDE DEF i, b
    <3>2. u.busy = b /\ u.start = tr.start /\ u.done = tr.done /\ u.prev = t /\ u.on = ~tr.on
      BY <1>1, <3>1 DEF Tracker
    <3> QED BY <3>2 DEF b
  <2>4. u.busy = Count(S, tr.start, t)
    <3>1. t <= t OBVIOUS
    <3>2. BusyUpTo(tr, ~tr.on, t) = Count(S, tr.start, t) BY <3>1, BusyUpToIsCount
    <3> QED BY <2>3, <3>2
  <2> HIDE DEF u
  <2> QED BY <2>3, <2>4 DEF Tracks, u
<1>3. CASE n # 0
  <2> DEFINE ended == EndedIntervals(tr, ~tr.on, n)
             L == Len(tr.done)
  <2>1. /\ n \in Nat /\ n - 1 \in Nat /\ n >= 1
        /\ tr.end + (n - 1) * Interval <= t /\ t < tr.end + n * Interval
    <3>1. /\ n \in Nat /\ n - 1 \in Nat
          /\ tr.end + (n - 1) * Interval <= t /\ t < tr.end + n * Interval
      BY <1>3, RoundsReach
    <3> QED BY <1>3, <3>1
  <2>2. a = [tr EXCEPT !.prev = tr.end + (n - 1) * Interval,
                       !.start = tr.start + n * Interval,
                       !.end = tr.end + n * Interval,
                       !.idle = 0, !.busy = 0, !.done = @ \o ended]
    BY <1>3 DEF AfterIntervals
  <2>3. ended = [i \in 1..n |-> IF i = 1 THEN BusyUpTo(tr, ~tr.on, tr.end)
                                ELSE IF ~tr.on THEN 0 ELSE Interval]
    BY DEF EndedIntervals
  <2>4. ended \in Seq(Nat)
    <3>1. (~tr.on) \in BOOLEAN OBVIOUS
    <3> QED BY <2>1, <3>1, EndedIntervalsType
  <2>5. u = [a EXCEPT !.idle = IdleUpTo(a, ~tr.on, t), !.busy = BusyUpTo(a, ~tr.on, t),
                      !.on = ~tr.on, !.prev = t]
    BY DEF TrackUtilization
  <2> HIDE DEF n, a, ended
  <2>6. /\ a.prev = tr.end + (n - 1) * Interval /\ a.start = tr.start + n * Interval
        /\ a.busy = 0 /\ a.done = tr.done \o ended
        /\ DOMAIN a = {"prev", "start", "end", "idle", "busy", "on", "done"}
    BY <1>1, <2>2 DEF Tracker
  <2>7. u.start = a.start /\ u.done = a.done /\ u.prev = t /\ u.on = ~tr.on
        /\ u.busy = BusyUpTo(a, ~tr.on, t)
    <3> HIDE DEF u
    <3> DEFINE i == IdleUpTo(a, ~tr.on, t)
               b == BusyUpTo(a, ~tr.on, t)
    <3>1. u = [a EXCEPT !.idle = i, !.busy = b, !.on = ~tr.on, !.prev = t] BY <2>5
    <3> HIDE DEF i, b
    <3>2. u.busy = b /\ u.start = a.start /\ u.done = a.done /\ u.prev = t /\ u.on = ~tr.on
      BY <2>6, <3>1
    <3> QED BY <3>2 DEF b
  <2>8. /\ Len(ended) = n /\ Len(a.done) = L + n
        /\ \A i \in 1..L : a.done[i] = tr.done[i]
        /\ \A i \in 1..n : a.done[L + i] = ended[i]
    <3>1. Len(ended) = n BY <2>1, <2>3
    <3>2. tr.done \in Seq(Nat) /\ ended \in Seq(Nat) BY <1>1, <2>4
    <3> DEFINE d == tr.done
               f == a.done
    <3>3. f = d \o ended /\ d \in Seq(Nat) /\ L = Len(d) BY <2>6, <3>2
    <3> HIDE DEF d, f, L
    <3>4. /\ Len(d \o ended) = Len(d) + Len(ended)
          /\ \A i \in 1..Len(d) : (d \o ended)[i] = d[i]
          /\ \A i \in 1..Len(ended) : (d \o ended)[Len(d) + i] = ended[i]
      BY ONLY <3>2, <3>3, ConcatFacts
    <3>5. Len(f) = L + n /\ (\A i \in 1..L : f[i] = d[i]) /\ \A i \in 1..n : f[L + i] = ended[i]
      BY <3>1, <3>3, <3>4
    <3> QED BY <3>1, <3>5 DEF d, f
  <2>9. tr.start = L * Interval /\ tr.end = (L + 1) * Interval
        /\ a.start = (L + n) * Interval /\ a.prev = (L + n) * Interval
    <3>1. tr.start = L * Interval BY DEF Tracks
    <3>2. L \in Nat /\ (L + 1) * Interval = L * Interval + Interval BY <1>1, Multiples
    <3>3. (L + n) * Interval = L * Interval + n * Interval
          /\ n * Interval = (n - 1) * Interval + Interval
          /\ n * Interval \in Nat /\ (n - 1) * Interval \in Nat /\ L * Interval \in Nat
      <4> HIDE DEF L
      <4>1. L \in Nat /\ Interval \in Nat /\ n - 1 \in Nat /\ (n - 1) + 1 = n
            /\ 1 \in Nat /\ 1 * Interval = Interval
        BY <1>1, <2>1 DEF L
      <4>2. (L + n) * Interval = L * Interval + n * Interval /\ L * Interval \in Nat
            /\ n * Interval \in Nat
        BY ONLY <2>1, <4>1, MultiplesAdd
      <4>3. ((n - 1) + 1) * Interval = (n - 1) * Interval + 1 * Interval
            /\ (n - 1) * Interval \in Nat
        BY ONLY <2>1, <4>1, MultiplesAdd
      <4> QED BY <4>1, <4>2, <4>3
    <3> HIDE DEF L
    <3>4. tr.end = L * Interval + Interval BY <1>1, <3>1
    <3>5. a.start = L * Interval + n * Interval /\ a.prev = L * Interval + n * Interval
      BY ONLY <1>1, <2>6, <3>1, <3>3, <3>4
    <3> QED BY <3>1, <3>2, <3>3, <3>4, <3>5
  <2>10. \A i \in 1..(L + n) : a.done[i] = Count(S, (i - 1) * Interval, i * Interval)
    <3> SUFFICES ASSUME NEW i \in 1..(L + n)
                 PROVE  a.done[i] = Count(S, (i - 1) * Interval, i * Interval)
      OBVIOUS
    <3>0. L \in Nat /\ i \in Nat /\ i >= 1 /\ i <= L + n BY <1>1, <2>1
    <3>1. CASE i <= L BY <2>8, <3>0, <3>1 DEF Tracks
    <3>2. CASE i = L + 1
      <4>1. a.done[i] = BusyUpTo(tr, ~tr.on, tr.end) BY <2>1, <2>3, <2>8, <3>2
      <4>2. tr.end <= t
        <5>1. (n - 1) * Interval \in Nat BY <1>1, <2>1, Multiples
        <5> QED BY <1>1, <2>1, <5>1
      <4>3. BusyUpTo(tr, ~tr.on, tr.end) = Count(S, tr.start, tr.end)
        BY <1>1, <4>2, BusyUpToIsCount
      <4>4. i - 1 = L BY <3>0, <3>2
      <4> QED BY <2>9, <3>2, <4>1, <4>3, <4>4
    <3>3. CASE i > L + 1
      <4>1. PICK j \in Nat : i = L + j /\ j >= 2 /\ j <= n
        <5>1. i - L \in Nat /\ i = L + (i - L) /\ i - L >= 2 /\ i - L <= n BY <3>0, <2>1, <3>3
        <5> QED BY <5>1
      <4>2. a.done[i] = IF ~tr.on THEN 0 ELSE Interval
        <5>1. j \in 1..n /\ j # 1 BY <2>1, <4>1
        <5>2. a.done[L + j] = ended[j] BY <2>8, <5>1
        <5> QED BY <2>3, <4>1, <5>1, <5>2
      <4>3. /\ (i - 1) * Interval \in Nat /\ i * Interval = (i - 1) * Interval + Interval
            /\ (L + 1) * Interval <= (i - 1) * Interval /\ i * Interval <= (L + n) * Interval
        <5>1. PICK k \in Nat : i - 1 = k /\ i = k + 1 /\ L + 1 <= k BY <3>0, <3>3
        <5>2. \A x, y \in Nat : x <= y => x * Interval <= y * Interval
          <6>1. SUFFICES ASSUME NEW x \in Nat, NEW y \in Nat, x <= y
                         PROVE  x * Interval <= y * Interval
            OBVIOUS
          <6>2. PICK e \in Nat : y = x + e
            <7>1. y - x \in Nat /\ y = x + (y - x) BY <6>1
            <7> QED BY <7>1
          <6>3. y * Interval = x * Interval + e * Interval BY <1>1, <6>2
          <6>4. x * Interval \in Nat /\ e * Interval \in Nat BY <1>1, Multiples
          <6> QED BY <6>3, <6>4
        <5>3. k * Interval \in Nat /\ (k + 1) * Interval = k * Interval + Interval
          BY <1>1, Multiples
        <5>4. (L + 1) * Interval <= k * Interval
          <6>1. L + 1 \in Nat BY <3>0
          <6> QED BY <5>1, <5>2, <6>1
        <5>5. (k + 1) * Interval <= (L + n) * Interval
          <6>1. k + 1 \in Nat /\ L + n \in Nat /\ k + 1 <= L + n BY <2>1, <3>0, <5>1
          <6> QED BY <5>2, <6>1
        <5> QED BY <5>1, <5>3, <5>4, <5>5
      <4>4. (L + n) * Interval <= t BY <2>1, <2>6, <2>9
      <4> DEFINE lo == (i - 1) * Interval
                 hi == i * Interval
                 last == (L + n) * Interval
      <4>5. last \in Nat BY <1>1, <2>1, Multiples
      <4>6. lo \in Nat /\ hi = lo + Interval /\ tr.end <= lo /\ hi <= last /\ last <= t
        BY <2>9, <4>3, <4>4
      <4> HIDE DEF lo, hi, last
      <4>7. hi \in Nat /\ tr.prev <= lo /\ lo <= hi /\ hi <= t /\ hi - lo = Interval
        BY <1>1, <4>5, <4>6
      <4>8. Count(S, lo, hi) = IF tr.on THEN hi - lo ELSE 0
        BY <1>1, <4>6, <4>7, CountSince
      <4>9. a.done[i] = Count(S, lo, hi) BY <1>1, <4>2, <4>7, <4>8
      <4> QED BY <4>9 DEF lo, hi
    <3> QED BY <3>0, <3>1, <3>2, <3>3
  <2>11. u.busy = Count(S, a.start, t)
    <3>1. a.prev \in Nat /\ a.prev <= t /\ a.start = a.prev /\ tr.prev <= a.prev
      <4>1. (n - 1) * Interval \in Nat BY <1>1, <2>1, Multiples
      <4>2. a.prev = tr.end + (n - 1) * Interval /\ a.start = a.prev BY <2>6, <2>9
      <4> DEFINE more == (n - 1) * Interval
      <4>3. more \in Nat /\ a.prev = tr.end + more /\ tr.end + more <= t BY <2>1, <4>1, <4>2
      <4>4. tr.end \in Nat /\ tr.prev \in Nat /\ tr.prev < tr.end BY <1>1
      <4> HIDE DEF more
      <4>5. a.prev \in Nat /\ a.prev <= t /\ tr.prev <= a.prev BY ONLY <4>3, <4>4
      <4> QED BY <4>2, <4>5
    <3>2. Count(S, a.prev, t) = IF tr.on THEN t - a.prev ELSE 0
      BY <1>1, <3>1, CountSince
    <3>3. BusyUpTo(a, ~tr.on, t) = IF tr.on THEN 0 + (t - a.prev) ELSE 0
      BY <2>6 DEF BusyUpTo
    <3> QED BY <2>7, <3>1, <3>2, <3>3
  <2> HIDE DEF u
  <2>12. Tracks(u, S)
    <3>1. u.start = Len(u.done) * Interval BY <2>7, <2>8, <2>9
    <3>2. \A i \in 1..Len(u.done) : u.done[i] = Count(S, (i - 1) * Interval, i * Interval)
      BY <2>7, <2>8, <2>10
    <3>3. u.busy = Count(S, u.start, u.prev) BY <2>7, <2>11
    <3> QED BY <3>1, <3>2, <3>3 DEF Tracks
  <2> QED BY <2>7, <2>12 DEF u
<1> QED BY <1>2, <1>3

(***************************************************************************)
(* The second invariant: each tracker tells of the units its device was    *)
(* BUSY in, and until the results are collected it is in the device's      *)
(* state.                                                                  *)
(***************************************************************************)
SlotsInv ==
    \A d \in Device :
        /\ busySlots[d] \subseteq Nat /\ \A s \in busySlots[d] : s < now
        /\ Tracks(tracker[d], busySlots[d])
        /\ finalized \/ /\ Since(tracker[d], busySlots[d], now)
                        /\ tracker[d].on = (m_txMachineState[d] = "BUSY")

(* Whatever the tracker told stays true when time passes. *)
LEMMA TracksStays ==
    ASSUME NEW tr, TrackerConsistent(tr), NEW S, NEW T, S \subseteq T, T \subseteq Nat,
           NEW t \in Nat, tr.prev <= t, \A s \in T \ S : t <= s, Tracks(tr, S)
    PROVE  Tracks(tr, T)
<1>1. /\ tr.start \in Nat /\ tr.prev \in Nat /\ Len(tr.done) \in Nat
      /\ tr.start <= tr.prev /\ Interval \in Nat
  BY IntervalAssumption DEF TrackerConsistent, Tracker
<1>0. ASSUME NEW a \in Nat, NEW b \in Nat, b <= t
      PROVE  Count(T, a, b) = Count(S, a, b)
  <2>1. \A s \in T : s < b => s \in S
    <3>1. \A s \in Nat : s < b => ~(t <= s) BY <1>0
    <3> QED BY <3>1
  <2>2. In(T, a, b) = In(S, a, b) BY <2>1 DEF In
  <2> QED BY <2>2 DEF Count
<1>2. tr.busy = Count(T, tr.start, tr.prev)
  <2>1. Count(T, tr.start, tr.prev) = Count(S, tr.start, tr.prev) BY <1>0, <1>1
  <2> QED BY <2>1 DEF Tracks
<1>3. ASSUME NEW i \in 1..Len(tr.done)
      PROVE  tr.done[i] = Count(T, (i - 1) * Interval, i * Interval)
  <2>1. PICK k \in Nat, m \in Nat : i - 1 = k /\ i = k + 1 /\ Len(tr.done) = i + m
    <3>1. i - 1 \in Nat /\ Len(tr.done) - i \in Nat /\ i = (i - 1) + 1
          /\ Len(tr.done) = i + (Len(tr.done) - i)
      BY <1>1
    <3> QED BY <3>1
  <2>2. k + 1 \in Nat OBVIOUS
  <2>3. (k + 1 + m) * Interval = (k + 1) * Interval + m * Interval
        /\ (k + 1) * Interval \in Nat /\ m * Interval \in Nat /\ k * Interval \in Nat
    BY <1>1, <2>2, MultiplesAdd
  <2>4. tr.start = (k + 1 + m) * Interval BY <2>1 DEF Tracks
  <2>5. (k + 1) * Interval <= t
    <3> DEFINE x == (k + 1) * Interval
               y == m * Interval
    <3>1. x \in Nat /\ y \in Nat /\ tr.start = x + y BY <2>3, <2>4
    <3> HIDE DEF x, y
    <3>2. x <= t BY <1>1, <3>1
    <3> QED BY <3>2 DEF x
  <2>6. Count(T, k * Interval, (k + 1) * Interval) = Count(S, k * Interval, (k + 1) * Interval)
    BY <1>0, <2>3, <2>5
  <2>7. tr.done[i] = Count(S, (i - 1) * Interval, i * Interval) BY DEF Tracks
  <2> QED BY <2>1, <2>6, <2>7
<1> QED BY <1>2, <1>3 DEF Tracks

LEMMA SlotsLater ==
    ASSUME IInv, SlotsInv, ~finalized, NEW t \in Nat, AdvanceTo(t), NEW d \in Device
    PROVE  /\ busySlots'[d] \subseteq Nat /\ \A s \in busySlots'[d] : s < t
           /\ Tracks(tracker[d], busySlots'[d])
           /\ Since(tracker[d], busySlots'[d], t)
           /\ tracker[d].on = (m_txMachineState[d] = "BUSY")
<1> DEFINE S == busySlots[d]
<1>1. /\ now \in Nat /\ now <= t /\ TrackerConsistent(tracker[d]) /\ tracker[d].prev <= now
      /\ tracker[d].prev \in Nat
  BY DEF IInv, MachineTypeOK, TrackersInv, AdvanceTo, Tracker
<1>2. /\ S \subseteq Nat /\ (\A s \in S : s < now) /\ Tracks(tracker[d], S)
      /\ Since(tracker[d], S, now) /\ tracker[d].on = (m_txMachineState[d] = "BUSY")
  BY DEF SlotsInv
<1>3. PICK T : T = busySlots'[d] OBVIOUS
<1>4. T = IF m_txMachineState[d] = "BUSY" THEN S \cup {s \in now..t : s < t} ELSE S
  BY <1>3 DEF AdvanceTo
<1> HIDE DEF S
<1>5. \A s \in Nat : /\ s \in {x \in now..t : x < t} <=> now <= s /\ s < t
                     /\ s < now => s < t
  BY <1>1
<1>6. {x \in now..t : x < t} \subseteq Nat BY <1>1
<1>7. /\ T \subseteq Nat /\ S \subseteq T /\ (\A s \in T \ S : now <= s)
      /\ \A s \in T : s < t
  <2>1. T \subseteq Nat /\ S \subseteq T BY <1>2, <1>4, <1>6
  <2>2. \A s \in T : s \in S \/ s \in {x \in now..t : x < t} BY <1>4
  <2> QED BY <1>2, <1>5, <2>1, <2>2
<1>8. Tracks(tracker[d], T) BY <1>1, <1>2, <1>7, TracksStays
<1>9. Since(tracker[d], T, t)
  <2> SUFFICES ASSUME NEW s \in Nat, tracker[d].prev <= s, s < t
               PROVE  s \in T <=> tracker[d].on
    BY DEF Since
  <2>1. CASE s < now
    <3>1. s \in S <=> tracker[d].on BY <1>2, <2>1 DEF Since
    <3>2. ~(now <= s) BY <1>1, <2>1
    <3>3. s \in T <=> s \in S BY <1>7, <3>2
    <3> QED BY <3>1, <3>3
  <2>2. CASE ~(s < now)
    <3>1. now <= s BY <1>1, <2>2
    <3>2. s \in {x \in now..t : x < t} BY <1>5, <3>1
    <3>3. s \notin S BY <1>2, <2>2
    <3> QED BY <1>2, <1>4, <3>2, <3>3
  <2> QED BY <2>1, <2>2
<1> QED BY <1>2, <1>3, <1>7, <1>8, <1>9

(* A step in which one device's state, and its tracker's, change. *)
LEMMA TrackedStep ==
    ASSUME IInv, SlotsInv, ~finalized, NEW t \in Nat, AdvanceTo(t),
           NEW d \in Device, NEW tr, NEW x,
           tracker' = [tracker EXCEPT ![d] = tr],
           m_txMachineState' = [m_txMachineState EXCEPT ![d] = x],
           Tracks(tr, busySlots'[d]), Since(tr, busySlots'[d], t), tr.on = (x = "BUSY")
    PROVE  SlotsInv'
<1>1. now' = t /\ tracker \in [Device -> Tracker]
      /\ m_txMachineState \in [Device -> {"READY", "BUSY"}]
  BY DEF IInv, MachineTypeOK, AdvanceTo
<1>2. ASSUME NEW c \in Device
      PROVE  /\ busySlots'[c] \subseteq Nat /\ \A s \in busySlots'[c] : s < t
             /\ Tracks(tracker'[c], busySlots'[c])
             /\ Since(tracker'[c], busySlots'[c], t)
             /\ tracker'[c].on = (m_txMachineState'[c] = "BUSY")
  <2>1. /\ busySlots'[c] \subseteq Nat /\ \A s \in busySlots'[c] : s < t
        /\ Tracks(tracker[c], busySlots'[c])
        /\ Since(tracker[c], busySlots'[c], t)
        /\ tracker[c].on = (m_txMachineState[c] = "BUSY")
    BY SlotsLater
  <2>2. CASE c = d
    <3>1. tracker'[c] = tr /\ m_txMachineState'[c] = x BY <1>1, <2>2
    <3> QED BY <2>1, <2>2, <3>1
  <2>3. CASE c # d
    <3>1. tracker'[c] = tracker[c] /\ m_txMachineState'[c] = m_txMachineState[c] BY <1>1, <2>3
    <3> QED BY <2>1, <3>1
  <2> QED BY <2>2, <2>3
<1> QED BY <1>1, <1>2, Zenon DEF SlotsInv

LEMMA UntrackedStep ==
    ASSUME IInv, SlotsInv, ~finalized, NEW t \in Nat, AdvanceTo(t),
           tracker' = tracker, m_txMachineState' = m_txMachineState
    PROVE  SlotsInv'
<1>1. now' = t BY DEF AdvanceTo
<1>2. ASSUME NEW c \in Device
      PROVE  /\ busySlots'[c] \subseteq Nat /\ \A s \in busySlots'[c] : s < t
             /\ Tracks(tracker'[c], busySlots'[c])
             /\ Since(tracker'[c], busySlots'[c], t)
             /\ tracker'[c].on = (m_txMachineState'[c] = "BUSY")
  BY SlotsLater, Zenon
<1> QED BY <1>1, <1>2, Zenon DEF SlotsInv

(* A report that ends the state of the tracker, and nothing after it yet. *)
LEMMA ReportTracks ==
    ASSUME IInv, SlotsInv, ~finalized, NEW t \in Nat, AdvanceTo(t), NEW d \in Device,
           NEW on \in BOOLEAN, tracker[d].on = ~on
    PROVE  LET tr == TrackUtilization(tracker[d], on, t)
           IN  /\ TrackerConsistent(tr) /\ tr.prev = t /\ tr.on = on
               /\ Tracks(tr, busySlots'[d]) /\ Since(tr, busySlots'[d], t)
<1>1. /\ now \in Nat /\ now <= t /\ TrackerConsistent(tracker[d]) /\ tracker[d].prev <= now
      /\ tracker[d].prev \in Nat
  BY DEF IInv, MachineTypeOK, TrackersInv, AdvanceTo, Tracker
<1>2. tracker[d].prev <= t BY <1>1
<1>3. PICK T : T = busySlots'[d] OBVIOUS
<1>4. T \in SUBSET Nat /\ Tracks(tracker[d], T) /\ Since(tracker[d], T, t)
  BY <1>3, SlotsLater
<1>5. on = ~tracker[d].on OBVIOUS
<1> DEFINE tr == TrackUtilization(tracker[d], on, t)
<1>6. TrackerConsistent(tr) /\ tr.prev = t BY <1>1, <1>2, TrackingConsistent
<1>7. Tracks(tr, T) /\ tr.on = on
  <2>1. /\ Tracks(TrackUtilization(tracker[d], ~tracker[d].on, t), T)
        /\ TrackUtilization(tracker[d], ~tracker[d].on, t).on = ~tracker[d].on
    BY <1>1, <1>2, <1>4, TrackingTrue
  <2> QED BY <1>5, <2>1
<1>8. Since(tr, T, t)
  <2> HIDE DEF tr
  <2>1. \A s \in Nat : ~(t <= s /\ s < t) OBVIOUS
  <2> QED BY <1>6, <2>1 DEF Since
<1> QED BY <1>3, <1>6, <1>7, <1>8

LEMMA SlotsInitially == Init => SlotsInv
<1> SUFFICES ASSUME Init, NEW d \in Device
             PROVE  /\ busySlots[d] \subseteq Nat /\ \A s \in busySlots[d] : s < now
                    /\ Tracks(tracker[d], busySlots[d])
                    /\ Since(tracker[d], busySlots[d], now)
                    /\ tracker[d].on = (m_txMachineState[d] = "BUSY")
  BY DEF SlotsInv
<1>1. busySlots[d] = {} /\ tracker[d] = NewTracker /\ m_txMachineState[d] = "READY" /\ now = 0
  BY DEF Init
<1>2. /\ NewTracker.start = 0 /\ NewTracker.prev = 0 /\ NewTracker.busy = 0
      /\ NewTracker.on = FALSE /\ NewTracker.done = <<>>
  BY DEF NewTracker
<1>3. 0 * Interval = 0 BY IntervalAssumption
<1>4. Count({}, 0, 0) = 0 BY CountNone
<1>5. Tracks(NewTracker, {})
  <2>1. Len(<<>>) = 0 /\ 1..0 = {} OBVIOUS
  <2> QED BY <1>2, <1>3, <1>4, <2>1 DEF Tracks
<1>6. Since(NewTracker, {}, 0)
  <2>1. \A s \in Nat : ~(s < 0) OBVIOUS
  <2> QED BY <2>1 DEF Since
<1> QED BY <1>1, <1>2, <1>5, <1>6

LEMMA SlotsPreserved == IInv /\ SlotsInv /\ [Next]_vars => SlotsInv'
<1> SUFFICES ASSUME IInv, SlotsInv, [Next]_vars PROVE SlotsInv' OBVIOUS
<1>0. MachineTypeOK /\ MachineInv /\ EndTimes \subseteq Nat
      /\ m_txMachineState \in [Device -> {"READY", "BUSY"}] /\ tracker \in [Device -> Tracker]
  BY LaserAssumption DEF IInv, MachineTypeOK
<1>1. ASSUME NEW d \in Device, NEW tx \in TxTimes, NEW t \in 0..endTime, Send(d, tx, t)
      PROVE  SlotsInv'
  <2>1. t \in Nat /\ AdvanceTo(t) /\ ~finalized BY <1>1, <1>0 DEF Send, MachineTypeOK
  <2>2. CASE SendDrop(d) \/ SendEnqueue(d, tx)
    <3>1. tracker' = tracker /\ m_txMachineState' = m_txMachineState
      BY <2>2 DEF SendDrop, SendEnqueue
    <3> QED BY <2>1, <3>1, UntrackedStep
  <2>3. CASE SendNow(d, tx, t)
    <3> DEFINE tr == TrackUtilization(tracker[d], TRUE, t)
    <3>1. m_txMachineState[d] = "READY"
          /\ m_txMachineState' = [m_txMachineState EXCEPT ![d] = "BUSY"]
          /\ tracker' = [tracker EXCEPT ![d] = tr]
      BY <2>3 DEF SendNow, TransmitStart
    <3>2. tracker[d].on = FALSE
      <4>1. tracker[d].on = (m_txMachineState[d] = "BUSY") BY <2>1 DEF SlotsInv
      <4> QED BY <3>1, <4>1
    <3>3. tr.on = TRUE /\ Tracks(tr, busySlots'[d]) /\ Since(tr, busySlots'[d], t)
      <4>1. tracker[d].on = ~TRUE BY <3>2
      <4> QED BY <2>1, <4>1, ReportTracks
    <3> HIDE DEF tr
    <3>4. tr.on = ("BUSY" = "BUSY") BY <3>3
    <3> QED BY <2>1, <3>1, <3>3, <3>4, TrackedStep
  <2> QED BY <1>1, <2>2, <2>3 DEF Send
<1>2. ASSUME NEW e \in completions, TransmitComplete(e) PROVE SlotsInv'
  <2> DEFINE d == e.dev
             tr == TrackUtilization(tracker[d], FALSE, e.ts)
             up == TrackUtilization(tr, TRUE, e.ts)
             failed == m_txMachineState[d] # "BUSY" \/ TimeUnaccounted(tracker[d], FALSE, e.ts)
  <2>1. /\ AdvanceTo(e.ts) /\ ~finalized
        /\ TransmitCompleteIdle(e, tr, failed) \/ TransmitCompleteNext(e, tr, failed)
    BY <1>2 DEF TransmitComplete
  <2>2. d \in Device /\ e.ts \in Nat BY <1>0 DEF MachineTypeOK
  <2>3. m_txMachineState[d] = "BUSY" BY <1>0 DEF MachineInv
  <2>4. tracker[d].on = TRUE
    <3>1. tracker[d].on = (m_txMachineState[d] = "BUSY") BY <2>1, <2>2 DEF SlotsInv
    <3> QED BY <2>3, <3>1
  <2>5. /\ TrackerConsistent(tr) /\ tr.prev = e.ts /\ tr.on = FALSE
        /\ Tracks(tr, busySlots'[d]) /\ Since(tr, busySlots'[d], e.ts)
    <3>1. tracker[d].on = ~FALSE BY <2>4
    <3> QED BY <2>1, <2>2, <3>1, ReportTracks
  <2>6. CASE TransmitCompleteIdle(e, tr, failed)
    <3>1. /\ m_txMachineState' = [m_txMachineState EXCEPT ![d] = "READY"]
          /\ tracker' = [tracker EXCEPT ![d] = tr]
      BY <2>6 DEF TransmitCompleteIdle
    <3> HIDE DEF tr, d
    <3>2. tr.on = ("READY" = "BUSY") BY <2>5
    <3> QED BY <2>1, <2>2, <2>5, <3>1, <3>2, TrackedStep
  <2>7. CASE TransmitCompleteNext(e, tr, failed)
    <3>1. /\ m_txMachineState' = [m_txMachineState EXCEPT ![d] = "BUSY"]
          /\ tracker' = [tracker EXCEPT ![d] = up]
      BY <2>7 DEF TransmitCompleteNext, TransmitStart
    <3>2. PICK T : T = busySlots'[d] OBVIOUS
    <3>3. T \in SUBSET Nat BY <2>1, <2>2, <3>2, SlotsLater
    <3> HIDE DEF tr, d
    <3>4. tr.prev <= e.ts /\ (~tr.on) = TRUE BY <2>2, <2>5
    <3>5. Tracks(TrackUtilization(tr, ~tr.on, e.ts), T)
          /\ TrackUtilization(tr, ~tr.on, e.ts).on = ~tr.on
      BY <2>2, <2>5, <3>2, <3>3, <3>4, TrackingTrue
    <3>6. TrackerConsistent(up) /\ up.prev = e.ts
      BY <2>2, <2>5, <3>4, TrackingConsistent
    <3>7. Tracks(up, T) /\ up.on = TRUE BY <3>4, <3>5
    <3> HIDE DEF up
    <3>8. Since(up, T, e.ts)
      <4>1. \A s \in Nat : ~(e.ts <= s /\ s < e.ts) BY <2>2
      <4> QED BY <3>6, <4>1 DEF Since
    <3>9. up.on = ("BUSY" = "BUSY") BY <3>7
    <3> QED BY <2>1, <2>2, <3>1, <3>2, <3>7, <3>8, <3>9, TrackedStep
  <2> QED BY <2>1, <2>6, <2>7
<1>3. ASSUME NEW e \in arrivals, Receive(e) PROVE SlotsInv'
  <2>1. AdvanceTo(e.ts) /\ ~finalized /\ tracker' = tracker /\ m_txMachineState' = m_txMachineState
    BY <1>3 DEF Receive
  <2>2. e.ts \in Nat BY <1>0 DEF MachineTypeOK
  <2> QED BY <2>1, <2>2, UntrackedStep
<1>4. ASSUME CollectUtilizationStatistics PROVE SlotsInv'
  <2>1. /\ AdvanceTo(endTime) /\ ~finalized /\ finalized' = TRUE /\ now' = endTime
        /\ tracker' = [d \in Device |-> Finalized(tracker[d], endTime)]
    BY <1>4 DEF CollectUtilizationStatistics, AdvanceTo
  <2>2. endTime \in Nat BY <1>0 DEF MachineTypeOK
  <2>3. ASSUME NEW d \in Device
        PROVE  /\ busySlots'[d] \subseteq Nat /\ \A s \in busySlots'[d] : s < endTime
               /\ Tracks(tracker'[d], busySlots'[d])
    <3>1. busySlots'[d] \subseteq Nat /\ \A s \in busySlots'[d] : s < endTime
      BY <2>1, <2>2, SlotsLater
    <3>2. tracker'[d] = TrackUtilization(tracker[d], ~tracker[d].on, endTime)
      BY <2>1 DEF Finalized
    <3>3. (~tracker[d].on) \in BOOLEAN /\ tracker[d].on = ~(~tracker[d].on)
      BY <1>0 DEF Tracker
    <3>4. Tracks(TrackUtilization(tracker[d], ~tracker[d].on, endTime), busySlots'[d])
      BY <2>1, <2>2, <3>3, ReportTracks
    <3> QED BY <3>1, <3>2, <3>4
  <2> QED BY <2>1, <2>3, Zenon DEF SlotsInv
<1>5. CASE UNCHANGED vars
  BY <1>5 DEF SlotsInv, vars
<1> QED BY <1>1, <1>2, <1>3, <1>4, <1>5 DEF Next

(***************************************************************************)
(* TrackedTimeIsBusyTime, for every interval length and every traffic: the *)
(* busy time of each interval is the time the transmitter was on in it.    *)
(***************************************************************************)
THEOREM LaserTrackedTimeIsBusyTime == Spec => []TrackedTimeIsBusyTime
<1>1. Init => IInv /\ SlotsInv BY AccountingInitially, SlotsInitially
<1>2. IInv /\ SlotsInv /\ [Next]_vars => (IInv /\ SlotsInv)'
  BY AccountingPreserved, SlotsPreserved
<1>3. ASSUME IInv, SlotsInv PROVE TrackedTimeIsBusyTime
  <2> SUFFICES ASSUME NEW d \in Device
               PROVE  /\ \A i \in DOMAIN tracker[d].done : tracker[d].done[i]
                             = BusyTime(d, (i - 1) * Interval, i * Interval)
                      /\ tracker[d].busy = BusyTime(d, tracker[d].start, tracker[d].prev)
    BY DEF TrackedTimeIsBusyTime
  <2>1. \A a, b : BusyTime(d, a, b) = Count(busySlots[d], a, b) BY DEF BusyTime, Count, In
  <2>2. Tracks(tracker[d], busySlots[d]) BY <1>3 DEF SlotsInv
  <2>3. DOMAIN tracker[d].done = 1..Len(tracker[d].done)
    <3>1. tracker[d].done \in Seq(Nat) BY <1>3 DEF IInv, MachineTypeOK, Tracker
    <3> QED BY <3>1
  <2>4. tracker[d].busy = BusyTime(d, tracker[d].start, tracker[d].prev)
    BY <2>1, <2>2 DEF Tracks
  <2>5. ASSUME NEW i \in 1..Len(tracker[d].done)
        PROVE  tracker[d].done[i] = BusyTime(d, (i - 1) * Interval, i * Interval)
    <3>1. tracker[d].done[i] = Count(busySlots[d], (i - 1) * Interval, i * Interval)
      BY <2>2 DEF Tracks
    <3>2. BusyTime(d, (i - 1) * Interval, i * Interval)
          = Count(busySlots[d], (i - 1) * Interval, i * Interval)
      BY <2>1
    <3> QED BY <3>1, <3>2
  <2> QED BY <2>3, <2>4, <2>5, Zenon
<1> QED BY <1>1, <1>2, <1>3, PTL DEF Spec
-----------------------------------------------------------------------------
(***************************************************************************)
(* The lines of isl_utilization.csv.                                       *)
(***************************************************************************)
LEMMA LowestExists ==
    ASSUME NEW n \in Nat, NEW S \in SUBSET (0..n), S # {}
    PROVE  \E c \in S : \A d \in S : c <= d
<1> DEFINE R == OpToRel(<, Nat)
<1>1. IsWellFoundedOn(R, Nat) BY NatLessThanWellFounded
<1>2. \A x, y \in Nat : y < x => <<y, x>> \in R BY DEF OpToRel
<1> HIDE DEF R
<1>3. S \subseteq Nat OBVIOUS
<1>4. PICK c \in S : \A d \in S : ~ (<<d, c>> \in R) BY ONLY <1>1, <1>3, S # {}, WFMin, Zenon
<1>5. \A d \in S : ~ (d < c) BY <1>2, <1>3, <1>4
<1> QED BY <1>3, <1>5

LEMMA HighestExists ==
    ASSUME NEW n \in Nat, NEW S \in SUBSET (0..n), S # {}
    PROVE  \E c \in S : \A d \in S : d <= c
<1> DEFINE T == {n - x : x \in S}
<1>1. T \in SUBSET (0..n)
  <2>1. \A x \in 0..n : n - x \in 0..n OBVIOUS
  <2> QED BY <2>1
<1>2. T # {} OBVIOUS
<1>3. PICK c \in T : \A d \in T : c <= d
  <2> HIDE DEF T
  <2> QED BY <1>1, <1>2, LowestExists
<1>4. PICK x \in S : c = n - x OBVIOUS
<1>5. ASSUME NEW y \in S PROVE y <= x
  <2>1. n - y \in T OBVIOUS
  <2>2. n - x <= n - y BY <1>3, <1>4, <2>1
  <2>3. x \in Nat /\ y \in Nat OBVIOUS
  <2> QED BY ONLY n \in Nat, <2>2, <2>3
<1> QED BY <1>5

(* The break before j, or 0 if there is none. *)
BreakBefore(B, j) == IF {k \in B : k < j} = {} THEN 0 ELSE Max({k \in B : k < j})

LEMMA BreakBeforeFacts ==
    ASSUME NEW n \in Nat, NEW B \in SUBSET (1..n), NEW j \in 1..n
    PROVE  /\ BreakBefore(B, j) \in Nat /\ BreakBefore(B, j) < j
           /\ BreakBefore(B, j) = 0 \/ BreakBefore(B, j) \in B
           /\ \A k \in B : k < j => k <= BreakBefore(B, j)
<1> DEFINE S == {k \in B : k < j}
<1>1. CASE S = {}
  <2>1. BreakBefore(B, j) = 0 BY <1>1 DEF BreakBefore
  <2>2. \A k \in B : ~(k < j) BY <1>1
  <2> QED BY <2>1, <2>2
<1>2. CASE S # {}
  <2>1. S \in SUBSET (0..n)
    <3>1. \A k \in 1..n : k \in 0..n OBVIOUS
    <3> QED BY <3>1
  <2>2. BreakBefore(B, j) = CHOOSE x \in S : \A y \in S : x >= y BY <1>2 DEF BreakBefore, Max
  <2>3. \A k \in S : k \in B /\ k \in Nat /\ k < j OBVIOUS
  <2>4. \A k \in B : k < j => k \in S OBVIOUS
  <2> HIDE DEF S
  <2>5. PICK c \in S : \A d \in S : d <= c BY <1>2, <2>1, HighestExists
  <2>6. \A d \in S : c >= d BY <2>3, <2>5
  <2>7. BreakBefore(B, j) \in S /\ \A y \in S : BreakBefore(B, j) >= y BY <2>2, <2>6
  <2> QED BY <2>3, <2>4, <2>7
<1> QED BY <1>1, <1>2

(* The intervals after which a line is written. *)
Changes(done) == {j \in 1..Len(done) : j = Len(done) \/ done[j] # done[j + 1]}
LinesOf(done) ==
    {[from |-> BreakBefore(Changes(done), j) * Interval, to |-> j * Interval,
      busy |-> done[j]] : j \in Changes(done)}

LEMMA IslFileLines ==
    ASSUME NEW tr \in Tracker
    PROVE  IslFile(LaserIntervals(tr)) = LinesOf(tr.done)
<1> DEFINE done == tr.done
           N == Len(done)
           ivs == LaserIntervals(tr)
           B == Changes(done)
<1>1. done \in Seq(Nat) /\ N \in Nat BY DEF Tracker
<1>2. /\ Len(ivs) = N
      /\ \A i \in 1..N : ivs[i].to = i * Interval /\ ivs[i].busy = done[i]
  <2>1. ivs = [i \in 1..N |-> [from |-> (i - 1) * Interval, to |-> i * Interval, busy |-> done[i]]]
    BY DEF LaserIntervals
  <2> HIDE DEF ivs, done, N
  <2>2. Len(ivs) = N BY <1>1, <2>1
  <2>3. \A i \in 1..N : ivs[i] = [from |-> (i - 1) * Interval, to |-> i * Interval, busy |-> done[i]]
    BY <2>1
  <2> QED BY <2>2, <2>3
<1> HIDE DEF ivs, done, N
<1>3. IslBreaks(ivs) = B
  <2>1. \A j \in 1..N : j # N => j + 1 \in 1..N BY <1>1
  <2>2. \A j \in 1..N : j # N => ivs[j].busy = done[j] /\ ivs[j + 1].busy = done[j + 1]
    BY <1>2, <2>1
  <2>3. \A j \in 1..N : (j = N \/ ivs[j].busy # ivs[j + 1].busy) <=> (j = N \/ done[j] # done[j + 1])
    BY <2>2
  <2> QED BY <1>2, <2>3, Zenon DEF IslBreaks, Changes, N
<1>4. B \in SUBSET (1..N) BY DEF Changes, N
<1>5. ASSUME NEW j \in B
      PROVE  LeftSide(ivs, B, j) = BreakBefore(B, j) * Interval
  <2> DEFINE S == {k \in B : k < j}
  <2>1. CASE S = {}
    <3>1. LeftSide(ivs, B, j) = 0 /\ BreakBefore(B, j) = 0 BY <2>1 DEF LeftSide, BreakBefore
    <3>2. 0 * Interval = 0 BY IntervalAssumption
    <3> QED BY <3>1, <3>2
  <2>2. CASE S # {}
    <3>1. LeftSide(ivs, B, j) = ivs[Max(S)].to /\ BreakBefore(B, j) = Max(S)
      BY <2>2 DEF LeftSide, BreakBefore
    <3>2. j \in 1..N BY <1>4
    <3> HIDE DEF B
    <3>3. /\ BreakBefore(B, j) \in Nat /\ BreakBefore(B, j) < j
          /\ BreakBefore(B, j) = 0 \/ BreakBefore(B, j) \in B
          /\ \A k \in B : k < j => k <= BreakBefore(B, j)
      BY <1>1, <1>4, <3>2, BreakBeforeFacts
    <3>4. BreakBefore(B, j) \in 1..N
      <4>1. PICK k \in B : k < j BY <2>2
      <4>2. k \in 1..N /\ k <= BreakBefore(B, j) BY <1>4, <3>3, <4>1
      <4> QED BY <1>1, <3>2, <3>3, <4>2
    <3> QED BY <1>2, <3>1, <3>4
  <2> QED BY <2>1, <2>2
<1>6. \A j \in B : ivs[j].to = j * Interval /\ ivs[j].busy = done[j] BY <1>2, <1>4
<1> DEFINE L(j) == [from |-> LeftSide(ivs, B, j), to |-> ivs[j].to, busy |-> ivs[j].busy]
           R(j) == [from |-> BreakBefore(B, j) * Interval, to |-> j * Interval, busy |-> done[j]]
<1>7. IslFile(ivs) = {L(j) : j \in B} BY <1>3 DEF IslFile
<1>8. \A j \in B : L(j) = R(j) BY <1>5, <1>6
<1>9. LinesOf(done) = {R(j) : j \in B} BY DEF LinesOf
<1> HIDE DEF B, L, R
<1>10. IslFile(ivs) = LinesOf(done) BY <1>7, <1>8, <1>9
<1> QED BY <1>10 DEF ivs, done

(* Between two breaks nothing changes. *)
LEMMA SameUpToBreak ==
    ASSUME NEW done \in Seq(Nat), NEW j \in Changes(done), NEW k \in 1..j,
           BreakBefore(Changes(done), j) < k
    PROVE  done[k] = done[j]
<1> DEFINE N == Len(done)
           B == Changes(done)
           S == {i \in k..j : done[i] # done[j]}
<1>1. N \in Nat /\ j \in 1..N /\ B \in SUBSET (1..N) /\ k \in 1..N BY DEF Changes
<1>2. /\ BreakBefore(B, j) \in Nat /\ \A i \in B : i < j => i <= BreakBefore(B, j)
  <2> HIDE DEF N, B
  <2> QED BY <1>1, BreakBeforeFacts
<1>3. ASSUME S # {} PROVE FALSE
  <2>1. S \in SUBSET (0..N) BY <1>1
  <2>2. PICK i \in S : \A m \in S : m <= i
    <3> HIDE DEF S
    <3> QED BY <1>1, <1>3, <2>1, HighestExists
  <2>3. i \in k..j /\ done[i] # done[j] /\ i # j /\ i \in 1..N /\ i < j /\ i + 1 \in k..j
    BY <1>1
  <2>4. i + 1 \notin S
    <3>1. ~(i + 1 <= i) BY <2>3
    <3> QED BY <2>2, <3>1
  <2>5. done[i + 1] = done[j] BY <2>3, <2>4
  <2>6. i \in B BY <1>1, <2>3, <2>5 DEF Changes
  <2> HIDE DEF B, S
  <2>7. i <= BreakBefore(B, j) BY <1>2, <2>3, <2>6
  <2> QED BY <1>1, <1>2, <2>3, <2>7 DEF B
<1>4. k \in k..j BY <1>1
<1> QED BY <1>3, <1>4

LEMMA MultiplesOrder ==
    ASSUME NEW m \in Nat, NEW n \in Nat
    PROVE  /\ m * Interval \in Nat /\ n * Interval \in Nat
           /\ m <= n => m * Interval <= n * Interval
           /\ m < n => m * Interval + Interval <= n * Interval
           /\ m * Interval < n * Interval => m < n
           /\ m * Interval = n * Interval => m = n
<1> DEFINE x == m * Interval
           y == n * Interval
<1>0. Interval \in Nat /\ Interval > 0 BY IntervalAssumption
<1>1. x \in Nat /\ y \in Nat BY <1>0, Multiples
<1>2. ASSUME NEW a \in Nat, NEW b \in Nat, a < b PROVE a * Interval + Interval <= b * Interval
  <2>1. PICK e \in Nat : b = (a + 1) + e
    <3>1. b - (a + 1) \in Nat /\ b = (a + 1) + (b - (a + 1)) BY <1>2
    <3> QED BY <3>1
  <2>2. a + 1 \in Nat OBVIOUS
  <2>3. b * Interval = (a + 1) * Interval + e * Interval /\ (a + 1) * Interval \in Nat
        /\ e * Interval \in Nat
    BY ONLY <1>0, <2>1, <2>2, MultiplesAdd
  <2>4. (a + 1) * Interval = a * Interval + Interval BY ONLY <1>0, a \in Nat, Multiples
  <2> QED BY <2>3, <2>4
<1>3. m < n => x + Interval <= y BY <1>2
<1>4. n < m => y + Interval <= x BY <1>2
<1>5. m < n \/ n < m \/ m = n OBVIOUS
<1>6. m = n => x = y OBVIOUS
<1> HIDE DEF x, y
<1>7. (m <= n => x <= y) /\ (m < n => x + Interval <= y) /\ (x < y => m < n) /\ (x = y => m = n)
  BY <1>0, <1>1, <1>3, <1>4, <1>5, <1>6
<1> QED BY <1>1, <1>7 DEF x, y

LEMMA QuotientFacts ==
    ASSUME NEW t \in Nat
    PROVE  \E q \in Nat, r \in Nat : /\ t = q * Interval + r /\ r < Interval /\ r = t % Interval
<1>1. Interval \in Nat \ {0} BY IntervalAssumption
<1>2. t = Interval * (t \div Interval) + (t % Interval) /\ (t % Interval) \in 0..(Interval - 1)
  BY <1>1, SMTT(30)
<1>3. t \div Interval \in Nat BY <1>1, Division
<1> DEFINE q == t \div Interval
           r == t % Interval
<1>4. q \in Nat /\ r \in 0..(Interval - 1) /\ t = Interval * q + r BY <1>2, <1>3
<1> HIDE DEF q, r
<1>5. Interval * q = q * Interval BY <1>1, <1>4
<1>6. r \in Nat /\ r < Interval BY <1>1, <1>4
<1> QED BY <1>4, <1>5, <1>6 DEF r

(* A line, with the number of its last interval. *)
LEMMA LineFacts ==
    ASSUME NEW done \in Seq(Nat), NEW l \in LinesOf(done)
    PROVE  \E j \in Changes(done) :
              /\ j \in 1..Len(done) /\ BreakBefore(Changes(done), j) \in Nat
              /\ BreakBefore(Changes(done), j) < j
              /\ BreakBefore(Changes(done), j) = 0 \/ BreakBefore(Changes(done), j) \in Changes(done)
              /\ \A k \in Changes(done) : k < j => k <= BreakBefore(Changes(done), j)
              /\ l = [from |-> BreakBefore(Changes(done), j) * Interval, to |-> j * Interval,
                      busy |-> done[j]]
<1> DEFINE B == Changes(done)
           N == Len(done)
<1>1. N \in Nat /\ B \in SUBSET (1..N) BY DEF Changes
<1>2. PICK j \in B : l = [from |-> BreakBefore(B, j) * Interval, to |-> j * Interval, busy |-> done[j]]
  BY DEF LinesOf
<1>3. j \in 1..N BY <1>1
<1>4. /\ BreakBefore(B, j) \in Nat /\ BreakBefore(B, j) < j
      /\ BreakBefore(B, j) = 0 \/ BreakBefore(B, j) \in B
      /\ \A k \in B : k < j => k <= BreakBefore(B, j)
  <2> HIDE DEF B, N
  <2> QED BY <1>1, <1>3, BreakBeforeFacts
<1> QED BY <1>2, <1>3, <1>4

LEMMA LinesTile ==
    ASSUME NEW done \in Seq(Nat)
    PROVE  Tile(LinesOf(done), Len(done) * Interval)
<1> DEFINE B == Changes(done)
           N == Len(done)
           P(j) == BreakBefore(B, j)
           L(j) == [from |-> P(j) * Interval, to |-> j * Interval, busy |-> done[j]]
<1>0. N \in Nat /\ B \in SUBSET (1..N) /\ (N > 0 => N \in B) /\ Interval \in Nat
  BY IntervalAssumption DEF Changes
<1>1. ASSUME NEW j \in B
      PROVE  /\ j \in 1..N /\ P(j) \in Nat /\ P(j) < j /\ (P(j) = 0 \/ P(j) \in B)
             /\ \A k \in B : k < j => k <= P(j)
  <2>1. j \in 1..N BY <1>0
  <2> HIDE DEF B, N
  <2> QED BY <1>0, <1>1, <2>1, BreakBeforeFacts
<1>2. LinesOf(done) = {L(j) : j \in B} BY DEF LinesOf
<1>3. \A j \in B : L(j).from = P(j) * Interval /\ L(j).to = j * Interval OBVIOUS
<1> HIDE DEF B, N, P, L
<1>4. ASSUME NEW j \in B PROVE L(j).from < L(j).to /\ L(j).to <= N * Interval
  <2>1. j \in Nat /\ P(j) \in Nat /\ P(j) < j /\ j <= N BY <1>0, <1>1
  <2>2. P(j) * Interval + Interval <= j * Interval /\ P(j) * Interval \in Nat /\ j * Interval \in Nat
    BY <2>1, MultiplesOrder
  <2>3. j * Interval <= N * Interval BY <1>0, <2>1, MultiplesOrder
  <2>4. Interval > 0 BY IntervalAssumption
  <2>5. P(j) * Interval < j * Interval
    <3> DEFINE x == P(j) * Interval
               y == j * Interval
    <3>1. x \in Nat /\ y \in Nat /\ x + Interval <= y BY <2>2
    <3> HIDE DEF x, y
    <3>2. x < y BY <1>0, <2>4, <3>1
    <3> QED BY <3>2 DEF x, y
  <2> QED BY <1>3, <2>3, <2>5
<1>5. ASSUME NEW t \in 0..(N * Interval - 1)
      PROVE  Cardinality({l \in LinesOf(done) : l.from <= t /\ t < l.to}) = 1
  <2>0. t \in Nat /\ t < N * Interval
    <3>1. N * Interval \in Nat BY <1>0, Multiples
    <3> QED BY <1>5, <3>1
  <2> DEFINE S == {j \in B : t < j * Interval}
  <2>1. N \in S
    <3>1. N # 0
      <4>1. 0 * Interval = 0 BY <1>0
      <4>2. N * Interval # 0 BY <2>0
      <4> QED BY <4>1, <4>2
    <3>2. N > 0 BY <1>0, <3>1
    <3> QED BY <1>0, <2>0, <3>2
  <2>2. S \in SUBSET (0..N)
    <3>1. \A j \in 1..N : j \in 0..N OBVIOUS
    <3> QED BY <1>0, <3>1
  <2>3. PICK j \in S : \A k \in S : j <= k
    <3> HIDE DEF S
    <3> QED BY <1>0, <2>1, <2>2, LowestExists
  <2>4. j \in B /\ t < j * Interval OBVIOUS
  <2>5. P(j) * Interval <= t
    <3>1. P(j) \in Nat /\ P(j) * Interval \in Nat
      <4>1. P(j) \in Nat BY <1>1, <2>4
      <4> QED BY <1>0, <4>1, Multiples
    <3>2. CASE P(j) = 0
      <4>1. 0 * Interval = 0 BY <1>0
      <4> QED BY <2>0, <3>2, <4>1
    <3>3. CASE P(j) # 0
      <4>1. P(j) \in B /\ P(j) < j /\ j \in Nat BY <1>0, <1>1, <2>4, <3>3
      <4>2. ~(j <= P(j)) BY <3>1, <4>1
      <4>3. P(j) \notin S BY <2>3, <4>2
      <4>4. ~(t < P(j) * Interval) BY <4>1, <4>3
      <4> QED BY <2>0, <3>1, <4>4
    <3> QED BY <3>2, <3>3
  <2>6. ASSUME NEW i \in B, P(i) * Interval <= t, t < i * Interval PROVE i = j
    <3>1. i \in Nat /\ j \in Nat /\ P(i) \in Nat /\ P(j) \in Nat BY <1>0, <1>1, <2>4
    <3>2. ~(i < j)
      <4>1. i \in S BY <2>6
      <4>2. j <= i BY <2>3, <4>1
      <4> QED BY <3>1, <4>2
    <3>3. ~(j < i)
      <4>1. SUFFICES ASSUME j < i PROVE FALSE OBVIOUS
      <4>2. j <= P(i) BY <1>1, <2>4, <2>6, <4>1
      <4>3. /\ j * Interval <= P(i) * Interval
            /\ j * Interval \in Nat /\ P(i) * Interval \in Nat
        BY <3>1, <4>2, MultiplesOrder
      <4> DEFINE x == j * Interval
                 y == P(i) * Interval
      <4>4. x \in Nat /\ y \in Nat /\ x <= y /\ y <= t /\ t < x BY <2>4, <2>6, <4>3
      <4> HIDE DEF x, y
      <4> QED BY <2>0, <4>4
    <3> QED BY <3>1, <3>2, <3>3
  <2>7. {l \in LinesOf(done) : l.from <= t /\ t < l.to} = {L(j)}
    <3>1. L(j) \in LinesOf(done) /\ L(j).from <= t /\ t < L(j).to
      BY <1>2, <1>3, <2>4, <2>5
    <3>2. ASSUME NEW l \in LinesOf(done), l.from <= t, t < l.to PROVE l = L(j)
      <4>1. PICK i \in B : l = L(i) BY <1>2
      <4>2. i = j BY <1>3, <2>6, <3>2, <4>1
      <4> QED BY <4>1, <4>2
    <3> QED BY <3>1, <3>2
  <2> QED BY <2>7, FS_Singleton
<1>6. \A l \in LinesOf(done) : l.from < l.to /\ l.to <= N * Interval BY <1>2, <1>4
<1> QED BY <1>5, <1>6 DEF Tile, N

LEMMA LinesTrue ==
    ASSUME NEW done \in Seq(Nat), NEW S,
           \A i \in 1..Len(done) : done[i] = Count(S, (i - 1) * Interval, i * Interval),
           NEW l \in LinesOf(done), NEW t \in l.from..(l.to - 1), t % Interval = 0
    PROVE  l.busy = Count(S, t, t + Interval)
<1>0. Interval \in Nat /\ Interval > 0 BY IntervalAssumption
<1>1. PICK j \in Changes(done) :
         /\ j \in 1..Len(done) /\ BreakBefore(Changes(done), j) \in Nat
         /\ l = [from |-> BreakBefore(Changes(done), j) * Interval, to |-> j * Interval,
                 busy |-> done[j]]
  BY LineFacts
<1>2. PICK p : p = BreakBefore(Changes(done), j) OBVIOUS
<1>3. p \in Nat /\ j \in Nat /\ Len(done) \in Nat /\ j <= Len(done)
      /\ l.from = p * Interval /\ l.to = j * Interval /\ l.busy = done[j]
  BY <1>1, <1>2
<1>4. p * Interval \in Nat /\ j * Interval \in Nat BY <1>0, <1>3, Multiples
<1>5. t \in Nat /\ p * Interval <= t /\ t < j * Interval
  <2> DEFINE x == p * Interval
             y == j * Interval
  <2>1. x \in Nat /\ y \in Nat /\ t \in x..(y - 1) BY <1>3, <1>4
  <2> HIDE DEF x, y
  <2>2. t \in Nat /\ x <= t /\ t < y BY <2>1
  <2> QED BY <2>2 DEF x, y
<1>6. PICK q \in Nat : t = q * Interval
  <2>1. PICK q \in Nat, r \in Nat : t = q * Interval + r /\ r < Interval /\ r = t % Interval
    BY <1>5, QuotientFacts
  <2>2. q * Interval \in Nat BY <1>0, Multiples
  <2>3. t = q * Interval BY <2>1, <2>2
  <2> QED BY <2>3
<1>7. p <= q /\ q < j
  <2>1. q < j BY <1>3, <1>5, <1>6, MultiplesOrder
  <2>2. ~(q < p)
    <3>1. SUFFICES ASSUME q < p PROVE FALSE OBVIOUS
    <3>2. q * Interval + Interval <= p * Interval /\ q * Interval \in Nat
      BY <1>3, <3>1, MultiplesOrder
    <3> DEFINE x == p * Interval
               y == q * Interval
    <3>3. y + Interval <= x /\ y \in Nat /\ x \in Nat /\ x <= y BY <1>4, <1>5, <1>6, <3>2
    <3> HIDE DEF x, y
    <3> QED BY <1>0, <3>3
  <2> QED BY <1>3, <2>1, <2>2
<1>8. PICK k \in 1..j : k = q + 1
  <2>1. q + 1 \in 1..j BY <1>3, <1>7
  <2> QED BY <2>1
<1>9. done[k] = done[j]
  <2>1. BreakBefore(Changes(done), j) < k BY <1>2, <1>3, <1>7, <1>8
  <2> QED BY <2>1, SameUpToBreak
<1>10. done[k] = Count(S, q * Interval, (q + 1) * Interval)
  <2>0. PICK n \in Nat : n = Len(done) /\ j <= n BY <1>3
  <2>01. j \in Nat BY <1>3
  <2>1. k \in 1..n /\ k - 1 = q BY ONLY n \in Nat, q \in Nat, <1>8, <2>0, <2>01
  <2>2. done[k] = Count(S, (k - 1) * Interval, k * Interval) BY <2>0, <2>1
  <2> QED BY <1>8, <2>1, <2>2
<1>11. (q + 1) * Interval = q * Interval + Interval BY <1>0, Multiples
<1> QED BY <1>3, <1>6, <1>9, <1>10, <1>11

LEMMA LinesDiffer ==
    ASSUME NEW done \in Seq(Nat), NEW l \in LinesOf(done), NEW k \in LinesOf(done), l.to = k.from
    PROVE  l.busy # k.busy
<1> DEFINE B == Changes(done)
<1>1. PICK i \in B : i \in 1..Len(done) /\ l.to = i * Interval /\ l.busy = done[i]
  BY LineFacts
<1>2. PICK j \in B :
        /\ j \in 1..Len(done) /\ BreakBefore(B, j) \in Nat /\ BreakBefore(B, j) < j
        /\ k.from = BreakBefore(B, j) * Interval /\ k.busy = done[j]
  BY LineFacts
<1>3. Len(done) \in Nat BY DEF Changes
<1>4. i \in Nat /\ j \in Nat /\ i * Interval = BreakBefore(B, j) * Interval
  <2>1. i \in Nat /\ j \in Nat
    <3> PICK n \in Nat : n = Len(done) BY <1>3
    <3>1. i \in 1..n /\ j \in 1..n BY <1>1, <1>2
    <3> QED BY ONLY n \in Nat, <3>1
  <2>2. i * Interval = BreakBefore(B, j) * Interval
    <3> HIDE DEF B
    <3>1. l.to = i * Interval /\ k.from = BreakBefore(B, j) * Interval /\ l.to = k.from
      BY <1>1, <1>2
    <3> QED BY ONLY <3>1, Zenon
  <2> QED BY <2>1, <2>2
<1>5. BreakBefore(B, j) = i
  <2> HIDE DEF B
  <2> QED BY <1>2, <1>4, MultiplesOrder
<1>6. i < j /\ i # Len(done) /\ i + 1 \in 1..j /\ BreakBefore(B, j) < i + 1
  <2> HIDE DEF B
  <2> QED BY <1>1, <1>2, <1>3, <1>5
<1>7. done[i] # done[i + 1] BY <1>6 DEF Changes
<1>8. done[i + 1] = done[j] BY <1>6, SameUpToBreak
<1> QED BY <1>1, <1>2, <1>7, <1>8

(* The whole intervals that fit in a time are those up to its last start. *)
LEMMA WholeIntervals ==
    ASSUME NEW t \in Nat, NEW n \in Nat, n * Interval <= t, t < n * Interval + Interval
    PROVE  t - (t % Interval) = n * Interval
<1>0. Interval \in Nat /\ Interval > 0 BY IntervalAssumption
<1>1. PICK q \in Nat, r \in Nat : t = q * Interval + r /\ r < Interval /\ r = t % Interval
  BY QuotientFacts
<1> DEFINE x == q * Interval
           y == n * Interval
<1>2. x \in Nat /\ y \in Nat BY <1>0, Multiples
<1>3. t = x + r /\ y <= t /\ t < y + Interval BY <1>1
<1>4. (q < n => x + Interval <= y) /\ (n < q => y + Interval <= x) BY MultiplesOrder
<1>5. r < Interval BY <1>1
<1> HIDE DEF x, y
<1>6. ~(q < n) BY ONLY <1>0, <1>2, <1>3, <1>4, <1>5, r \in Nat, t \in Nat
<1>7. ~(n < q) BY ONLY <1>0, <1>2, <1>3, <1>4, <1>5, r \in Nat, t \in Nat
<1>8. q = n BY ONLY <1>6, <1>7, q \in Nat, n \in Nat
<1>9. x = y BY ONLY <1>8 DEF x, y
<1>10. t - r = y BY ONLY <1>2, <1>3, <1>9, r \in Nat, t \in Nat
<1> QED BY <1>1, <1>10 DEF y

(* What the collection of the results leaves behind. *)
FilesInv ==
    finalized =>
        \A d \in Device :
            /\ tracker[d].prev = endTime
            /\ islFile[d] = IslFile(LaserIntervals(tracker[d]))
            /\ ptopFile[d] = PtopFile(PtopIntervals(tracker[d], endTime), Resolution)

LEMMA FilesInitially == Init => FilesInv
BY DEF Init, FilesInv

LEMMA FilesPreserved == IInv /\ FilesInv /\ [Next]_vars => FilesInv'
<1> SUFFICES ASSUME IInv, FilesInv, [Next]_vars PROVE FilesInv' OBVIOUS
<1>0. MachineTypeOK BY DEF IInv
<1>1. ASSUME NEW d \in Device, NEW tx \in TxTimes, NEW t \in 0..endTime, Send(d, tx, t)
      PROVE  FilesInv'
  <2>1. ~finalized /\ finalized' = finalized BY <1>1 DEF Send, resultVars
  <2> QED BY <2>1 DEF FilesInv
<1>2. ASSUME NEW e \in completions, TransmitComplete(e) PROVE FilesInv'
  <2>1. ~finalized /\ finalized' = finalized BY <1>2 DEF TransmitComplete, resultVars
  <2> QED BY <2>1 DEF FilesInv
<1>3. ASSUME NEW e \in arrivals, Receive(e) PROVE FilesInv'
  <2>1. ~finalized /\ finalized' = finalized BY <1>3 DEF Receive, resultVars
  <2> QED BY <2>1 DEF FilesInv
<1>4. ASSUME CollectUtilizationStatistics PROVE FilesInv'
  <2>1. /\ now <= endTime /\ endTime' = endTime
        /\ tracker' = [d \in Device |-> Finalized(tracker[d], endTime)]
        /\ islFile' = [d \in Device |-> IslFile(LaserIntervals(Finalized(tracker[d], endTime)))]
        /\ ptopFile' = [d \in Device |->
               PtopFile(PtopIntervals(Finalized(tracker[d], endTime), endTime), Resolution)]
    BY <1>4 DEF CollectUtilizationStatistics, AdvanceTo
  <2>2. endTime \in Nat BY <1>0, LaserAssumption DEF MachineTypeOK
  <2>3. ASSUME NEW d \in Device
        PROVE  Finalized(tracker[d], endTime).prev = endTime
    <3>1. TrackerConsistent(tracker[d]) /\ tracker[d].prev <= now
      BY DEF IInv, TrackersInv
    <3>2. tracker[d].prev \in Nat /\ now \in Nat
      BY <1>0 DEF MachineTypeOK, Tracker
    <3>3. tracker[d].prev <= endTime BY <2>1, <2>2, <3>1, <3>2
    <3>4. (~tracker[d].on) \in BOOLEAN OBVIOUS
    <3> QED BY <2>2, <3>1, <3>3, <3>4, TrackingConsistent DEF Finalized
  <2>4. ASSUME NEW d \in Device
        PROVE  /\ tracker'[d].prev = endTime
               /\ islFile'[d] = IslFile(LaserIntervals(tracker'[d]))
               /\ ptopFile'[d] = PtopFile(PtopIntervals(tracker'[d], endTime), Resolution)
    <3>1. tracker'[d] = Finalized(tracker[d], endTime)
          /\ islFile'[d] = IslFile(LaserIntervals(Finalized(tracker[d], endTime)))
          /\ ptopFile'[d] =
                 PtopFile(PtopIntervals(Finalized(tracker[d], endTime), endTime), Resolution)
      BY <2>1
    <3>2. tracker'[d].prev = endTime BY <2>3, <3>1
    <3> QED BY <3>1, <3>2
  <2> QED BY <2>1, <2>4, Zenon DEF FilesInv
<1>5. CASE UNCHANGED vars
  BY <1>5 DEF FilesInv, vars
<1> QED BY <1>1, <1>2, <1>3, <1>4, <1>5 DEF Next

(***************************************************************************)
(* IslFileIsTrue, for every interval length, every traffic and every end   *)
(* of the run: isl_utilization.csv covers all intervals that are over,     *)
(* each line states the utilization each of its intervals really had, and  *)
(* neighbouring lines differ.                                              *)
(***************************************************************************)
THEOREM LaserIslFileIsTrue == Spec => []IslFileIsTrue
<1>1. Init => IInv /\ SlotsInv /\ FilesInv
  BY AccountingInitially, SlotsInitially, FilesInitially
<1>2. IInv /\ SlotsInv /\ FilesInv /\ [Next]_vars => (IInv /\ SlotsInv /\ FilesInv)'
  BY AccountingPreserved, SlotsPreserved, FilesPreserved
<1>3. ASSUME IInv, SlotsInv, FilesInv PROVE IslFileIsTrue
  <2> SUFFICES ASSUME finalized, NEW d \in Device
               PROVE  /\ Tile(islFile[d], endTime - (endTime % Interval))
                      /\ \A l \in islFile[d] : \A t \in l.from..(l.to - 1) :
                             t % Interval = 0 => l.busy = BusyTime(d, t, t + Interval)
                      /\ \A l, k \in islFile[d] : l.to = k.from => l.busy # k.busy
    BY Zenon DEF IslFileIsTrue
  <2>1. PICK done : done = tracker[d].done OBVIOUS
  <2>2. done \in Seq(Nat) /\ tracker[d] \in Tracker
    BY <1>3, <2>1 DEF IInv, MachineTypeOK, Tracker
  <2>3. islFile[d] = LinesOf(done) /\ tracker[d].prev = endTime
    BY <1>3, <2>1, <2>2, IslFileLines DEF FilesInv
  <2>4. endTime - (endTime % Interval) = Len(done) * Interval
    <3>1. endTime \in Nat BY <1>3, LaserAssumption DEF IInv, MachineTypeOK
    <3>2. Len(done) \in Nat BY <2>2
    <3>3. /\ Len(done) * Interval <= endTime
          /\ endTime < Len(done) * Interval + Interval
      <4>1. TrackerConsistent(tracker[d]) BY <1>3 DEF IInv, TrackersInv
      <4>2. tracker[d].start = Len(done) * Interval
        BY <1>3, <2>1, Zenon DEF SlotsInv, Tracks
      <4> DEFINE x == Len(done) * Interval
      <4>3. /\ tracker[d].start = x /\ tracker[d].prev = endTime
            /\ tracker[d].end = tracker[d].start + Interval
            /\ tracker[d].start <= tracker[d].prev /\ tracker[d].prev < tracker[d].end
        BY <2>3, <4>1, <4>2 DEF TrackerConsistent
      <4> HIDE DEF x
      <4>4. x <= endTime /\ endTime < x + Interval BY ONLY <4>3, Zenon
      <4> QED BY <4>4 DEF x
    <3> QED BY <3>1, <3>2, <3>3, WholeIntervals
  <2>5. Tile(LinesOf(done), Len(done) * Interval) BY <2>2, LinesTile
  <2>6. ASSUME NEW l \in LinesOf(done), NEW t \in l.from..(l.to - 1), t % Interval = 0
        PROVE  l.busy = BusyTime(d, t, t + Interval)
    <3>1. PICK S : S = busySlots[d] OBVIOUS
    <3>2. BusyTime(d, t, t + Interval) = Count(S, t, t + Interval)
      BY <3>1 DEF BusyTime, Count, In
    <3>3. \A i \in 1..Len(done) : done[i] = Count(S, (i - 1) * Interval, i * Interval)
      BY <1>3, <2>1, <3>1, Zenon DEF SlotsInv, Tracks
    <3>4. l.busy = Count(S, t, t + Interval) BY ONLY <2>2, <2>6, <3>3, LinesTrue
    <3> QED BY <3>2, <3>4
  <2>7. \A l, k \in LinesOf(done) : l.to = k.from => l.busy # k.busy BY <2>2, LinesDiffer
  <2> QED BY <2>3, <2>4, <2>5, <2>6, <2>7, Zenon
<1> QED BY <1>1, <1>2, <1>3, PTL DEF Spec
-----------------------------------------------------------------------------
(***************************************************************************)
(* Sums of busy times.  The community modules sum by a recursive function  *)
(* on the subsets of a set; every fact below follows from its equation.    *)
(***************************************************************************)
Pick(R) == CHOOSE i \in R : TRUE
IsSum(g, ivs, T) ==
    g = [R \in SUBSET T |-> IF R = {} THEN 0 ELSE ivs[Pick(R)].busy + g[R \ {Pick(R)}]]
BusySum(ivs, T) == MapThenSumSet(LAMBDA i : ivs[i].busy, T)

LEMMA BusySumUnfold ==
    ASSUME NEW ivs, NEW T
    PROVE  BusySum(ivs, T) = (CHOOSE g : IsSum(g, ivs, T))[T]
BY DEF BusySum, MapThenSumSet, MapThenFoldSet, IsSum, Pick

(* The equation has one solution. *)
LEMMA SumUnique ==
    ASSUME NEW ivs, NEW T, IsFiniteSet(T), NEW f, NEW g, IsSum(f, ivs, T), IsSum(g, ivs, T)
    PROVE  f[T] = g[T]
<1> DEFINE Bad == {R \in SUBSET T : f[R] # g[R]}
           Sizes == {Cardinality(R) : R \in Bad}
<1>1. SUFFICES ASSUME Bad # {} PROVE FALSE OBVIOUS
<1>2. \A R \in SUBSET T : IsFiniteSet(R) /\ Cardinality(R) \in 0..Cardinality(T)
  <2> TAKE R \in SUBSET T
  <2>1. IsFiniteSet(R) /\ Cardinality(R) <= Cardinality(T) BY FS_Subset
  <2>2. Cardinality(R) \in Nat /\ Cardinality(T) \in Nat BY <2>1, FS_CardinalityType
  <2> QED BY <2>1, <2>2
<1>3. Cardinality(T) \in Nat BY FS_CardinalityType
<1>4. Sizes \in SUBSET (0..Cardinality(T)) /\ Sizes # {} BY <1>1, <1>2
<1>5. PICK n \in Sizes : \A m \in Sizes : n <= m
  <2> HIDE DEF Sizes
  <2> QED BY <1>3, <1>4, LowestExists
<1>6. PICK R \in Bad : n = Cardinality(R) OBVIOUS
<1>7. /\ f[R] = IF R = {} THEN 0 ELSE ivs[Pick(R)].busy + f[R \ {Pick(R)}]
      /\ g[R] = IF R = {} THEN 0 ELSE ivs[Pick(R)].busy + g[R \ {Pick(R)}]
  BY Zenon DEF IsSum
<1>8. R # {} /\ R \in SUBSET T BY <1>7
<1>9. PICK x : x = Pick(R) OBVIOUS
<1>10. x \in R BY <1>8, <1>9 DEF Pick
<1>11. R \ {x} \in SUBSET T /\ Cardinality(R \ {x}) = n - 1
  BY <1>2, <1>6, <1>8, <1>10, FS_RemoveElement
<1>12. f[R \ {x}] # g[R \ {x}] BY <1>7, <1>8, <1>9
<1>13. n - 1 \in Sizes BY <1>11, <1>12
<1>14. n \in Nat /\ n <= n - 1 BY <1>2, <1>5, <1>6, <1>13
<1> QED BY <1>14

(***************************************************************************)
(* Intervals that follow one another from 0, each with the number of units *)
(* of S in it.                                                             *)
(***************************************************************************)
Chain(ivs, S) ==
    /\ Len(ivs) \in Nat
    /\ \A i \in 1..Len(ivs) :
           /\ ivs[i].from \in Nat /\ ivs[i].to \in Nat /\ ivs[i].from < ivs[i].to
           /\ ivs[i].from = IF i = 1 THEN 0 ELSE ivs[i - 1].to
           /\ ivs[i].busy = Count(S, ivs[i].from, ivs[i].to)

LEMMA ChainOrder ==
    ASSUME NEW ivs, NEW S, Chain(ivs, S), NEW i \in 1..Len(ivs), NEW j \in 1..Len(ivs), i < j
    PROVE  ivs[i].to <= ivs[j].from
<1> DEFINE N == Len(ivs)
           Bad == {m \in 1..N : i < m /\ ~(ivs[i].to <= ivs[m].from)}
<1>0. N \in Nat BY DEF Chain
<1>1. SUFFICES ASSUME Bad # {} PROVE FALSE OBVIOUS
<1>2. Bad \in SUBSET (0..N) BY <1>0
<1>3. PICK m \in Bad : \A k \in Bad : m <= k
  <2> HIDE DEF Bad
  <2> QED BY <1>0, <1>1, <1>2, LowestExists
<1>4. m \in 1..N /\ i < m /\ m # 1 /\ m - 1 \in 1..N /\ ~(m <= m - 1) BY <1>0
<1>5. ivs[m].from = ivs[m - 1].to BY <1>4 DEF Chain
<1>6. ivs[i].to \in Nat /\ ivs[m - 1].from \in Nat /\ ivs[m - 1].to \in Nat
      /\ ivs[m - 1].from < ivs[m - 1].to
  BY <1>4 DEF Chain
<1>7. CASE m - 1 = i BY <1>3, <1>5, <1>6, <1>7
<1>8. CASE m - 1 # i
  <2>1. i < m - 1 BY <1>0, <1>4, <1>8
  <2>2. ivs[i].to <= ivs[m - 1].from BY <1>3, <1>4, <2>1
  <2>3. ivs[i].to <= ivs[m].from BY <1>5, <1>6, <2>2
  <2> QED BY <1>3, <2>3
<1> QED BY <1>7, <1>8

(* The units of S in some of the intervals. *)
Covered(ivs, S, R) == {s \in S : \E i \in R : ivs[i].from <= s /\ s < ivs[i].to}

LEMMA CoveredOneMore ==
    ASSUME NEW ivs, NEW S \in SUBSET Nat, Chain(ivs, S), NEW R \in SUBSET (1..Len(ivs)),
           NEW x \in R
    PROVE  /\ Cardinality(Covered(ivs, S, R)) = ivs[x].busy + Cardinality(Covered(ivs, S, R \ {x}))
           /\ Cardinality(Covered(ivs, S, R)) \in Nat
<1> DEFINE A == In(S, ivs[x].from, ivs[x].to)
           B == Covered(ivs, S, R \ {x})
           N == Len(ivs)
<1>1. \A i \in 1..N : ivs[i].from \in Nat /\ ivs[i].to \in Nat BY DEF Chain
<1>2. Covered(ivs, S, R) = A \cup B BY Zenon DEF Covered, In
<1>3. A \cap B = {}
  <2> SUFFICES ASSUME NEW s \in S, ivs[x].from <= s, s < ivs[x].to,
                      NEW i \in R \ {x}, ivs[i].from <= s, s < ivs[i].to
               PROVE  FALSE
    BY DEF Covered, In
  <2>1. i \in 1..N /\ x \in 1..N /\ i # x /\ N \in Nat BY DEF Chain
  <2>2. i < x \/ x < i BY <2>1
  <2>3. ivs[i].to <= ivs[x].from \/ ivs[x].to <= ivs[i].from BY <2>1, <2>2, ChainOrder
  <2>4. ivs[i].from \in Nat /\ ivs[i].to \in Nat /\ ivs[x].from \in Nat /\ ivs[x].to \in Nat
    BY <1>1, <2>1
  <2> QED BY <2>3, <2>4
<1>4. IsFiniteSet(A) /\ Count(S, ivs[x].from, ivs[x].to) \in Nat BY <1>1, CountFinite
<1>5. IsFiniteSet(B)
  <2> DEFINE F == {In(S, ivs[i].from, ivs[i].to) : i \in R}
             f == [i \in R |-> In(S, ivs[i].from, ivs[i].to)]
  <2>1. IsFiniteSet(R)
    <3>1. N \in Int /\ 1 \in Int BY DEF Chain
    <3>2. IsFiniteSet(1..N) BY <3>1, FS_Interval
    <3> QED BY <3>2, FS_Subset
  <2>2. f \in Surjection(R, F) BY DEF Surjection
  <2>3. IsFiniteSet(F) BY <2>1, <2>2, FS_Surjection, Zenon
  <2>4. \A T \in F : IsFiniteSet(T)
    <3>1. \A i \in R : IsFiniteSet(In(S, ivs[i].from, ivs[i].to)) BY <1>1, CountFinite
    <3> QED BY <3>1
  <2>5. IsFiniteSet(UNION F) BY <2>3, <2>4, FS_UNION
  <2>6. B \in SUBSET UNION F
    <3> SUFFICES ASSUME NEW s \in B PROVE \E i \in R : s \in In(S, ivs[i].from, ivs[i].to)
      OBVIOUS
    <3> QED BY DEF Covered, In
  <2> QED BY <2>5, <2>6, FS_Subset
<1>6. ivs[x].busy = Cardinality(A) BY DEF Chain, Count
<1>7. Cardinality(A) \in Nat /\ Cardinality(B) \in Nat BY <1>4, <1>5, FS_CardinalityType
<1>8. Cardinality(A \cup B) = Cardinality(A) + Cardinality(B) - Cardinality(A \cap B)
  BY <1>4, <1>5, FS_Union
<1>9. Cardinality(A \cap B) = 0 BY <1>3, FS_EmptySet
<1> HIDE DEF A, B
<1> QED BY <1>2, <1>6, <1>7, <1>8, <1>9 DEF B

(* The sum of their busy times is the number of units of S in them. *)
LEMMA BusySumCounts ==
    ASSUME NEW ivs, NEW S \in SUBSET Nat, Chain(ivs, S), NEW T \in SUBSET (1..Len(ivs))
    PROVE  BusySum(ivs, T) = Cardinality(Covered(ivs, S, T))
<1> DEFINE c == [R \in SUBSET T |-> Cardinality(Covered(ivs, S, R))]
<1>1. IsSum(c, ivs, T)
  <2>1. ASSUME NEW R \in SUBSET T
        PROVE  c[R] = IF R = {} THEN 0 ELSE ivs[Pick(R)].busy + c[R \ {Pick(R)}]
    <3>1. CASE R = {}
      <4>1. Covered(ivs, S, {}) = {} BY DEF Covered
      <4> QED BY <3>1, <4>1, FS_EmptySet
    <3>2. CASE R # {}
      <4>1. PICK x : x = Pick(R) OBVIOUS
      <4>2. x \in R BY <3>2, <4>1 DEF Pick
      <4>3. R \in SUBSET (1..Len(ivs)) /\ R \ {x} \in SUBSET T OBVIOUS
      <4>4. Cardinality(Covered(ivs, S, R)) = ivs[x].busy + Cardinality(Covered(ivs, S, R \ {x}))
        BY <4>2, <4>3, CoveredOneMore
      <4> QED BY <3>2, <4>1, <4>3, <4>4
    <3> QED BY <3>1, <3>2
  <2> QED BY <2>1 DEF IsSum
<1>2. PICK f : f = CHOOSE g : IsSum(g, ivs, T) OBVIOUS
<1>3. IsSum(f, ivs, T)
  <2> HIDE DEF c
  <2> QED BY <1>1, <1>2
<1>4. IsFiniteSet(T)
  <2>1. Len(ivs) \in Int /\ 1 \in Int BY DEF Chain
  <2>2. IsFiniteSet(1..Len(ivs)) BY <2>1, FS_Interval
  <2> QED BY <2>2, FS_Subset
<1>5. f[T] = c[T]
  <2> HIDE DEF c
  <2> QED BY <1>1, <1>3, <1>4, SumUnique
<1> QED BY <1>2, <1>5, BusySumUnfold

(***************************************************************************)
(* A line of the compressed file goes from the break before to its own,    *)
(* and has the number of units of S in between.                            *)
(***************************************************************************)
Left(ivs, B, j) == IF BreakBefore(B, j) = 0 THEN 0 ELSE ivs[BreakBefore(B, j)].to

LEMMA LeftFacts ==
    ASSUME NEW ivs, NEW S, Chain(ivs, S), NEW B \in SUBSET (1..Len(ivs)), NEW j \in B
    PROVE  /\ LeftSide(ivs, B, j) = Left(ivs, B, j)
           /\ Left(ivs, B, j) \in Nat
           /\ \A i \in 1..Len(ivs) : IF BreakBefore(B, j) < i THEN Left(ivs, B, j) <= ivs[i].from
                                     ELSE ivs[i].to <= Left(ivs, B, j)
<1> DEFINE N == Len(ivs)
           p == BreakBefore(B, j)
<1>0. N \in Nat /\ j \in 1..N BY DEF Chain
<1>1. /\ p \in Nat /\ p < j /\ (p = 0 \/ p \in B)
      /\ \A k \in B : k < j => k <= p
  BY <1>0, BreakBeforeFacts
<1>2. \A i \in 1..N : ivs[i].from \in Nat /\ ivs[i].to \in Nat /\ ivs[i].from < ivs[i].to
  BY DEF Chain
<1>3. LeftSide(ivs, B, j) = Left(ivs, B, j)
  <2>1. CASE {k \in B : k < j} = {}
    BY <2>1 DEF LeftSide, Left, BreakBefore
  <2>2. CASE {k \in B : k < j} # {}
    <3>1. LeftSide(ivs, B, j) = ivs[p].to BY <2>2 DEF LeftSide, BreakBefore
    <3>2. p # 0
      <4>1. PICK k \in B : k < j BY <2>2
      <4>2. k \in 1..N /\ k <= p BY <1>1, <4>1
      <4> QED BY <1>0, <4>2
    <3> QED BY <3>1, <3>2 DEF Left
  <2> QED BY <2>1, <2>2
<1>4. CASE p = 0
  <2>1. Left(ivs, B, j) = 0 BY <1>4 DEF Left
  <2>2. \A i \in 1..N : p < i BY <1>0, <1>4
  <2>3. \A i \in 1..N : 0 <= ivs[i].from BY <1>2
  <2> QED BY <1>3, <2>1, <2>2, <2>3
<1>5. CASE p # 0
  <2>1. p \in 1..N BY <1>0, <1>1, <1>5
  <2>2. Left(ivs, B, j) = ivs[p].to BY <1>5 DEF Left
  <2>3. ASSUME NEW i \in 1..N
        PROVE  IF p < i THEN ivs[p].to <= ivs[i].from ELSE ivs[i].to <= ivs[p].to
    <3>1. CASE p < i BY <2>1, <3>1, ChainOrder
    <3>2. CASE i = p BY <1>2, <2>1, <3>2
    <3>3. CASE i < p
      <4>1. ivs[i].to <= ivs[p].from BY <2>1, <3>3, ChainOrder
      <4>2. ~(p < i) BY <1>0, <2>1, <3>3
      <4>3. ivs[i].to \in Nat /\ ivs[p].from \in Nat /\ ivs[p].to \in Nat
            /\ ivs[p].from < ivs[p].to
        BY <1>2, <2>1
      <4>4. ivs[i].to <= ivs[p].to BY <4>1, <4>3
      <4> QED BY <4>2, <4>4
    <3> QED BY <1>0, <2>1, <3>1, <3>2, <3>3
  <2> HIDE DEF p, N
  <2>4. ivs[p].to \in Nat BY <1>2, <2>1
  <2> QED BY <1>3, <2>2, <2>3, <2>4 DEF p, N
<1> QED BY <1>4, <1>5

LEMMA LineCounts ==
    ASSUME NEW ivs, NEW S \in SUBSET Nat, Chain(ivs, S), NEW B \in SUBSET (1..Len(ivs)), NEW j \in B
    PROVE  BusySum(ivs, {i \in 1..j : ivs[i].from >= Left(ivs, B, j)})
           = Count(S, Left(ivs, B, j), ivs[j].to)
<1> DEFINE N == Len(ivs)
           p == BreakBefore(B, j)
           T == {i \in 1..j : ivs[i].from >= Left(ivs, B, j)}
<1> PICK left : left = Left(ivs, B, j) OBVIOUS
<1>0. N \in Nat /\ j \in 1..N /\ 1..j \subseteq 1..N BY DEF Chain
<1>1. \A i \in 1..N : /\ ivs[i].from \in Nat /\ ivs[i].to \in Nat /\ ivs[i].from < ivs[i].to
                      /\ ivs[i].from = IF i = 1 THEN 0 ELSE ivs[i - 1].to
  BY DEF Chain
<1>2. left \in Nat BY LeftFacts
<1>3. \A i \in 1..N : left <= ivs[i].from \/ ivs[i].to <= left
  BY LeftFacts, Zenon
<1>4. T \in SUBSET (1..N) BY <1>0
<1>5. ASSUME NEW i \in T PROVE left <= ivs[i].from /\ ivs[i].to <= ivs[j].to /\ i \in 1..N
  <2>1. i \in 1..N /\ i <= j BY <1>0
  <2>2. CASE i = j BY <1>1, <1>2, <2>1, <2>2
  <2>3. CASE i < j
    <3>1. ivs[i].to <= ivs[j].from BY <1>0, <2>1, <2>3, ChainOrder
    <3>2. ivs[i].to \in Nat /\ ivs[j].from \in Nat /\ ivs[j].to \in Nat
          /\ ivs[j].from < ivs[j].to
      BY <1>0, <1>1, <2>1
    <3>3. ivs[i].to <= ivs[j].to BY <3>1, <3>2
    <3>4. ivs[i].from >= left /\ ivs[i].from \in Nat BY <1>1, <2>1
    <3> QED BY <1>2, <2>1, <3>3, <3>4
  <2> QED BY <1>0, <2>1, <2>2, <2>3
<1>6. Covered(ivs, S, T) = In(S, left, ivs[j].to)
  <2>1. ASSUME NEW s \in S, NEW i \in T, ivs[i].from <= s, s < ivs[i].to
        PROVE  left <= s /\ s < ivs[j].to
    <3>1. ivs[i].from \in Nat /\ ivs[i].to \in Nat /\ ivs[j].to \in Nat /\ s \in Nat
      BY <1>0, <1>1, <1>5
    <3>2. left <= ivs[i].from /\ ivs[i].to <= ivs[j].to BY <1>5
    <3> QED BY <1>2, <2>1, <3>1, <3>2
  <2>2. ASSUME NEW s \in S, left <= s, s < ivs[j].to
        PROVE  \E i \in T : ivs[i].from <= s /\ s < ivs[i].to
    <3> DEFINE A == {i \in 1..N : s < ivs[i].to}
    <3>1. j \in A /\ A \in SUBSET (0..N) BY <1>0, <2>2
    <3>2. PICK i \in A : \A k \in A : i <= k
      <4> HIDE DEF A
      <4> QED BY <1>0, <3>1, LowestExists
    <3>3. i \in 1..j /\ i \in 1..N /\ s < ivs[i].to BY <1>0, <3>1, <3>2
    <3>4. s \in Nat OBVIOUS
    <3>5. ivs[i].from <= s
      <4>1. CASE i = 1 BY <1>1, <3>3, <3>4, <4>1
      <4>2. CASE i # 1
        <5>1. i - 1 \in 1..N /\ ~(i <= i - 1) BY <1>0, <3>3, <4>2
        <5>2. ~(s < ivs[i - 1].to) BY <3>2, <5>1
        <5>3. ivs[i - 1].to \in Nat /\ ivs[i].from = ivs[i - 1].to BY <1>1, <3>3, <4>2, <5>1
        <5> QED BY <3>4, <5>2, <5>3
      <4> QED BY <4>1, <4>2
    <3>6. ~(ivs[i].to <= left)
      <4>1. ivs[i].to \in Nat BY <1>1, <3>3
      <4> QED BY <1>2, <2>2, <3>3, <3>4, <4>1
    <3>7. ivs[i].from >= left
      <4>1. ivs[i].from \in Nat BY <1>1, <3>3
      <4> QED BY <1>2, <1>3, <3>3, <3>6, <4>1
    <3> QED BY <3>3, <3>5, <3>7
  <2> HIDE DEF T
  <2> QED BY <2>1, <2>2, Zenon DEF Covered, In
<1> HIDE DEF T
<1>7. BusySum(ivs, T) = Count(S, left, ivs[j].to) BY <1>4, <1>6, BusySumCounts DEF Count
<1> QED BY <1>7 DEF T

LEMMA PtopFileLines ==
    ASSUME NEW ivs, NEW S \in SUBSET Nat, Chain(ivs, S), NEW r
    PROVE  LET B == PtopBreaks(ivs, r)
           IN  /\ B \in SUBSET (1..Len(ivs)) /\ (Len(ivs) > 0 => Len(ivs) \in B)
               /\ PtopFile(ivs, r) =
                     {[from |-> Left(ivs, B, j), to |-> ivs[j].to,
                       busy |-> Count(S, Left(ivs, B, j), ivs[j].to)] : j \in B}
<1> DEFINE B == PtopBreaks(ivs, r)
           lines(j) == [from |-> LeftSide(ivs, B, j), to |-> ivs[j].to,
                        busy |-> BusySum(ivs, {i \in 1..j : ivs[i].from >= LeftSide(ivs, B, j)})]
           counted(j) == [from |-> Left(ivs, B, j), to |-> ivs[j].to,
                          busy |-> Count(S, Left(ivs, B, j), ivs[j].to)]
<1>1. B \in SUBSET (1..Len(ivs)) /\ (Len(ivs) > 0 => Len(ivs) \in B)
  <2>1. Len(ivs) \in Nat BY DEF Chain
  <2>2. Len(ivs) > 0 => Len(ivs) \in 1..Len(ivs) BY <2>1
  <2> QED BY <2>2 DEF PtopBreaks
<1>2. PtopFile(ivs, r) = {lines(j) : j \in B} BY DEF PtopFile, BusySum
<1>3. ASSUME NEW j \in B PROVE lines(j) = counted(j)
  <2> HIDE DEF B
  <2>1. LeftSide(ivs, B, j) = Left(ivs, B, j) BY <1>1, LeftFacts
  <2>2. BusySum(ivs, {i \in 1..j : ivs[i].from >= Left(ivs, B, j)})
        = Count(S, Left(ivs, B, j), ivs[j].to)
    BY <1>1, LineCounts
  <2> QED BY <2>1, <2>2
<1> HIDE DEF B, lines, counted
<1>4. PtopFile(ivs, r) = {counted(j) : j \in B} BY <1>2, <1>3
<1> QED BY <1>1, <1>4 DEF B, counted

(* The lines leave no gap and do not overlap. *)
LEMMA PtopLinesTile ==
    ASSUME NEW ivs, NEW S \in SUBSET Nat, Chain(ivs, S), NEW r, NEW end,
           end = IF Len(ivs) = 0 THEN 0 ELSE ivs[Len(ivs)].to
    PROVE  Tile(PtopFile(ivs, r), end)
<1> DEFINE N == Len(ivs)
           L(B, j) == [from |-> Left(ivs, B, j), to |-> ivs[j].to,
                       busy |-> Count(S, Left(ivs, B, j), ivs[j].to)]
<1>0. PICK B : /\ B \in SUBSET (1..N) /\ (N > 0 => N \in B)
               /\ PtopFile(ivs, r) = {L(B, j) : j \in B}
  <2> DEFINE D == PtopBreaks(ivs, r)
  <2>1. /\ D \in SUBSET (1..N) /\ (N > 0 => N \in D)
        /\ PtopFile(ivs, r) = {L(D, j) : j \in D}
    BY PtopFileLines
  <2> HIDE DEF D, L
  <2> QED BY <2>1
<1>1. N \in Nat
      /\ \A i \in 1..N : ivs[i].from \in Nat /\ ivs[i].to \in Nat /\ ivs[i].from < ivs[i].to
  BY DEF Chain
<1>2. end \in Nat /\ \A i \in 1..N : ivs[i].to <= end
  <2>1. CASE N = 0 BY <2>1
  <2>2. CASE N # 0
    <3>1. N \in 1..N BY <1>1, <2>2
    <3>2. ASSUME NEW i \in 1..N PROVE ivs[i].to <= ivs[N].to
      <4>1. CASE i = N BY <1>1, <3>1, <4>1
      <4>2. CASE i # N
        <5>1. i < N BY <1>1, <4>2
        <5>2. ivs[i].to <= ivs[N].from BY <3>1, <5>1, ChainOrder
        <5>3. ivs[i].to \in Nat /\ ivs[N].from \in Nat /\ ivs[N].to \in Nat /\ ivs[N].from < ivs[N].to
          BY <1>1, <3>1
        <5> QED BY <5>2, <5>3
      <4> QED BY <4>1, <4>2
    <3> QED BY <1>1, <2>2, <3>1, <3>2
  <2> QED BY <2>1, <2>2
<1>3. \A j \in B : j \in 1..N BY <1>0
<1>4. ASSUME NEW j \in B
      PROVE  /\ Left(ivs, B, j) \in Nat
             /\ \A i \in 1..N : IF BreakBefore(B, j) < i THEN Left(ivs, B, j) <= ivs[i].from
                                ELSE ivs[i].to <= Left(ivs, B, j)
             /\ BreakBefore(B, j) < j
             /\ \A k \in B : k < j => k <= BreakBefore(B, j)
             /\ BreakBefore(B, j) \in Nat
             /\ Left(ivs, B, j) = 0 \/ (BreakBefore(B, j) \in B
                                        /\ Left(ivs, B, j) = ivs[BreakBefore(B, j)].to)
  BY <1>0, <1>1, <1>3, LeftFacts, BreakBeforeFacts DEF Left
<1>5. ASSUME NEW l \in PtopFile(ivs, r) PROVE l.from < l.to /\ l.to <= end
  <2>1. PICK j \in B : l = L(B, j) BY <1>0
  <2>2. l.from = Left(ivs, B, j) /\ l.to = ivs[j].to BY <2>1
  <2>3. Left(ivs, B, j) <= ivs[j].from /\ Left(ivs, B, j) \in Nat BY <1>3, <1>4
  <2>4. ivs[j].from \in Nat /\ ivs[j].to \in Nat /\ ivs[j].from < ivs[j].to /\ ivs[j].to <= end
    BY <1>1, <1>2, <1>3
  <2> QED BY <2>2, <2>3, <2>4
<1>6. ASSUME NEW t \in 0..(end - 1)
      PROVE  Cardinality({l \in PtopFile(ivs, r) : l.from <= t /\ t < l.to}) = 1
  <2>0. t \in Nat /\ t < end BY <1>2
  <2> DEFINE A == {j \in B : t < ivs[j].to}
  <2>1. N \in A /\ A \in SUBSET (0..N)
    <3>1. N # 0 BY <2>0
    <3>2. N \in B /\ end = ivs[N].to BY <1>0, <1>1, <3>1
    <3>3. \A j \in 1..N : j \in 0..N BY <1>1
    <3> QED BY <1>3, <2>0, <3>2, <3>3
  <2>2. PICK j \in A : \A k \in A : j <= k
    <3> HIDE DEF A
    <3> QED BY <1>1, <2>1, LowestExists
  <2>3. j \in B /\ j \in 1..N /\ t < ivs[j].to BY <1>3
  <2>4. Left(ivs, B, j) <= t
    <3>1. CASE Left(ivs, B, j) = 0 BY <2>0, <3>1
    <3>2. CASE Left(ivs, B, j) # 0
      <4>1. PICK p \in B : p = BreakBefore(B, j) /\ Left(ivs, B, j) = ivs[p].to
        BY <1>4, <2>3, <3>2
      <4>2. p < j /\ p \in 1..N BY <1>3, <1>4, <2>3, <4>1
      <4>3. ~(j <= p) BY <1>1, <2>3, <4>2
      <4>4. ~(t < ivs[p].to) BY <2>2, <4>1, <4>3
      <4>5. ivs[p].to \in Nat BY <1>1, <4>2
      <4> QED BY <2>0, <4>1, <4>4, <4>5
    <3> QED BY <3>1, <3>2
  <2>5. ASSUME NEW i \in B, Left(ivs, B, i) <= t, t < ivs[i].to PROVE i = j
    <3>1. i \in 1..N /\ i \in Nat /\ j \in Nat BY <1>1, <1>3, <2>3
    <3>2. j <= i BY <2>2, <2>5
    <3>3. ~(j < i)
      <4>1. SUFFICES ASSUME j < i PROVE FALSE OBVIOUS
      <4>2. j <= BreakBefore(B, i) /\ BreakBefore(B, i) \in Nat BY <1>4, <2>3, <4>1
      <4>3. ~(BreakBefore(B, i) < j) BY <3>1, <4>2
      <4>4. ivs[j].to <= Left(ivs, B, i) /\ Left(ivs, B, i) \in Nat BY <1>4, <2>3, <4>3
      <4>5. ivs[j].to \in Nat BY <1>1, <2>3
      <4> QED BY <2>0, <2>3, <2>5, <4>4, <4>5
    <3> QED BY <3>1, <3>2, <3>3
  <2>6. {l \in PtopFile(ivs, r) : l.from <= t /\ t < l.to} = {L(B, j)}
    <3>1. L(B, j) \in PtopFile(ivs, r) /\ L(B, j).from <= t /\ t < L(B, j).to
      BY <1>0, <2>3, <2>4
    <3>2. ASSUME NEW l \in PtopFile(ivs, r), l.from <= t, t < l.to PROVE l = L(B, j)
      <4>1. PICK i \in B : l = L(B, i) BY <1>0
      <4>2. l.from = Left(ivs, B, i) /\ l.to = ivs[i].to BY <4>1
      <4>3. i = j BY <2>5, <3>2, <4>2
      <4> QED BY <4>1, <4>3
    <3> HIDE DEF L
    <3> QED BY <3>1, <3>2
  <2> QED BY <2>6, FS_Singleton
<1> QED BY <1>5, <1>6 DEF Tile

(***************************************************************************)
(* The intervals of a tracker, and the one it is in if there is anything   *)
(* of it yet: they follow one another up to the time of its last call.     *)
(***************************************************************************)
LEMMA PtopIntervalsChain ==
    ASSUME NEW f, TrackerConsistent(f), NEW S, Tracks(f, S)
    PROVE  LET ivs == PtopIntervals(f, f.prev)
           IN  /\ Chain(ivs, S)
               /\ f.prev = IF Len(ivs) = 0 THEN 0 ELSE ivs[Len(ivs)].to
<1> PICK N : N = Len(f.done) OBVIOUS
<1> PICK full : full = LaserIntervals(f) OBVIOUS
<1> PICK t : t = f.prev OBVIOUS
<1> PICK start : start = f.start OBVIOUS
<1>0. /\ f.done \in Seq(Nat) /\ N \in Nat /\ start \in Nat /\ t \in Nat /\ start <= t
      /\ Interval \in Nat /\ Interval > 0
  BY IntervalAssumption DEF TrackerConsistent, Tracker
<1>1. start = N * Interval /\ f.busy = Count(S, start, t)
      /\ \A i \in 1..N : f.done[i] = Count(S, (i - 1) * Interval, i * Interval)
  BY DEF Tracks
<1>2. full = [i \in 1..N |-> [from |-> (i - 1) * Interval, to |-> i * Interval, busy |-> f.done[i]]]
  BY DEF LaserIntervals
<1> DEFINE elt(i) == [from |-> (i - 1) * Interval, to |-> i * Interval, busy |-> f.done[i]]
           E == {elt(i) : i \in 1..N}
<1>3. /\ Len(full) = N /\ full \in Seq(E)
      /\ \A i \in 1..N : /\ full[i].from = (i - 1) * Interval /\ full[i].to = i * Interval
                         /\ full[i].busy = f.done[i]
  <2>1. full = [i \in 1..N |-> elt(i)] BY <1>2
  <2>2. \A i \in 1..N : /\ elt(i).from = (i - 1) * Interval /\ elt(i).to = i * Interval
                        /\ elt(i).busy = f.done[i]
    OBVIOUS
  <2>3. \A i \in 1..N : elt(i) \in E OBVIOUS
  <2> HIDE DEF elt, E
  <2>4. full \in Seq(E) /\ Len(full) = N BY <1>0, <2>1, <2>3
  <2> QED BY <2>1, <2>2, <2>4
<1> HIDE DEF elt, E
<1>4. ASSUME NEW i \in 1..N
      PROVE  /\ full[i].from \in Nat /\ full[i].to \in Nat /\ full[i].from < full[i].to
             /\ full[i].from = IF i = 1 THEN 0 ELSE full[i - 1].to
             /\ full[i].busy = Count(S, full[i].from, full[i].to)
  <2>1. full[i].from = (i - 1) * Interval /\ full[i].to = i * Interval /\ full[i].busy = f.done[i]
    BY <1>3
  <2>2. PICK k \in Nat : k = i - 1 /\ i = k + 1 BY <1>0
  <2>3. k * Interval \in Nat /\ (k + 1) * Interval = k * Interval + Interval BY <1>0, Multiples
  <2> DEFINE x == k * Interval
  <2>4. x \in Nat /\ full[i].from = x /\ full[i].to = x + Interval BY <2>1, <2>2, <2>3
  <2>5. CASE i = 1
    <3>1. 0 * Interval = 0 BY <1>0
    <3>2. x = 0 BY <2>2, <2>5, <3>1
    <3>3. f.done[i] = Count(S, full[i].from, full[i].to) BY <1>1, <2>1
    <3> HIDE DEF x
    <3> QED BY <1>0, <2>1, <2>4, <2>5, <3>2, <3>3
  <2>6. CASE i # 1
    <3>1. k \in 1..N BY <1>0, <2>2, <2>6
    <3>2. full[k].to = x BY <1>3, <3>1
    <3>3. f.done[i] = Count(S, full[i].from, full[i].to) BY <1>1, <2>1
    <3>4. full[i - 1].to = x BY <2>2, <3>2
    <3> HIDE DEF x
    <3> QED BY <1>0, <2>1, <2>4, <2>6, <3>3, <3>4
  <2> QED BY <2>5, <2>6
<1>5. N > 0 => full[N].to = start
  <2>1. N > 0 => N \in 1..N BY <1>0
  <2> QED BY <1>1, <1>3, <2>1
<1>6. CASE t = start
  <2>1. PtopIntervals(f, t) = full \o <<>> BY <1>6 DEF PtopIntervals
  <2>2. full \o <<>> = full BY <1>3
  <2>3. Chain(full, S) BY <1>0, <1>3, <1>4 DEF Chain
  <2>4. N = 0 => start = 0
    <3>1. 0 * Interval = 0 BY <1>0
    <3> QED BY <1>1, <3>1
  <2>5. t = IF Len(full) = 0 THEN 0 ELSE full[Len(full)].to BY <1>0, <1>3, <1>5, <1>6, <2>4
  <2> QED BY <2>1, <2>2, <2>3, <2>5
<1>7. CASE t # start
  <2> PICK last : last = [from |-> start, to |-> t, busy |-> f.busy] OBVIOUS
  <2> PICK ivs : ivs = full \o <<last>> OBVIOUS
  <2>1. PtopIntervals(f, t) = ivs BY <1>7 DEF PtopIntervals
  <2>2. Len(ivs) = N + 1 /\ ivs[N + 1] = last /\ \A i \in 1..N : ivs[i] = full[i]
    <3> DEFINE D == E \cup {last}
    <3>1. full \in Seq(D) /\ <<last>> \in Seq(D) /\ Len(<<last>>) = 1 /\ <<last>>[1] = last
      BY <1>3
    <3> HIDE DEF D
    <3>2. Len(ivs) = Len(full) + 1 BY <3>1
    <3>3. ivs[Len(full) + 1] = last BY <3>1
    <3>4. \A i \in 1..Len(full) : ivs[i] = full[i] BY <3>1
    <3> QED BY <1>3, <3>2, <3>3, <3>4
  <2>3. ASSUME NEW i \in 1..(N + 1)
        PROVE  /\ ivs[i].from \in Nat /\ ivs[i].to \in Nat /\ ivs[i].from < ivs[i].to
               /\ ivs[i].from = IF i = 1 THEN 0 ELSE ivs[i - 1].to
               /\ ivs[i].busy = Count(S, ivs[i].from, ivs[i].to)
    <3>1. CASE i = N + 1
      <4>1. ivs[i] = last BY <2>2, <3>1
      <4>2. last.from = start /\ last.to = t /\ last.busy = f.busy OBVIOUS
      <4>3. start < t BY <1>0, <1>7
      <4>4. start = IF i = 1 THEN 0 ELSE ivs[i - 1].to
        <5>1. CASE i = 1
          <6>1. N = 0 /\ 0 * Interval = 0 BY <1>0, <3>1, <5>1
          <6> QED BY <1>1, <5>1, <6>1
        <5>2. CASE i # 1
          <6>1. i - 1 = N /\ N \in 1..N /\ N > 0 BY <1>0, <3>1, <5>2
          <6> QED BY <1>5, <2>2, <5>2, <6>1
        <5> QED BY <5>1, <5>2
      <4> QED BY <1>0, <1>1, <4>1, <4>2, <4>3, <4>4
    <3>2. CASE i # N + 1
      <4>1. i \in 1..N /\ (i # 1 => i - 1 \in 1..N) BY <1>0, <3>2
      <4>2. ivs[i] = full[i] /\ (i # 1 => ivs[i - 1] = full[i - 1]) BY <2>2, <4>1
      <4>3. /\ full[i].from \in Nat /\ full[i].to \in Nat /\ full[i].from < full[i].to
            /\ full[i].from = IF i = 1 THEN 0 ELSE full[i - 1].to
            /\ full[i].busy = Count(S, full[i].from, full[i].to)
        BY <1>4, <4>1
      <4>4. CASE i = 1 BY ONLY <4>2, <4>3, <4>4
      <4>5. CASE i # 1 BY ONLY <4>2, <4>3, <4>5
      <4> QED BY <4>4, <4>5
    <3> QED BY <3>1, <3>2
  <2>4. Chain(ivs, S)
    <3>1. Len(ivs) = N + 1 /\ N + 1 \in Nat BY <1>0, <2>2
    <3> HIDE <2>2
    <3> QED BY ONLY <2>3, <3>1, Zenon DEF Chain
  <2>5. t = IF Len(ivs) = 0 THEN 0 ELSE ivs[Len(ivs)].to BY <1>0, <2>2
  <2> QED BY <2>1, <2>4, <2>5
<1> QED BY <1>6, <1>7

(***************************************************************************)
(* PtopFileIsTrue, for every interval length, every tolerance, every       *)
(* traffic and every end of the run: link_utilization_compressed.csv       *)
(* covers the run without a gap, the incomplete last interval included,    *)
(* and each line states the time the transmitter was on in it.             *)
(***************************************************************************)
THEOREM LaserPtopFileIsTrue == Spec => []PtopFileIsTrue
<1>1. Init => IInv /\ SlotsInv /\ FilesInv
  BY AccountingInitially, SlotsInitially, FilesInitially
<1>2. IInv /\ SlotsInv /\ FilesInv /\ [Next]_vars => (IInv /\ SlotsInv /\ FilesInv)'
  BY AccountingPreserved, SlotsPreserved, FilesPreserved
<1>3. ASSUME IInv, SlotsInv, FilesInv PROVE PtopFileIsTrue
  <2> SUFFICES ASSUME finalized, NEW d \in Device
               PROVE  /\ Tile(ptopFile[d], endTime)
                      /\ \A l \in ptopFile[d] : l.busy = BusyTime(d, l.from, l.to)
    BY Zenon DEF PtopFileIsTrue
  <2> PICK S : S = busySlots[d] OBVIOUS
  <2> PICK ivs : ivs = PtopIntervals(tracker[d], endTime) OBVIOUS
  <2>1. S \in SUBSET Nat /\ Tracks(tracker[d], S) BY <1>3, Zenon DEF SlotsInv
  <2>2. TrackerConsistent(tracker[d]) BY <1>3 DEF IInv, TrackersInv
  <2>3. tracker[d].prev = endTime /\ ptopFile[d] = PtopFile(ivs, Resolution)
    BY <1>3 DEF FilesInv
  <2>4. Chain(ivs, S) /\ endTime = IF Len(ivs) = 0 THEN 0 ELSE ivs[Len(ivs)].to
    BY <2>1, <2>2, <2>3, PtopIntervalsChain
  <2>5. Tile(ptopFile[d], endTime) BY <2>1, <2>3, <2>4, PtopLinesTile
  <2>6. ASSUME NEW l \in ptopFile[d] PROVE l.busy = BusyTime(d, l.from, l.to)
    <3>1. l.busy = Count(S, l.from, l.to) BY <2>1, <2>3, <2>4, PtopFileLines
    <3> QED BY <3>1 DEF BusyTime, Count, In
  <2> QED BY <2>5, <2>6
<1> QED BY <1>1, <1>2, <1>3, PTL DEF Spec
-----------------------------------------------------------------------------
(***************************************************************************)
(* Types and limits.                                                       *)
(***************************************************************************)
LEMMA ClockStaysBelowEnd ==
    ASSUME TypeOK, NEW t \in Nat, t <= endTime, AdvanceTo(t)
    PROVE  now' <= endTime' /\ busySlots' \in [Device -> SUBSET (0..endTime')]
<1>1. endTime \in Nat /\ now \in Nat BY LaserAssumption DEF TypeOK, MachineTypeOK
<1>2. now' = t /\ endTime' = endTime BY DEF AdvanceTo
<1>3. {s \in now..t : s < t} \subseteq 0..endTime BY <1>1
<1>4. busySlots' \in [Device -> SUBSET (0..endTime)]
  <2>1. busySlots \in [Device -> SUBSET (0..endTime)] BY DEF TypeOK
  <2> QED BY <1>3, <2>1, Zenon DEF AdvanceTo
<1> QED BY <1>2, <1>4

(* A queue loses its first packet and gains a last one. *)
LEMMA QueueLengths ==
    ASSUME NEW S, NEW s \in Seq(S), NEW x \in S
    PROVE  /\ Len(s) \in Nat /\ Len(Append(s, x)) = Len(s) + 1
           /\ Len(Tail(Append(s, x))) = Len(s)
           /\ s # <<>> => Len(Tail(s)) <= Len(s)
OBVIOUS

(* What the collection of the results writes. *)
LEMMA FilesAreLines ==
    ASSUME NEW f, TrackerConsistent(f), NEW S \in SUBSET Nat, Tracks(f, S)
    PROVE  /\ IslFile(LaserIntervals(f)) \subseteq Line
           /\ PtopFile(PtopIntervals(f, f.prev), Resolution) \subseteq Line
<1>1. f \in Tracker /\ f.done \in Seq(Nat) BY DEF TrackerConsistent, Tracker
<1>2. ASSUME NEW l \in LinesOf(f.done) PROVE l \in Line
  <2>1. PICK j \in Changes(f.done) :
          /\ j \in 1..Len(f.done) /\ BreakBefore(Changes(f.done), j) \in Nat
          /\ l = [from |-> BreakBefore(Changes(f.done), j) * Interval, to |-> j * Interval,
                  busy |-> f.done[j]]
    BY <1>1, LineFacts
  <2>2. f.done[j] \in Nat BY <1>1, <2>1
  <2>3. BreakBefore(Changes(f.done), j) * Interval \in Nat /\ j * Interval \in Nat
    BY <2>1, IntervalAssumption, Multiples
  <2> QED BY <2>1, <2>2, <2>3 DEF Line
<1>3. PICK ivs : ivs = PtopIntervals(f, f.prev) OBVIOUS
<1>4. Chain(ivs, S) BY <1>3, PtopIntervalsChain
<1>5. ASSUME NEW l \in PtopFile(ivs, Resolution) PROVE l \in Line
  <2> DEFINE B == PtopBreaks(ivs, Resolution)
             from(j) == Left(ivs, B, j)
  <2>1. PICK j \in B : l = [from |-> from(j), to |-> ivs[j].to,
                            busy |-> Count(S, from(j), ivs[j].to)]
    <3>1. PtopFile(ivs, Resolution) =
             {[from |-> from(j), to |-> ivs[j].to, busy |-> Count(S, from(j), ivs[j].to)] : j \in B}
      BY <1>4, PtopFileLines
    <3> HIDE DEF B, from
    <3> QED BY <3>1
  <2>2. B \in SUBSET (1..Len(ivs)) BY <1>4, PtopFileLines
  <2>3. from(j) \in Nat
    <3> HIDE DEF B
    <3> QED BY <1>4, <2>2, LeftFacts
  <2>4. ivs[j].to \in Nat BY <1>4, <2>2 DEF Chain
  <2>5. Count(S, from(j), ivs[j].to) \in Nat BY <2>3, <2>4, CountFinite
  <2> HIDE DEF from
  <2> QED BY <2>1, <2>3, <2>4, <2>5 DEF Line
<1> QED BY <1>1, <1>2, <1>3, <1>5, IslFileLines

LEMMA TypesPreserved == IInv /\ SlotsInv /\ TypeOK /\ [Next]_vars => TypeOK'
<1> SUFFICES ASSUME IInv, SlotsInv, TypeOK, [Next]_vars PROVE TypeOK' OBVIOUS
<1>0. MachineTypeOK' BY AccountingPreserved DEF IInv
<1>1. /\ endTime \in Nat /\ now \in Nat
      /\ m_queue \in [Device -> Seq(TxTimes)] /\ MaxQueueSize \in Nat
      /\ \A d \in Device : Len(m_queue[d]) <= MaxQueueSize
      /\ completions \subseteq [ts : Nat, dev : Device]
      /\ arrivals \subseteq [ts : Nat, dev : Device, start : Nat]
      /\ islFile \in [Device -> SUBSET Line] /\ ptopFile \in [Device -> SUBSET Line]
  BY LaserAssumption DEF TypeOK, MachineTypeOK
<1>2. ASSUME NEW d \in Device, NEW tx \in TxTimes, NEW t \in 0..endTime, t < endTime, Send(d, tx, t)
      PROVE  TypeOK'
  <2>1. now' <= endTime' /\ busySlots' \in [Device -> SUBSET (0..endTime')]
    <3>1. t \in Nat /\ t <= endTime /\ AdvanceTo(t) BY <1>1, <1>2 DEF Send
    <3> QED BY <3>1, ClockStaysBelowEnd
  <2>2. UNCHANGED <<islFile, ptopFile>> BY <1>2 DEF Send, resultVars
  <2>3. \A c \in Device : Len(m_queue'[c]) <= MaxQueueSize
    <3>0. m_queue[d] \in Seq(TxTimes) BY <1>1
    <3>1. CASE SendDrop(d) BY <1>1, <3>1 DEF SendDrop
    <3>2. CASE SendEnqueue(d, tx)
      <4>1. Len(m_queue[d]) < MaxQueueSize /\ m_queue' = [m_queue EXCEPT ![d] = Append(@, tx)]
        BY <3>2 DEF SendEnqueue
      <4>2. Len(Append(m_queue[d], tx)) <= MaxQueueSize BY <1>1, <3>0, <4>1, QueueLengths
      <4> QED BY <1>1, <4>1, <4>2
    <3>3. CASE SendNow(d, tx, t)
      <4>1. m_queue' = [m_queue EXCEPT ![d] = Tail(Append(m_queue[d], tx))]
        BY <3>3 DEF SendNow
      <4>2. Len(Tail(Append(m_queue[d], tx))) <= MaxQueueSize BY <1>1, <3>0, QueueLengths
      <4> QED BY <1>1, <4>1, <4>2
    <3> QED BY <1>2, <3>1, <3>2, <3>3 DEF Send
  <2> QED BY <1>0, <1>1, <2>1, <2>2, <2>3 DEF TypeOK
<1>3. ASSUME NEW e \in completions, TransmitComplete(e) PROVE TypeOK'
  <2>0. e.ts \in Nat /\ e.dev \in Device BY <1>1
  <2>1. now' <= endTime' /\ busySlots' \in [Device -> SUBSET (0..endTime')]
    <3>1. e.ts <= endTime /\ AdvanceTo(e.ts) BY <1>1, <1>3, <2>0 DEF TransmitComplete
    <3> QED BY <2>0, <3>1, ClockStaysBelowEnd
  <2>2. UNCHANGED <<islFile, ptopFile>> BY <1>3 DEF TransmitComplete, resultVars
  <2>3. \A c \in Device : Len(m_queue'[c]) <= MaxQueueSize
    <3>1. \/ m_queue' = m_queue
          \/ m_queue[e.dev] # <<>> /\ m_queue' = [m_queue EXCEPT ![e.dev] = Tail(@)]
      BY <1>3 DEF TransmitComplete, TransmitCompleteIdle, TransmitCompleteNext
    <3>2. CASE m_queue' = m_queue BY <1>1, <3>2
    <3>3. CASE m_queue[e.dev] # <<>> /\ m_queue' = [m_queue EXCEPT ![e.dev] = Tail(@)]
      <4>1. m_queue[e.dev] \in Seq(TxTimes) /\ Len(m_queue[e.dev]) <= MaxQueueSize
        BY <1>1, <2>0
      <4>2. Len(Tail(m_queue[e.dev])) <= Len(m_queue[e.dev]) /\ Len(Tail(m_queue[e.dev])) \in Nat
        BY <3>3, <4>1
      <4>3. Len(m_queue[e.dev]) \in Nat BY <4>1
      <4>4. Len(Tail(m_queue[e.dev])) <= MaxQueueSize BY <1>1, <4>1, <4>2, <4>3
      <4> QED BY <1>1, <2>0, <3>3, <4>4
    <3> QED BY <3>1, <3>2, <3>3
  <2> QED BY <1>0, <1>1, <2>1, <2>2, <2>3 DEF TypeOK
<1>4. ASSUME NEW e \in arrivals, Receive(e) PROVE TypeOK'
  <2>0. e.ts \in Nat BY <1>1
  <2>1. now' <= endTime' /\ busySlots' \in [Device -> SUBSET (0..endTime')]
    <3>1. e.ts <= endTime /\ AdvanceTo(e.ts) BY <1>1, <1>4, <2>0 DEF Receive
    <3> QED BY <2>0, <3>1, ClockStaysBelowEnd
  <2>2. UNCHANGED <<islFile, ptopFile, m_queue>> BY <1>4 DEF Receive, resultVars
  <2> QED BY <1>0, <1>1, <2>1, <2>2 DEF TypeOK
<1>5. ASSUME CollectUtilizationStatistics PROVE TypeOK'
  <2>0. AdvanceTo(endTime) /\ ~finalized /\ m_queue' = m_queue /\ endTime' = endTime
    BY <1>5 DEF CollectUtilizationStatistics, AdvanceTo
  <2>1. now' <= endTime' /\ busySlots' \in [Device -> SUBSET (0..endTime')]
    BY <1>1, <2>0, ClockStaysBelowEnd
  <2>2. islFile' \in [Device -> SUBSET Line] /\ ptopFile' \in [Device -> SUBSET Line]
    <3> DEFINE f(d) == Finalized(tracker[d], endTime)
    <3>1. /\ islFile' = [d \in Device |-> IslFile(LaserIntervals(f(d)))]
          /\ ptopFile' = [d \in Device |-> PtopFile(PtopIntervals(f(d), endTime), Resolution)]
      BY <1>5 DEF CollectUtilizationStatistics
    <3>2. ASSUME NEW d \in Device
          PROVE  /\ IslFile(LaserIntervals(f(d))) \subseteq Line
                 /\ PtopFile(PtopIntervals(f(d), endTime), Resolution) \subseteq Line
      <4>1. tracker[d].on \in BOOLEAN BY DEF IInv, MachineTypeOK, Tracker
      <4>2. (~tracker[d].on) \in BOOLEAN /\ tracker[d].on = ~(~tracker[d].on) BY <4>1
      <4>3. /\ TrackerConsistent(f(d)) /\ f(d).prev = endTime
            /\ Tracks(f(d), busySlots'[d])
        BY <1>1, <2>0, <4>2, ReportTracks DEF Finalized
      <4>4. busySlots'[d] \in SUBSET Nat BY <1>1, <2>0, SlotsLater
      <4> QED BY <4>3, <4>4, FilesAreLines
    <3> HIDE DEF f
    <3> QED BY <3>1, <3>2
  <2> QED BY <1>0, <1>1, <2>0, <2>1, <2>2 DEF TypeOK
<1>6. CASE UNCHANGED vars
  BY <1>0, <1>6 DEF TypeOK, vars
<1> QED BY <1>2, <1>3, <1>4, <1>5, <1>6 DEF Next

(***************************************************************************)
(* TypeOK, for every number of packets and every queue limit: no queue is  *)
(* ever longer than the DropTail limit, nothing happens after the end of   *)
(* the simulation, and the files hold lines.                               *)
(***************************************************************************)
THEOREM LaserTypeOK == Spec => []TypeOK
<1>1. Init => IInv /\ SlotsInv /\ TypeOK
  <2> SUFFICES ASSUME Init PROVE TypeOK BY AccountingInitially, SlotsInitially
  <2>1. MachineTypeOK BY AccountingInitially DEF IInv
  <2>2. /\ endTime \in Nat /\ now = 0 /\ m_queue = [d \in Device |-> <<>>]
        /\ islFile = [d \in Device |-> {}] /\ ptopFile = [d \in Device |-> {}]
        /\ busySlots = [d \in Device |-> {}]
    BY LaserAssumption DEF Init
  <2>3. Len(<<>>) = 0 /\ 0 <= MaxQueueSize BY LaserAssumption
  <2> QED BY <2>1, <2>2, <2>3 DEF TypeOK
<1>2. IInv /\ SlotsInv /\ TypeOK /\ [Next]_vars => (IInv /\ SlotsInv /\ TypeOK)'
  BY AccountingPreserved, SlotsPreserved, TypesPreserved
<1> QED BY <1>1, <1>2, PTL DEF Spec
=============================================================================
