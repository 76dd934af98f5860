------------------------- MODULE UtilizationTracker -------------------------
(***************************************************************************)
(* The link utilization tracker, as operators on its state: the one built  *)
(* into PointToPointLaserNetDevice and PtopLinkUtilizationTracker, which   *)
(* listens to the PhyTxBegin and PhyTxEnd traces of a point-to-point       *)
(* device, run the same code and differ in what they finally return.       *)
(*                                                                         *)
(* Time is cut into intervals of equal length; for every interval that is  *)
(* over the tracker keeps how long the transmitter was on during it.       *)
(***************************************************************************)
EXTENDS Naturals, Sequences, FiniteSetsExt

CONSTANT Interval     \* m_interval_ns

ASSUME IntervalAssumption == Interval \in Nat \ {0}

(* Both classes start at time 0, idle, in the first interval.              *)
NewTracker ==
    [prev |-> 0,          \* m_prev_time_ns: the time everything is counted up to
     start |-> 0,         \* m_current_interval_start
     end |-> Interval,    \* m_current_interval_end
     idle |-> 0,          \* m_idle_time_counter_ns
     busy |-> 0,          \* m_busy_time_counter_ns
     on |-> FALSE,        \* m_current_state_is_on
     done |-> <<>>]       \* busy time of each interval that is over

(* How often the loop of TrackUtilization runs at time t. *)
Rounds(tr, t) == IF t < tr.end THEN 0 ELSE (t - tr.end) \div Interval + 1

(* The counters after crediting the time up to t to the state that ends.   *)
IdleUpTo(tr, nextOn, t) == IF nextOn THEN tr.idle + (t - tr.prev) ELSE tr.idle
BusyUpTo(tr, nextOn, t) == IF nextOn THEN tr.busy ELSE tr.busy + (t - tr.prev)

(* Busy times of the n intervals that ended since the last call: the first *)
(* completes the counters, during the others nothing changed.              *)
EndedIntervals(tr, nextOn, n) ==
    [i \in 1..n |-> IF i = 1 THEN BusyUpTo(tr, nextOn, tr.end)
                    ELSE IF nextOn THEN 0 ELSE Interval]

(* Mutant of AfterIntervals: the counters are carried into the next interval. *)
AfterIntervalsKeepsCounters(tr, nextOn, n) ==
    IF n = 0 THEN tr
    ELSE [tr EXCEPT !.prev = tr.end + (n - 1) * Interval,
                    !.start = tr.start + n * Interval,
                    !.end = tr.end + n * Interval,
                    !.done = @ \o EndedIntervals(tr, nextOn, n)]

(* The tracker when the loop is over: at the start of a fresh interval.    *)
AfterIntervals(tr, nextOn, n) ==
    IF n = 0 THEN tr
    ELSE [tr EXCEPT !.prev = tr.end + (n - 1) * Interval,
                    !.start = tr.start + n * Interval,
                    !.end = tr.end + n * Interval,
                    !.idle = 0,
                    !.busy = 0,
                    !.done = @ \o EndedIntervals(tr, nextOn, n)]

(* Mutant of TrackUtilization: credits the state that begins. *)
TrackUtilizationNewState(tr, nextOn, t) ==
    LET tr2 == AfterIntervals(tr, ~nextOn, Rounds(tr, t))
    IN  [tr2 EXCEPT !.idle = IdleUpTo(tr2, ~nextOn, t),
                    !.busy = BusyUpTo(tr2, ~nextOn, t),
                    !.on = nextOn,
                    !.prev = t]

TrackUtilization(tr, nextOn, t) ==
    LET tr2 == AfterIntervals(tr, nextOn, Rounds(tr, t))
    IN  [tr2 EXCEPT !.idle = IdleUpTo(tr2, nextOn, t),
                    !.busy = BusyUpTo(tr2, nextOn, t),
                    !.on = nextOn,
                    !.prev = t]

(* The check in the loop, "Not all time is accounted for", fails. *)
TimeUnaccounted(tr, nextOn, t) ==
    /\ Rounds(tr, t) > 0
    /\ IdleUpTo(tr, nextOn, tr.end) + BusyUpTo(tr, nextOn, tr.end) # Interval

(* FinalizeUtilization ends whatever state the transmitter is in.          *)
Finalized(tr, t) == TrackUtilization(tr, ~tr.on, t)

(* What PointToPointLaserNetDevice returns of its finalized tracker: the   *)
(* intervals that are over.                                                *)
LaserIntervals(f) ==
    [i \in 1..Len(f.done) |->
        [from |-> (i - 1) * Interval, to |-> i * Interval, busy |-> f.done[i]]]

(* PtopLinkUtilizationTracker adds the part of the last interval that has  *)
(* passed at the time t of the call.                                       *)
PtopIntervals(f, t) ==
    LaserIntervals(f) \o
        (IF t # f.start THEN <<[from |-> f.start, to |-> t, busy |-> f.busy]>> ELSE <<>>)

(***************************************************************************)
(* The compressed files: a line is written for the last interval and for   *)
(* each one that differs from the next.  It covers everything since the    *)
(* line before.                                                            *)
(***************************************************************************)
(* interval_left_side_ns when interval j is reached. *)
LeftSide(intervals, breaks, j) ==
    LET before == {k \in breaks : k < j}
    IN  IF before = {} THEN 0 ELSE intervals[Max(before)].to

(* The intervals of isl_utilization.csv after which a line is written. *)
IslBreaks(intervals) ==
    {j \in 1..Len(intervals) :
        j = Len(intervals) \/ intervals[j].busy # intervals[j + 1].busy}

(* Mutant of IslFile: the line gets the utilization of the next interval. *)
IslFileNext(intervals) ==
    LET breaks == IslBreaks(intervals)
    IN  {[from |-> LeftSide(intervals, breaks, j), to |-> intervals[j].to,
          busy |-> intervals[Min({j + 1, Len(intervals)})].busy] : j \in breaks}

(* isl_utilization.csv: intervals of equal utilization share a line, which *)
(* gives the utilization of one of them.                                   *)
IslFile(intervals) ==
    LET breaks == IslBreaks(intervals)
    IN  {[from |-> LeftSide(intervals, breaks, j), to |-> intervals[j].to,
          busy |-> intervals[j].busy] : j \in breaks}

(* The utilizations of two intervals are at least 1 / Resolution apart.    *)
Apart(i, k, resolution) ==
    LET len(x) == x.to - x.from
        a == i.busy * len(k)
        b == k.busy * len(i)
    IN  (Max({a, b}) - Min({a, b})) * resolution >= len(i) * len(k)

(* The intervals of the compressed file after which a line is written. *)
PtopBreaks(intervals, resolution) ==
    {j \in 1..Len(intervals) :
        j = Len(intervals) \/ Apart(intervals[j], intervals[j + 1], resolution)}

(* Mutant of PtopFile: the running sum is not set back after a line. *)
PtopFileRunningSum(intervals, resolution) ==
    LET breaks == PtopBreaks(intervals, resolution)
    IN  {[from |-> LeftSide(intervals, breaks, j), to |-> intervals[j].to,
          busy |-> MapThenSumSet(LAMBDA i : intervals[i].busy, 1..j)] : j \in breaks}

(* link_utilization_compressed.csv: intervals of about the same utilization *)
(* share a line, which gives their busy time together.                     *)
PtopFile(intervals, resolution) ==
    LET breaks == PtopBreaks(intervals, resolution)
        left(j) == LeftSide(intervals, breaks, j)
    IN  {[from |-> left(j), to |-> intervals[j].to,
          busy |-> MapThenSumSet(LAMBDA i : intervals[i].busy,
                                 {i \in 1..j : intervals[i].from >= left(j)})] :
            j \in breaks}
=============================================================================
