------------------------ MODULE PtopLinkQueueTracker ------------------------
(***************************************************************************)
(* PtopLinkQueueTracker: it listens to the PacketsInQueue and BytesInQueue *)
(* trace sources of the DropTail queue of a point-to-point device and      *)
(* feeds two LogUpdateHelpers.  When the simulation is over the helper     *)
(* finalizes both and writes link_queue_pkt.csv and link_queue_byte.csv.   *)
(* The queue itself is the environment: the device may enqueue and dequeue *)
(* at any time, several times at one time too.                             *)
(***************************************************************************)
EXTENDS LogUpdateHelper, FiniteSetsExt

CONSTANTS Size,          \* packet sizes in bytes
          MaxQueueSize,  \* packets the queue holds
          EndTime        \* bound: the time the simulation stops at

ASSUME QueueTrackerAssumption ==
    Size \subseteq Nat \ {0} /\ MaxQueueSize \in Nat /\ EndTime \in Nat

VARIABLES
    now,        \* Simulator::Now
    queue,      \* the sizes of the packets in the queue
    pktLog,     \* m_log_update_helper_queue_pkt
    byteLog,    \* m_log_update_helper_queue_byte
    failed,     \* a LogUpdateHelper has thrown
    written,    \* the logs have been finalized and written
    pkts,       \* history: per unit of time, the packets in the queue in it
    bytes       \* history: per unit of time, the bytes in the queue in it

trackerVars == <<now, queue, pktLog, byteLog, failed, written, pkts, bytes>>

(* The bytes of a queue. *)
BytesIn(q) == MapThenSumSet(LAMBDA i : q[i], DOMAIN q)

(* The constructor calls Update(0, 0) on both helpers. *)
TrackerInit ==
    /\ now = 0 /\ queue = <<>>
    /\ pktLog = Updated(NewLog, 0, 0) /\ byteLog = Updated(NewLog, 0, 0)
    /\ failed = FALSE /\ written = FALSE
    /\ pkts = [t \in 0..EndTime |-> 0] /\ bytes = [t \in 0..EndTime |-> 0]

(* From time t on the history has the value v, until it changes again.     *)
FromOn(history, t, v) == [s \in DOMAIN history |-> IF s >= t THEN v ELSE history[s]]

(* The two callbacks, called at time t when the queue has become q. *)
Callbacks(q, t) ==
    /\ failed' = (InThePast(pktLog, t) \/ InThePast(byteLog, t))
    /\ pktLog' = Updated(pktLog, t, Len(q))
    /\ byteLog' = Updated(byteLog, t, BytesIn(q))
    /\ pkts' = FromOn(pkts, t, Len(q))
    /\ bytes' = FromOn(bytes, t, BytesIn(q))

(* The simulator stops before the other events of EndTime; updates at that *)
(* very time are admitted here all the same, as LogUpdateHelper admits     *)
(* them and its tests call it with them.                                   *)
Enqueue(size, t) ==
    /\ ~failed /\ ~written
    /\ now <= t /\ now' = t
    /\ Len(queue) < MaxQueueSize
    /\ queue' = Append(queue, size)
    /\ Callbacks(Append(queue, size), t)
    /\ UNCHANGED written

Dequeue(t) ==
    /\ ~failed /\ ~written
    /\ now <= t /\ now' = t
    /\ queue # <<>>
    /\ queue' = Tail(queue)
    /\ Callbacks(Tail(queue), t)
    /\ UNCHANGED written

(* WriteResults runs once, when the simulator has stopped at EndTime. *)
WriteResults ==
    /\ ~failed /\ ~written
    /\ now' = EndTime /\ written' = TRUE
    /\ failed' = (InThePast(pktLog, EndTime) \/ InThePast(byteLog, EndTime))
    /\ pktLog' = FinalizedLog(pktLog, EndTime)
    /\ byteLog' = FinalizedLog(byteLog, EndTime)
    /\ UNCHANGED <<queue, pkts, bytes>>

TrackerNext ==
    \/ \E size \in Size, t \in 0..EndTime : Enqueue(size, t)
    \/ \E t \in 0..EndTime : Dequeue(t)
    \/ WriteResults

TrackerSpec == TrackerInit /\ [][TrackerNext]_trackerVars
-----------------------------------------------------------------------------
(***************************************************************************)
(* Correctness.                                                            *)
(***************************************************************************)
LogState ==
    [log : Seq([from : Nat, to : Nat, value : Nat]),
     last : Nat, check : Nat, alpha : Nat,
     alphaValue : Nat \cup {None}, beta : Nat \cup {None}]

(* Every variable has its type. *)
TypeOK ==
    /\ now \in 0..EndTime
    /\ queue \in Seq(Size) /\ Len(queue) <= MaxQueueSize
    /\ pktLog \in LogState /\ byteLog \in LogState
    /\ failed \in BOOLEAN /\ written \in BOOLEAN
    /\ pkts \in [0..EndTime -> Nat] /\ bytes \in [0..EndTime -> Nat]

(* The intervals of a log follow one another without a gap, from 0 to end. *)
Chained(log, end) ==
    /\ log = <<>> <=> end = 0
    /\ \A i \in DOMAIN log :
           /\ log[i].from < log[i].to /\ log[i].to <= end
           /\ log[i].from = (IF i = 1 THEN 0 ELSE log[i - 1].to)
           /\ i = Len(log) => log[i].to = end

(* Every interval of a log has the value the history had in it. *)
Truthful(log, history) ==
    \A i \in DOMAIN log : \A t \in log[i].from..(log[i].to - 1) :
        history[t] = log[i].value

(* Neighbouring intervals differ in value. *)
Merged(log) ==
    \A i \in DOMAIN log : i > 1 => log[i].value # log[i - 1].value

(***************************************************************************)
(* A finalized log is the run-length encoding of the queue's history:      *)
(* whatever the order and the coincidence of the updates, its intervals    *)
(* cover the whole run, each value in it is the one the queue had in that  *)
(* time, and equal neighbours have been merged.                            *)
(***************************************************************************)
PktLogIsHistory ==
    written => /\ Chained(pktLog.log, EndTime)
               /\ Truthful(pktLog.log, pkts)
               /\ Merged(pktLog.log)

(* The same of the bytes, which change with packets of different sizes. *)
ByteLogIsHistory ==
    written => /\ Chained(byteLog.log, EndTime)
               /\ Truthful(byteLog.log, bytes)
               /\ Merged(byteLog.log)
=============================================================================
