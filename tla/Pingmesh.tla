------------------------------ MODULE Pingmesh ------------------------------
(***************************************************************************)
(* Pings between endpoints: PingmeshScheduler installs a UdpRttServer on   *)
(* every endpoint and one UdpRttClient per pair, spread over the interval. *)
(* A client sends a request each interval, whether or not the ones before  *)
(* were answered; the network may lose, delay and reorder packets.         *)
(***************************************************************************)
EXTENDS EventList, Integers, Sequences, FiniteSets

CONSTANTS
    EndpointSets,  \* the endpoints of the topology (node identifiers)
    PairSets,      \* the choices of pairs, by pingmesh_endpoint_pairs
    Intervals,     \* pingmesh_interval_ns
    EndTimes,      \* simulation_end_time_ns
    Delay          \* time a packet spends in the network

Pairs(nodes) == {p \in nodes \X nodes : p[1] # p[2]}

ASSUME PingAssumption ==
    /\ \A nodes \in EndpointSets : nodes \subseteq Nat /\ IsFiniteSet(nodes) /\ nodes # {}
    /\ Intervals \subseteq Nat \ {0} /\ EndTimes \subseteq Nat /\ Delay \subseteq Nat

VARIABLES
    endpoints,     \* the endpoints of this run
    pairs,         \* m_pingmesh_endpoint_pairs
    interval,      \* m_interval_ns
    endTime,       \* end of the run
    phase,         \* how far main has come, "failed" after an exception
    now,           \* Simulator::Now
    uid,           \* the number of the next event
    events,        \* pending events of the applications and the network
    stamps,        \* per pair, the three timestamps of each ping sent
    trips,         \* history: [pair, seq, there, back] of the answers that came
    results        \* the lines of pingmesh.csv, and of pingmesh.txt

config == <<endpoints, pairs, interval, endTime>>
vars == <<config, phase, now, uid, events, stamps, trips, results>>

Init ==
    /\ endpoints \in EndpointSets
    /\ pairs \in PairSets /\ pairs \subseteq Pairs(endpoints)
    /\ interval \in Intervals /\ endTime \in EndTimes
    /\ phase = "setup" /\ now = 0 /\ uid = 0 /\ events = {}
    /\ stamps = [p \in pairs |-> <<>>] /\ trips = {} /\ results = <<>>

(***************************************************************************)
(* The clients of one node start in order of their targets, a fraction of  *)
(* the interval apart.                                                     *)
(***************************************************************************)
InBetween == interval \div (Cardinality(endpoints) - 1)

(* The order the pairs are sorted in, and the clients started. *)
Earlier(p, q) == p[1] < q[1] \/ (p[1] = q[1] /\ p[2] < q[2])
Number(p) == Cardinality({q \in pairs : Earlier(q, p)})

(* Mutant of StartOf: the counter is not set back for the next source. *)
StartOfAll(p) == Number(p) * InBetween

StartOf(p) == Cardinality({q \in pairs : q[1] = p[1] /\ Earlier(q, p)}) * InBetween

(* The servers start before any request is sent, so they appear only by    *)
(* what they answer.  With one endpoint a division by zero ends the        *)
(* program.                                                                *)
InstallApplications ==
    /\ phase = "setup"
    /\ \/ /\ Cardinality(endpoints) > 1
          /\ phase' = "running"
          /\ events' = {[kind |-> "client", pair |-> p, ts |-> StartOf(p),
                         uid |-> Number(p)] : p \in pairs}
          /\ uid' = Cardinality(pairs)
       \/ /\ Cardinality(endpoints) = 1
          /\ phase' = "failed"
          /\ UNCHANGED <<uid, events>>
    /\ UNCHANGED <<config, now, stamps, trips, results>>

(***************************************************************************)
(* The events.                                                             *)
(***************************************************************************)
Take(e) ==
    /\ phase = "running" /\ Runs(e, events, endTime)
    /\ now' = e.ts
    /\ uid' = uid + 2
    /\ UNCHANGED <<config, phase, results>>

(* The network loses a packet or makes one of its arrivals happen. *)
Transmit(arrivals, others) ==
    events' = others \/ \E a \in arrivals : events' = others \cup {a}

(* A request carries its number and its time; ways is history. *)
Request(e) ==
    {[kind |-> "request", pair |-> e.pair, seq |-> Len(stamps[e.pair]), stamp |-> e.ts,
      ways |-> <<delay>>, ts |-> e.ts + delay, uid |-> uid] : delay \in Delay}

(* UdpRttServer::HandleRead puts the time of now into the packet. *)
Reply(e) ==
    {[kind |-> "reply", pair |-> e.pair, seq |-> e.seq, stamp |-> e.ts,
      ways |-> <<e.ways[1], delay>>, ts |-> e.ts + delay, uid |-> uid] : delay \in Delay}

StartApplication(e) ==
    /\ e.kind = "client" /\ Take(e)
    /\ events' = (events \ {e}) \cup
           {[kind |-> "send", pair |-> e.pair, ts |-> e.ts, uid |-> uid]}
    /\ UNCHANGED <<stamps, trips>>

Send(e) ==
    /\ e.kind = "send" /\ Take(e)
    /\ stamps' = [stamps EXCEPT ![e.pair] =
           Append(@, [request |-> e.ts, reply |-> -1, receive |-> -1])]
    /\ Transmit(Request(e), (events \ {e}) \cup
           {[kind |-> "send", pair |-> e.pair, ts |-> e.ts + interval, uid |-> uid + 1]})
    /\ UNCHANGED trips

Answer(e) ==
    /\ e.kind = "request" /\ Take(e)
    /\ Transmit(Reply(e), events \ {e})
    /\ UNCHANGED <<stamps, trips>>

(* Mutant of Recorded: the answer is taken for one to the last request. *)
RecordedAsLast(e) ==
    [stamps EXCEPT ![e.pair][Len(stamps[e.pair])] =
        [request |-> @.request, reply |-> e.stamp, receive |-> e.ts]]

(* The answer's timestamps go where its sequence number says.              *)
Recorded(e) ==
    [stamps EXCEPT ![e.pair][e.seq + 1] =
        [request |-> @.request, reply |-> e.stamp, receive |-> e.ts]]

(* UdpRttClient::HandleRead. *)
HandleRead(e) ==
    /\ e.kind = "reply" /\ Take(e)
    /\ stamps' = Recorded(e)
    /\ trips' = trips \cup {[pair |-> e.pair, seq |-> e.seq, there |-> e.ways[1], back |-> e.ways[2]]}
    /\ events' = events \ {e}

Stop ==
    /\ phase = "running" /\ NothingLeft(events, endTime)
    /\ phase' = "stopped" /\ now' = endTime
    /\ UNCHANGED <<config, uid, events, stamps, trips, results>>

(* A line of pingmesh.csv. *)
Row(s) ==
    IF s.reply # -1
    THEN [arrived |-> TRUE, there |-> s.reply - s.request, back |-> s.receive - s.reply]
    ELSE [arrived |-> FALSE, there |-> -1, back |-> -1]

WriteResults ==
    /\ phase = "stopped"
    /\ phase' = "written"
    /\ results' = [p \in pairs |-> [i \in DOMAIN stamps[p] |-> Row(stamps[p][i])]]
    /\ UNCHANGED <<config, now, uid, events, stamps, trips>>

RunEvent == \E e \in events :
    StartApplication(e) \/ Send(e) \/ Answer(e) \/ HandleRead(e)

Next == InstallApplications \/ RunEvent \/ Stop \/ WriteResults

Spec == Init /\ [][Next]_vars
-----------------------------------------------------------------------------
(***************************************************************************)
(* Correctness.                                                            *)
(***************************************************************************)
(***************************************************************************)
(* The latencies written for a ping are those of its own way there and its *)
(* own way back, however late, reordered or lost the other pings are; it   *)
(* counts as arrived exactly if its answer came before the end of the run. *)
(***************************************************************************)
RttIsRoundTrip ==
    phase = "written" =>
        \A p \in pairs : \A i \in DOMAIN results[p] :
            LET own == {t \in trips : t.pair = p /\ t.seq = i - 1}
                row == results[p][i]
            IN  IF own = {} THEN ~row.arrived
                ELSE own = {[pair |-> p, seq |-> i - 1, there |-> row.there, back |-> row.back]}

(***************************************************************************)
(* Each pair is pinged once in each interval, at the same place in it, to  *)
(* the end of the run; no node sends two pings at one time if there is     *)
(* room for all of them in the interval.                                   *)
(***************************************************************************)
PingsPaced ==
    /\ \A p \in pairs :
           /\ \A i \in DOMAIN stamps[p] :
                  /\ stamps[p][i].request = stamps[p][1].request + (i - 1) * interval
                  /\ stamps[p][i].request < i * interval
           /\ phase \in {"stopped", "written"} =>
                  IF stamps[p] = <<>> THEN endTime < interval
                  ELSE endTime <= stamps[p][Len(stamps[p])].request + interval
    /\ Cardinality(endpoints) <= interval + 1 =>
           \A p, q \in pairs : p # q /\ p[1] = q[1] =>
               \A i \in DOMAIN stamps[p], j \in DOMAIN stamps[q] :
                   stamps[p][i].request # stamps[q][j].request
=============================================================================
