----------------------------- MODULE EcmpRouting -----------------------------
(***************************************************************************)
(* A point-to-point network with ECMP routing: its links are installed one *)
(* by one, ArbiterEcmpHelper computes for all nodes the next hops towards  *)
(* each target, and a packet and its answer are routed by them.  Which     *)
(* next hop the hash of the five-tuple picks at a node is left open.       *)
(***************************************************************************)
EXTENDS TopologyPtop

CONSTANTS
    TopologyFiles,  \* the topology files given
    NodeIds,        \* node ids in a schedule, among them of no node
    MaxNodes        \* 40000: the most nodes ArbiterEcmpHelper takes

(* What of a file the constructor accepts before it installs anything. *)
TopologyAccepted(c) ==
    /\ ReadTopologyConfig(c)
    /\ ParseTopologyGraph(c)
    /\ ParseTopologyLinkProperties(c)

Infinite == 100000000

ASSUME NodesAssumption == MaxNodes \in Nat /\ MaxNodes < Infinite

(* The edges and the entries of a map are lists, and so are the texts      *)
(* between the dashes of an edge.  A size a queue is given fits into its   *)
(* uint32_t.                                                               *)
IsList(s) == DOMAIN s = 1..Len(s)
ASSUME FilesAssumption ==
    \A c \in TopologyFiles :
        /\ "undirected_edges" \in DOMAIN c =>
               /\ IsList(c["undirected_edges"])
               /\ \A e \in SetOf(c["undirected_edges"]) : IsList(e)
        /\ \A property \in LinkPropertyNames \cap DOMAIN c :
               c[property].map => IsList(c[property].entries)
        /\ TopologyAccepted(c) => \A l \in DOMAIN Queue(c) : Int64Of[Queue(c)[l].size] < UintSize

(* A rate may be any number, 0 and fractions too; the time a packet takes  *)
(* is reckoned here for rates that are whole numbers.                      *)
ASSUME RatesAssumption ==
    \A c \in TopologyFiles : TopologyAccepted(c) =>
        \A l \in DOMAIN DataRate(c) : DataRate(c)[l] \in parse_geq_one_int64

VARIABLES
    topology,       \* the file of this run
    phase,          \* how far main has come; "refused" after an exception,
                    \* "crashed" after an operation that has no meaning
    interfaces,     \* per node, the links its interfaces 1, 2, ... are of
    ifIdxs,         \* m_interface_idxs_for_edges
    dist, k,        \* the distance matrix and the loop of CalculateGlobalState
    candidates,     \* global_candidate_list, as sets
    packet          \* the packet under way, or what became of it

network == <<topology, interfaces, ifIdxs, dist, k, candidates>>
vars == <<network, phase, packet>>

(* m_undirected_edges, which is sorted. *)
Before(d, e) == d[1] < e[1] \/ (d[1] = e[1] /\ d[2] < e[2])
UndirectedEdges(c) ==
    [i \in 1..Cardinality(Edges(c)) |->
       CHOOSE e \in Edges(c) : Cardinality({d \in Edges(c) : Before(d, e)}) = i - 1]

NoPacket == [state |-> "none"]
Failed(at, target) == [state |-> "failed", at |-> at, target |-> target]

Init ==
    /\ topology \in TopologyFiles /\ phase = "parsing"
    /\ interfaces = <<>> /\ ifIdxs = <<>> /\ packet = NoPacket
    /\ dist = <<>> /\ k = 0 /\ candidates = <<>>

ParseTopology ==
    /\ phase = "parsing"
    /\ IF TopologyAccepted(topology)
       THEN phase' = "links" /\ interfaces' = [n \in Node(topology) |-> <<>>]
       ELSE phase' = "refused" /\ UNCHANGED interfaces
    /\ UNCHANGED <<topology, ifIdxs, dist, k, candidates, packet>>

(* SetupLinks, one edge: a device on either node, whose interface index is *)
(* the number of devices before it (0 is the loopback).  A property that   *)
(* lacks the edge or one of its links throws.                              *)
EdgesDone == Len(ifIdxs)
HasProperties(e) ==
    LET back == <<e[2], e[1]>>
    IN  /\ e \in DOMAIN Delay(topology)
        /\ {e, back} \subseteq DOMAIN DataRate(topology)
        /\ {e, back} \subseteq DOMAIN Queue(topology)
        /\ {e, back} \subseteq DOMAIN TcQdisc(topology)
SetupLink ==
    /\ phase = "links" /\ EdgesDone < Cardinality(Edges(topology))
    /\ LET i == EdgesDone + 1
           e == UndirectedEdges(topology)[i]
       IN  IF HasProperties(e)
           THEN /\ interfaces' = [n \in Node(topology) |->
                                    IF n \in {e[1], e[2]} THEN Append(interfaces[n], i)
                                    ELSE interfaces[n]]
                /\ ifIdxs' = Append(ifIdxs, <<Len(interfaces'[e[1]]), Len(interfaces'[e[2]])>>)
                /\ UNCHANGED phase
           ELSE phase' = "refused" /\ UNCHANGED <<interfaces, ifIdxs>>
    /\ UNCHANGED <<topology, dist, k, candidates, packet>>
-----------------------------------------------------------------------------
(* CalculateGlobalState: Floyd-Warshall, a step for each k.                *)
InitialDistance(c) ==
    [p \in Node(c) \X Node(c) |->
       IF p \in Links(c) THEN 1 ELSE IF p[1] = p[2] THEN 0 ELSE Infinite]

(* Mutant of StartDistances: the outer loop starts at 1. *)
StartDistancesAtOne ==
    /\ phase = "links" /\ EdgesDone = Cardinality(Edges(topology))
    /\ IF NumNodes(topology) > MaxNodes
       THEN phase' = "refused" /\ UNCHANGED <<dist, k>>
       ELSE phase' = "distances" /\ dist' = InitialDistance(topology) /\ k' = 1
    /\ UNCHANGED <<topology, interfaces, ifIdxs, candidates, packet>>

(* The matrix has an int32_t index for each pair of nodes. *)
StartDistances ==
    /\ phase = "links" /\ EdgesDone = Cardinality(Edges(topology))
    /\ IF NumNodes(topology) > MaxNodes
       THEN phase' = "refused" /\ UNCHANGED <<dist, k>>
       ELSE phase' = "distances" /\ dist' = InitialDistance(topology) /\ k' = 0
    /\ UNCHANGED <<topology, interfaces, ifIdxs, candidates, packet>>

(* The inner loops change the matrix in place; the entries of row and      *)
(* column k, which they also read, stay: <<k, k>> is 0.                    *)
RelaxAll ==
    /\ phase = "distances" /\ k < NumNodes(topology)
    /\ dist' = [p \in DOMAIN dist |->
                  LET via == dist[<<p[1], k>>] + dist[<<k, p[2]>>]
                  IN  IF dist[p] > via THEN via ELSE dist[p]]
    /\ k' = k + 1
    /\ UNCHANGED <<topology, phase, interfaces, ifIdxs, candidates, packet>>

(* Mutant of CandidatesOf: edges are only looked at from their left node. *)
CandidatesOfLeft(c, d) ==
    [a \in Node(c) |-> [t \in Node(c) |->
       {b \in AdjacencyList(c, a) : a < b /\ d[<<a, t>>] - 1 = d[<<b, t>>]}]]

(* Mutant of CandidatesOf: it is enough to get no farther away. *)
CandidatesOfNoFarther(c, d) ==
    [a \in Node(c) |-> [t \in Node(c) |->
       {b \in AdjacencyList(c, a) : d[<<a, t>>] >= d[<<b, t>>] /\ d[<<a, t>>] < Infinite}]]

(* For each link a -> b and target t: is b one closer? *)
CandidatesOf(c, d) ==
    [a \in Node(c) |-> [t \in Node(c) |->
       {b \in AdjacencyList(c, a) : d[<<a, t>>] - 1 = d[<<b, t>>]}]]

InstallArbiters ==
    /\ phase = "distances" /\ k = NumNodes(topology)
    /\ phase' = "running" /\ candidates' = CandidatesOf(topology, dist)
    /\ UNCHANGED <<topology, interfaces, ifIdxs, dist, k, packet>>
-----------------------------------------------------------------------------
(* m_neighbor_node_id_to_if_idx of node n. *)
InterfaceTo(n, m) ==
    LET i == CHOOSE e \in 1..EdgesDone : {n, m} = SetOf(UndirectedEdges(topology)[e])
    IN  IF UndirectedEdges(topology)[i][1] = n THEN ifIdxs[i][1] ELSE ifIdxs[i][2]

(* An address stands for an interface; every node knows whose it is.  What *)
(* leaves by an interface arrives at the other node of its link.           *)
Address(n, i) == [link |-> interfaces[n][i], node |-> n]
ResolveNodeIdFromIp(ip) == ip.node
OtherEnd(n, i) == CHOOSE m \in SetOf(UndirectedEdges(topology)[interfaces[n][i]]) : m # n

(* The longest a packet takes over a link: the queue has just been filled, *)
(* one frame is in transmission, and the packet waits in the qdisc until   *)
(* the queue has room for it.                                              *)
FullQueue(q) == IF q.unit = "p" THEN Int64Of[q.size] * FrameByte ELSE Int64Of[q.size]
LongestWait(q) == FrameByte + FullQueue(q) + FrameByte
LongestTime(a, b) ==
    LongestWait(Queue(topology)[<<a, b>>]) \div Int64Of[DataRate(topology)[<<a, b>>]]
    + Int64Of[Delay(topology)[IF a < b THEN <<a, b>> ELSE <<b, a>>]]

(* The next hops the hash of a five-tuple may pick; with none the hash is  *)
(* divided by zero.                                                        *)
TopologyPtopDecide(n, t) == candidates[n][t]

(* A packet at node n is on its way to an address. *)
Hop(n, next) ==
    LET m == OtherEnd(n, InterfaceTo(n, next))
    IN  packet' = [packet EXCEPT !.at = m, !.hops = @ + 1, !.spent = @ + LongestTime(n, m)]

Packet(from, source, destination, back) ==
    [state |-> "travels", from |-> from, at |-> from, source |-> source,
     destination |-> destination, back |-> back, hops |-> 0, spent |-> 0]

(* A flow of the schedule begins: the socket asks for the interface it     *)
(* gets its source address from.  The schedule's readers check the nodes   *)
(* with IsValidEndpoint.  A node without an interface has no address 1, no *)
(* next hop to choose from is a division by zero.                          *)
Send(s, t) ==
    /\ phase = "running" /\ packet = NoPacket
    /\ IF IsValidEndpoint(topology, s) /\ IsValidEndpoint(topology, t) /\ s # t
       THEN IF /\ {s, t} \subseteq Node(topology)
               /\ interfaces[t] # <<>>
               /\ TopologyPtopDecide(s, t) # {}
            THEN /\ \E next \in TopologyPtopDecide(s, t) :
                      packet' = Packet(s, Address(s, InterfaceTo(s, next)), Address(t, 1), FALSE)
                 /\ UNCHANGED phase
            ELSE phase' = "crashed" /\ packet' = Failed(s, t)
       ELSE phase' = "refused" /\ UNCHANGED packet
    /\ UNCHANGED network

(* RouteOutput of its node and RouteInput of those behind it. *)
Route ==
    /\ phase = "running" /\ packet.state = "travels"
    /\ LET t == ResolveNodeIdFromIp(packet.destination)
       IN  /\ packet.at # t
           /\ IF TopologyPtopDecide(packet.at, t) # {}
              THEN (\E next \in TopologyPtopDecide(packet.at, t) : Hop(packet.at, next)) /\ UNCHANGED phase
              ELSE phase' = "crashed" /\ packet' = Failed(packet.at, t)
    /\ UNCHANGED network

(* Local delivery.  The receiver answers to the source address. *)
Deliver ==
    /\ phase = "running" /\ packet.state = "travels"
    /\ packet.at = ResolveNodeIdFromIp(packet.destination)
    /\ IF packet.back
       THEN packet' = [packet EXCEPT !.state = "done"]
       ELSE packet' = [packet EXCEPT !.back = TRUE, !.from = packet.at, !.hops = 0,
                         !.source = packet.destination, !.destination = packet.source]
    /\ UNCHANGED <<network, phase>>

Next ==
    \/ ParseTopology \/ SetupLink \/ StartDistances \/ RelaxAll \/ InstallArbiters
    \/ \E s, t \in NodeIds : Send(s, t)
    \/ Route \/ Deliver

Spec == Init /\ [][Next]_vars
-----------------------------------------------------------------------------
(* Reference: the distance of two nodes by the nodes within h links.       *)
Within(c, a) ==
    LET W[h \in 0..NumNodes(c)] ==
          IF h = 0 THEN {a}
          ELSE LET near == W[h - 1] IN near \cup UNION {AdjacencyList(c, n) : n \in near}
    IN  W
Connected(c, a, b) == {a, b} \subseteq Node(c) /\ b \in Within(c, a)[NumNodes(c)]
Distance(c, a, b) == Lowest({h \in 0..NumNodes(c) : b \in Within(c, a)[h]})

(* When the first flow begins, the next hops of a node are those on        *)
(* shortest paths, all of them, and none where there is no path: the       *)
(* matrix is relaxed in place in the right order, and its infinity never   *)
(* counts as a distance.                                                   *)
CandidatesAreShortest ==
    phase = "running" /\ packet = NoPacket =>
        \A a, t \in Node(topology) :
          candidates[a][t] =
            IF Connected(topology, a, t)
            THEN {b \in AdjacencyList(topology, a) :
                    Distance(topology, b, t) + 1 = Distance(topology, a, t)}
            ELSE {}

(* Whatever the hash picks at each node, a packet and its answer get to    *)
(* the node they are for, over a shortest path: at every node they have    *)
(* come as far as they are nearer.                                         *)
RouteIsShortest ==
    packet.state \in {"travels", "done"} =>
        LET t == packet.destination.node
        IN  packet.hops + Distance(topology, packet.at, t) = Distance(topology, packet.from, t)

(* The links of an accepted topology are all installed: each property has  *)
(* a value for each of them, though only the number of values is checked.  *)
(* What is refused after its first link has all its links, and too many    *)
(* nodes for the routing, or is ready to run and has a schedule that does  *)
(* not fit.                                                                *)
SetupSucceeds ==
    phase = "refused" /\ interfaces # <<>> =>
        /\ EdgesDone = Cardinality(Edges(topology))
        /\ candidates = <<>> => NumNodes(topology) > MaxNodes

(* The program only gets to a meaningless operation (an empty list of      *)
(* candidates divides by its length, a node has no interface, or is not    *)
(* there) if a schedule names nodes without a path between them.           *)
FailsOnlyIfDisconnected ==
    phase = "crashed" => ~ Connected(topology, packet.at, packet.target)

(* The estimate TCP timeouts are made from is no smaller than a round trip *)
(* through full queues, on topologies of at most ten edges, on larger ones *)
(* it counts 20 hops, however long the paths are, and if what the queues   *)
(* hold does not wrap around in 32 bit.                                    *)
QueuesFit == \A l \in Links(topology) : LongestWait(Queue(topology)[l]) < UintSize
EstimateCoversRoundTrip ==
    packet.state = "done" /\ Cardinality(Edges(topology)) <= 10 /\ QueuesFit =>
        packet.spent <= EstimateWorstCaseRtt(topology)
=============================================================================
