---------------------------- MODULE TopologyPtop ----------------------------
(***************************************************************************)
(* The point-to-point topology: what of a topology file TopologyPtop       *)
(* accepts, and the graph, link properties and round trip estimate it      *)
(* makes of it.  A file is a function from its properties to their values: *)
(* a text, a sequence of texts for set(...), and for edges the texts       *)
(* between the dashes.                                                     *)
(***************************************************************************)
EXTENDS ExpUtil

CONSTANT
    UintSize   \* 2^32: the size of a queue, and what is reckoned with it, is
               \* a uint32_t

ASSUME WidthAssumption == UintSize \in Nat \ {0}

LinkPropertyNames == {"link_channel_delay_ns", "link_device_data_rate_megabit_per_s",
                   "link_device_queue", "link_interface_traffic_control_qdisc"}
Properties == {"num_nodes", "num_undirected_edges", "switches", "switches_which_are_tors",
               "servers", "undirected_edges", "all_nodes_are_endpoints"} \cup LinkPropertyNames

AllNodesAreEndpoints(c) ==
    "all_nodes_are_endpoints" \in DOMAIN c /\ BooleanOf(c["all_nodes_are_endpoints"])
ReadTopologyConfig(c) ==
    /\ DOMAIN c \subseteq Properties
    /\ "all_nodes_are_endpoints" \in DOMAIN c => c["all_nodes_are_endpoints"] \in parse_boolean
    /\ Properties \ {"all_nodes_are_endpoints"} \subseteq DOMAIN c   \* get_param_or_fail

NumNodes(c) == Int64Of[c["num_nodes"]]
Node(c) == 0..(NumNodes(c) - 1)
Ids(c, property) == {Int64Of[t] : t \in SetOf(c[property])}
Servers(c) == Ids(c, "servers")
Switches(c) == Ids(c, "switches")
Tors(c) == Ids(c, "switches_which_are_tors")
Pair(e) == <<Int64Of[e[1]], Int64Of[e[2]]>>
Edges(c) == {Pair(e) : e \in SetOf(c["undirected_edges"])}
Links(c) == Edges(c) \cup {<<e[2], e[1]>> : e \in Edges(c)}
AdjacencyList(c, n) == {m \in Node(c) : <<n, m>> \in Links(c)}

(* The same edge may be written with different texts: 0-1, 00-1. *)
IsPair(e) == Len(e) = 2 /\ SetOf(e) \subseteq parse_positive_int64
ParseEdges(c) ==
    LET texts == c["undirected_edges"]
    IN  /\ parse_set_string(texts)
        /\ \A e \in SetOf(texts) :
             /\ IsPair(e)
             /\ Pair(e)[1] # Pair(e)[2] /\ Pair(e)[1] < NumNodes(c) /\ Pair(e)[2] < NumNodes(c)
             /\ ~ Pair(e)[2] < Pair(e)[1]
        /\ Len(texts) = Int64Of[c["num_undirected_edges"]]
        /\ Len(texts) = Cardinality(Edges(c))

ParseTopologyGraph(c) ==
    /\ {c["num_nodes"], c["num_undirected_edges"]} \subseteq parse_positive_int64
    /\ \A property \in {"switches", "switches_which_are_tors", "servers"} :
         /\ parse_set_positive_int64(c[property])
         /\ \A id \in Ids(c, property) : ~ id >= NumNodes(c)   \* all_items_are_less_than
    /\ ParseEdges(c)
    /\ Servers(c) \cap Switches(c) = {}
    /\ Cardinality(Servers(c) \cup Switches(c)) = NumNodes(c)
    /\ Cardinality(Switches(c) \cap Tors(c)) = Cardinality(Tors(c))
    /\ \A n \in Servers(c) : AdjacencyList(c, n) \subseteq Tors(c)
-----------------------------------------------------------------------------
(* The value of a link property: one text for all, or map(...).  In a map  *)
(* every edge (every link) must be covered, which is checked by their      *)
(* number.                                                                 *)
Keys(entries) == {Pair(e[1]) : e \in SetOf(entries)}
ParseKeys(entries) ==
    /\ parse_map_string(entries)
    /\ \A e \in SetOf(entries) : IsPair(e[1])
    /\ \A i, j \in DOMAIN entries : Pair(entries[i][1]) = Pair(entries[j][1]) => i = j
ParseUndirectedEdgeMap(c, entries) ==
    /\ ParseKeys(entries)
    /\ \A k \in Keys(entries) : ~ k[2] < k[1] /\ k \in Edges(c)
    /\ Cardinality(Edges(c)) = Len(entries)

(* Mutant of ParseDirectedEdgeMap: one direction of each edge will do. *)
ParseDirectedEdgeMapHalf(c, entries) ==
    /\ ParseKeys(entries)
    /\ \A k \in Keys(entries) : k \in Links(c)
    /\ Cardinality(Edges(c)) = Len(entries)

ParseDirectedEdgeMap(c, entries) ==
    /\ ParseKeys(entries)
    /\ \A k \in Keys(entries) : IF k[1] < k[2] THEN k \in Edges(c) ELSE <<k[2], k[1]>> \in Edges(c)
    /\ Cardinality(Edges(c)) * 2 = Len(entries)

EntryOf(entries, k) == (CHOOSE e \in SetOf(entries) : Pair(e[1]) = k)[2]
LinkProperty(value, all) ==
    IF value.map THEN [k \in Keys(value.entries) |-> EntryOf(value.entries, k)]
                 ELSE [k \in all |-> value.text]

(* drop_tail(..p) or drop_tail(..B), as unit and size.  A qdisc is a name. *)
ParseQueueValue == [unit : {"p", "B"}, size : parse_geq_one_int64]
ParseTcQdiscValue == {"disabled", "default", "fq_codel_better_rtt"}

Delay(c) == LinkProperty(c["link_channel_delay_ns"], Edges(c))
DataRate(c) == LinkProperty(c["link_device_data_rate_megabit_per_s"], Links(c))
Queue(c) == LinkProperty(c["link_device_queue"], Links(c))
TcQdisc(c) == LinkProperty(c["link_interface_traffic_control_qdisc"], Links(c))

(* Each property is covered by its map, and all its values parse. *)
ValuesOf(value) == IF value.map THEN {e[2] : e \in SetOf(value.entries)} ELSE {value.text}
DirectedProperty(c, value, takes) ==
    (value.map => ParseDirectedEdgeMap(c, value.entries)) /\ ValuesOf(value) \subseteq takes
ParseLinkChannelDelayNsProperty(c) ==
    LET value == c["link_channel_delay_ns"]
    IN  (value.map => ParseUndirectedEdgeMap(c, value.entries)) /\ ValuesOf(value) \subseteq parse_positive_int64
ParseLinkDeviceDataRateMegabitPerSecProperty(c) ==
    DirectedProperty(c, c["link_device_data_rate_megabit_per_s"], parse_positive_double)
ParseLinkDeviceQueueProperty(c) == DirectedProperty(c, c["link_device_queue"], ParseQueueValue)
ParseLinkInterfaceTrafficControlQdiscProperty(c) ==
    DirectedProperty(c, c["link_interface_traffic_control_qdisc"], ParseTcQdiscValue)
ParseTopologyLinkProperties(c) ==
    /\ ParseLinkChannelDelayNsProperty(c)
    /\ ParseLinkDeviceDataRateMegabitPerSecProperty(c)
    /\ ParseLinkDeviceQueueProperty(c)
    /\ ParseLinkInterfaceTrafficControlQdiscProperty(c)
-----------------------------------------------------------------------------
(* A frame is 1502 byte; behind the queue there are one packet in the      *)
(* mandatory qdisc and one in transmission.  The product wraps around      *)
(* before it gets into the wider queue_size_byte.                          *)
FrameByte == 1502
QueueByte(q) ==
    IF q.unit = "p" THEN ((Int64Of[q.size] + 2) * FrameByte) % UintSize
                    ELSE (Int64Of[q.size] + 2 * FrameByte) % UintSize

Highest(S) == CHOOSE x \in S : \A y \in S : y <= x
Lowest(S) == CHOOSE x \in S : \A y \in S : x <= y

(* Mutant of EstimateWorstCaseRtt: the links of one way only. *)
EstimateOneWay(c) ==
    LET delay == Highest({0} \cup {Int64Of[Delay(c)[e]] : e \in Edges(c)})
        rate == Lowest({1000000} \cup {Int64Of[DataRate(c)[l]] : l \in Links(c)})
        byte == Highest({0} \cup {QueueByte(Queue(c)[l]) : l \in Links(c)})
    IN  Lowest({20, Cardinality(Edges(c))}) * (byte \div rate + delay)

(* In the time a byte takes at rate 1. *)
EstimateWorstCaseRtt(c) ==
    LET delay == Highest({0} \cup {Int64Of[Delay(c)[e]] : e \in Edges(c)})
        rate == Lowest({1000000} \cup {Int64Of[DataRate(c)[l]] : l \in Links(c)})
        byte == Highest({0} \cup {QueueByte(Queue(c)[l]) : l \in Links(c)})
    IN  Lowest({20, Cardinality(Edges(c)) * 2}) * (byte \div rate + delay)

(* GetEndpoints, and the check of a node a schedule names. *)
Endpoints(c) ==
    IF AllNodesAreEndpoints(c) THEN Node(c) ELSE IF Servers(c) = {} THEN Tors(c) ELSE Servers(c)
IsValidEndpoint(c, id) == AllNodesAreEndpoints(c) \/ id \in Endpoints(c)
=============================================================================
