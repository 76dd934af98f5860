---------------------------- MODULE MCEcmpRouting ----------------------------
(* All graphs of four nodes with up to four edges and two of five, whose   *)
(* paths and rings do not follow the node numbers; one with more nodes     *)
(* than routing takes and one whose queues wrap; single and mapped link    *)
(* properties; and files that are refused, or leave nodes unconnected.     *)
EXTENDS EcmpRouting

MCInt64Of ==
    ("-1" :> -1) @@ ("0" :> 0) @@ ("00" :> 0) @@ ("1" :> 1) @@ ("01" :> 1) @@ ("2" :> 2) @@
    ("3" :> 3) @@ ("4" :> 4) @@ ("5" :> 5) @@ ("6" :> 6) @@ ("60" :> 60)

Text == <<"0", "1", "2", "3", "4", "5", "6">>
T(n) == Text[n + 1]
Seq0(S) == CHOOSE s \in [1..Cardinality(S) -> S] : SetOf(s) = S
Numbers(lo, hi) == [i \in 1..(hi - lo + 1) |-> T(lo + i - 1)]
All(text) == [map |-> FALSE, text |-> text]
Map(entries) == [map |-> TRUE, entries |-> entries]
Q(size) == [unit |-> "p", size |-> size]

(* n switches, all of them ToRs, with edges as a sequence of pairs. *)
File(n, edges) ==
    ("num_nodes" :> T(n)) @@ ("num_undirected_edges" :> T(Len(edges))) @@
    ("switches" :> Numbers(0, n - 1)) @@ ("switches_which_are_tors" :> Numbers(0, n - 1)) @@
    ("servers" :> <<>>) @@ ("undirected_edges" :> [i \in DOMAIN edges |-> <<T(edges[i][1]), T(edges[i][2])>>]) @@
    ("link_channel_delay_ns" :> All("3")) @@ ("link_device_data_rate_megabit_per_s" :> All("1")) @@
    ("link_device_queue" :> All(Q("2"))) @@ ("link_interface_traffic_control_qdisc" :> All("disabled"))

EdgeSets(n) == SUBSET {<<a, b>> \in (0..(n - 1)) \X (0..(n - 1)) : a < b}
SmallFiles == {File(4, Seq0(E)) : E \in {E \in EdgeSets(4) : Cardinality(E) <= 4}}

Path5 == File(5, <<<<0, 3>>, <<3, 4>>, <<2, 4>>, <<1, 2>>>>)
Ring5 == File(5, <<<<0, 3>>, <<1, 3>>, <<1, 4>>, <<2, 4>>, <<0, 2>>>>)
Path6 == File(6, <<<<0, 3>>, <<3, 4>>, <<2, 4>>, <<1, 2>>, <<1, 5>>>>)
LongQueues == ("link_device_queue" :> All(Q("60"))) @@ File(3, <<<<0, 1>>, <<1, 2>>>>)
Mapped(k1, k2, value) == <<<<T(k1), T(k2)>>, value>>

(* Two servers below two ToRs, properties in maps. *)
Servers4 ==
    ("servers" :> <<"2", "3">>) @@ ("switches" :> <<"0", "1">>) @@
    ("switches_which_are_tors" :> <<"1", "0">>) @@
    ("link_channel_delay_ns" :> Map(<<Mapped(0, 1, "1"), Mapped(0, 2, "0"), Mapped(1, 3, "3")>>)) @@
    ("link_device_data_rate_megabit_per_s" :>
        Map(<<Mapped(0, 1, "2"), Mapped(1, 0, "1"), Mapped(0, 2, "1"), Mapped(2, 0, "2"),
              Mapped(1, 3, "2"), Mapped(3, 1, "2")>>)) @@
    ("link_device_queue" :>
        Map(<<Mapped(0, 1, Q("3")), Mapped(1, 0, Q("1")), Mapped(0, 2, Q("2")), Mapped(2, 0, Q("1")),
              Mapped(1, 3, [unit |-> "B", size |-> "2"]), Mapped(3, 1, Q("1"))>>)) @@
    File(4, <<<<0, 1>>, <<0, 2>>, <<1, 3>>>>)
AllEndpoints == ("all_nodes_are_endpoints" :> "true") @@ Servers4

(* The rates in a map that covers only one direction, or names an edge     *)
(* twice.                                                                  *)
Rates(entries) == ("link_device_data_rate_megabit_per_s" :> Map(entries)) @@
                  File(4, <<<<0, 1>>, <<0, 2>>, <<1, 3>>>>)
HalfMap == Rates(<<Mapped(0, 1, "2"), Mapped(0, 2, "1"), Mapped(1, 3, "2")>>)
TwiceMap == Rates(<<Mapped(0, 1, "2"), Mapped(1, 0, "1"), Mapped(0, 2, "1"), Mapped(2, 0, "2"),
                    Mapped(1, 3, "2"), <<<<"01", "3">>, "2">>>>)
Refused == {
    HalfMap, TwiceMap,
    ("undirected_edges" :> <<<<"0", "1">>, <<"00", "1">>, <<"1", "3">>>>) @@ Servers4,
    ("servers" :> <<"2", "3", "00">>) @@ Servers4,
    ("switches_which_are_tors" :> <<"1">>) @@ Servers4,
    ("num_nodes" :> "5") @@ Servers4,
    ("link_device_queue" :> All(Q("0"))) @@ Servers4,
    ("colour" :> "0") @@ Servers4 }

MCFiles == SmallFiles \cup Refused \cup {Path5, Path6, Ring5, LongQueues, Servers4, AllEndpoints}
=============================================================================
