---------------------------- MODULE MainPrograms ----------------------------
(***************************************************************************)
(* The two main programs, main_full for a point-to-point topology and      *)
(* main_satnet for a satellite network: their components in the order of   *)
(* construction and of writing results, each with the keys it requests,    *)
(* the files it removes and writes, whether it reads input files that it   *)
(* may refuse, and by which of its keys it repeats or tracks something.    *)
(***************************************************************************)
EXTENDS BasicSimulation

Flag(key) == {OrDefault(key, parse_boolean, "false")}
Always == {}
None == <<>>

(* repeats: the intervals after which an event of the component schedules  *)
(* itself again, but not under a flag in static; mayBeIdle: it may have no *)
(* such event; tracks: the intervals that a loop walks through.            *)
Timeless == [repeats |-> {}, static |-> {}, mayBeIdle |-> TRUE, tracks |-> {}]

TopologyPtop ==
    [flag |-> Always, keys |-> {OrFail("topology_ptop_filename", AnyText)},
     inputs |-> TRUE, removes |-> None, writes |-> None] @@ Timeless

PtopLinkUtilizationFiles ==
    <<"link_utilization.csv", "link_utilization_compressed.csv",
      "link_utilization_compressed.txt", "link_utilization_summary.txt">>
PtopLinkUtilizationTrackerHelper ==
    [flag |-> Flag("enable_link_utilization_tracking"),
     keys |-> {OrFail("link_utilization_tracking_interval_ns", parse_geq_one_int64)},
     inputs |-> FALSE,
     removes |-> PtopLinkUtilizationFiles, writes |-> PtopLinkUtilizationFiles] @@ Timeless

PtopLinkQueueFiles == <<"link_queue_pkt.csv", "link_queue_byte.csv">>
PtopLinkQueueTrackerHelper ==
    [flag |-> Flag("enable_link_queue_tracking"), keys |-> {}, inputs |-> FALSE,
     removes |-> <<"link_queue_pkt.csv">>, writes |-> PtopLinkQueueFiles] @@ Timeless

TcpFlowFiles == <<"tcp_flows.csv", "tcp_flows.txt">>
TcpFlowScheduler ==
    [flag |-> Flag("enable_tcp_flow_scheduler"),
     keys |-> {OrDefault("tcp_flow_enable_logging_for_tcp_flow_ids", set_positive_int64, "set()"),
               OrFail("tcp_flow_schedule_filename", AnyText)},
     inputs |-> TRUE, removes |-> TcpFlowFiles, writes |-> TcpFlowFiles] @@ Timeless

UdpBurstFiles ==
    <<"udp_bursts_outgoing.csv", "udp_bursts_outgoing.txt",
      "udp_bursts_incoming.csv", "udp_bursts_incoming.txt">>
UdpBurstScheduler ==
    [flag |-> Flag("enable_udp_burst_scheduler"),
     keys |-> {OrDefault("udp_burst_enable_logging_for_udp_burst_ids", set_positive_int64, "set()"),
               OrFail("udp_burst_schedule_filename", AnyText)},
     inputs |-> TRUE, removes |-> UdpBurstFiles, writes |-> UdpBurstFiles] @@ Timeless

(* The pairs, if they are not all, must be endpoints of the topology. *)
PingmeshFiles == <<"pingmesh.csv", "pingmesh.txt">>
PingmeshInterval == OrFail("pingmesh_interval_ns", parse_positive_int64)
PingTimes == [Timeless EXCEPT !.repeats = {PingmeshInterval}]
PingmeshScheduler ==
    [flag |-> Flag("enable_pingmesh_scheduler"),
     keys |-> {PingmeshInterval,
               OrDefault("pingmesh_endpoint_pairs", AnyText, "all")},
     inputs |-> TRUE, removes |-> PingmeshFiles, writes |-> PingmeshFiles] @@ PingTimes

(* The socket type must be the name of a TypeId. *)
SocketOptions ==
    [flag |-> Always,
     keys |-> {OrFail("tcp_socket_type", AnyText),
               OrDefault("tcp_enable_pacing", parse_boolean, "false")},
     inputs |-> TRUE, removes |-> None, writes |-> None] @@ Timeless

TopologySatelliteNetwork ==
    [flag |-> Always,
     keys |-> {OrFail("satellite_network_dir", AnyText),
               OrFail("satellite_network_routes_dir", AnyText),
               OrDefault("satellite_network_force_static", parse_boolean, "false"),
               OrFail("isl_data_rate_megabit_per_s", parse_positive_double),
               OrFail("gsl_data_rate_megabit_per_s", parse_positive_double),
               OrFail("isl_max_queue_size_pkts", parse_positive_int64),
               OrFail("gsl_max_queue_size_pkts", parse_positive_int64)},
     inputs |-> TRUE, removes |-> None, writes |-> None] @@ Timeless

(* The topology's second part: its flag has no default, and the file of an *)
(* earlier run is not removed.                                             *)
IslInterval == OrFail("isl_utilization_tracking_interval_ns", parse_positive_int64)
IslTimes == [Timeless EXCEPT !.tracks = {IslInterval}]
IslUtilization ==
    [flag |-> {OrFail("enable_isl_utilization_tracking", parse_boolean)},
     keys |-> {IslInterval},
     inputs |-> FALSE, removes |-> None, writes |-> <<"isl_utilization.csv">>] @@ IslTimes

UpdateInterval == OrFail("dynamic_state_update_interval_ns", parse_positive_int64)
UpdateTimes == [Timeless EXCEPT !.repeats = {UpdateInterval}, !.mayBeIdle = FALSE,
                                !.static = Flag("satellite_network_force_static")]
ForwardingHelpers ==
    [flag |-> Always, keys |-> {UpdateInterval},
     inputs |-> TRUE, removes |-> None, writes |-> None] @@ UpdateTimes

main_full ==
    [construct |-> <<TopologyPtop, PtopLinkUtilizationTrackerHelper, PtopLinkQueueTrackerHelper,
                     TcpFlowScheduler, UdpBurstScheduler, PingmeshScheduler>>,
     results |-> <<TcpFlowScheduler, UdpBurstScheduler, PingmeshScheduler,
                   PtopLinkUtilizationTrackerHelper, PtopLinkQueueTrackerHelper>>]

main_satnet ==
    [construct |-> <<SocketOptions, TopologySatelliteNetwork, IslUtilization, ForwardingHelpers,
                     TcpFlowScheduler, UdpBurstScheduler, PingmeshScheduler>>,
     results |-> <<TcpFlowScheduler, UdpBurstScheduler, PingmeshScheduler, IslUtilization>>]

MainProgram == {main_full, main_satnet}
=============================================================================
