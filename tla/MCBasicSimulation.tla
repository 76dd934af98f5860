-------------------------- MODULE MCBasicSimulation --------------------------
(* Configurations for both programs: some of the trackers and schedulers,  *)
(* intervals of 0, and what is refused: a key nothing requests, a key set  *)
(* twice, a value of the wrong kind, a line without an equal sign.         *)
EXTENDS MainPrograms

MCInt64Of ==
    ("-1" :> -1) @@ ("0" :> 0) @@ ("00" :> 0) @@ ("1" :> 1) @@ ("01" :> 1) @@ ("2" :> 2) @@
    ("3" :> 3) @@ ("4" :> 4) @@ ("5" :> 5)

Always3 == <<<<"simulation_end_time_ns", "3">>, <<>>, <<"simulation_seed", "01">>>>
Ptop == <<<<"topology_ptop_filename", "name">>>>
Satnet == <<<<"tcp_socket_type", "name">>, <<"satellite_network_dir", "name">>,
            <<"satellite_network_routes_dir", "name">>,
            <<"isl_data_rate_megabit_per_s", "0.5">>, <<"gsl_data_rate_megabit_per_s", "1">>,
            <<"isl_max_queue_size_pkts", "2">>, <<"gsl_max_queue_size_pkts", "2">>>>
Updates(interval) == <<<<"dynamic_state_update_interval_ns", interval>>>>
Static == <<<<"satellite_network_force_static", "true">>>>
Untracked == <<<<"enable_isl_utilization_tracking", "0">>>>
Tracked(interval) == <<<<"enable_isl_utilization_tracking", "true">>,
                       <<"isl_utilization_tracking_interval_ns", interval>>>>
Queues == <<<<"enable_link_queue_tracking", "true">>>>
Links == <<<<"enable_link_utilization_tracking", "1">>,
           <<"link_utilization_tracking_interval_ns", "2">>>>
Pings(interval) == <<<<"enable_pingmesh_scheduler", "true">>, <<"pingmesh_interval_ns", interval>>>>
Flows == <<<<"enable_tcp_flow_scheduler", "true">>, <<"tcp_flow_schedule_filename", "name">>>>

(* The wait is nothing, or negative, too. *)
MCProgressGaps == -1..2

MCConfigs == {
    Always3 \o Ptop \o Queues,
    Always3 \o Ptop \o Links \o Pings("3"),
    Always3 \o Ptop \o Pings("0"),
    <<<<"simulation_end_time_ns", "0">>, <<"simulation_seed", "0">>>> \o Ptop \o Flows,
    Always3 \o Satnet \o Updates("1") \o Tracked("1"),
    Always3 \o Satnet \o Updates("1") \o Tracked("0"),
    Always3 \o Satnet \o Updates("1") \o Untracked \o Flows,
    Always3 \o Satnet \o Updates("0") \o Untracked,
    Always3 \o Satnet \o Updates("0") \o Static \o Untracked,
    Always3 \o Ptop \o <<<<"pingmesh_interval_ns", "3">>>>,
    Always3 \o Ptop \o <<<<"enable_distributed", "true">>>>,
    Always3 \o Ptop \o <<<<"simulation_seed", "1">>>>,
    Always3 \o Ptop \o Links \o Queues \o
        <<<<"enable_udp_burst_scheduler", "1">>, <<"udp_burst_schedule_filename", "name">>,
          <<"udp_burst_enable_logging_for_udp_burst_ids", "set(0)">>>>,
    Always3 \o Ptop \o <<<<"a comment that does not begin the line">>>> }
=============================================================================
