# Verification of the satellite network simulator

TLA+ modules of the packet-level simulator in this repository: the ns-3 modules
`basic-sim` and `satellite-network` (below `src/ns3/contrib/`), the programs
`main_full` and `main_satnet` (below `src/ns3/scratch/`) that put them together, and the part of
`src/scripts/gen_state.py` that writes what they read. TLC checks the
modules on small instances; TLAPS proves the results that matter most for every value
of the constants. `BS` stands for `src/ns3/contrib/basic-sim`, `SN` for
`src/ns3/contrib/satellite-network`.

## 1. Inventory

The program is single threaded. What makes it concurrent is the event list of ns-3: every
component leaves callbacks in it, and callbacks of different components that fall on the same
nanosecond run in the order in which they were scheduled. "Interleaving" below means that order.

| Component | State | Operations | Interaction |
|---|---|---|---|
| GSL device and channel (`SN/model/gsl-net-device.cc`, `gsl-channel.cc`) | transmitter state, packet queue, *separate* queue of destinations, data rate, link flag; the channel's list of devices | `Attach`, `Send`, `TransmitStart`, `TransmitComplete`, `Receive`, `SetDataRate` | called by the IP layer; the channel samples the propagation delay and schedules `Receive`; the bandwidth helper changes the rate |
| Laser device, channel, utilization (`SN/model/point-to-point-laser-*.cc`, `BS/model/core/ptop-link-utilization-tracker.cc`) | transmitter state, queue, busy/idle counters of the interval, finished intervals | `Send`, `TransmitStart`, `TransmitComplete`, `Receive`, `TrackUtilization`, `FinalizeUtilization` | called by the IP layer; `TopologySatelliteNetwork::CollectUtilizationStatistics` reads the intervals when the run has ended |
| Queue tracking (`BS/model/core/log-update-helper.cc`, `ptop-link-queue-tracker.cc`) | log of (from, until, value) per queue | `Update`, `Finalize`, queue callbacks, `WriteResults` | trace callbacks of the queue of a device |
| Dynamic state and forwarding (`SN/helper/arbiter-single-forward-helper.cc`, `gsl-if-bandwidth-helper.cc`, `SN/model/arbiter-*.cc`, `BS/model/core/ipv4-arbiter-routing.cc`) | next hop per (node, ground station), data rate per GSL interface, next update | load `fstate_<t>.txt`, load `gsl_if_bandwidth_<t>.txt`, `Decide`, `RouteOutput`, `RouteInput` | files written by the state generator; asked by the IP layer for every packet at every node |
| BasicSimulation (`BS/model/core/basic-simulation.cc`) | run directory, configuration, phase of the run, `finished.txt` | constructor, `Run`, `Finalize` | every other component reads its configuration |
| Main programs (`src/ns3/scratch/main_*`) | the order of the components | construct, run, write results | own all the components; scripts read the files they leave |
| UDP bursts (`BS/*/apps/udp-burst-*`) | bursts of a host, current burst, packets sent / received | start a burst, send a packet, receive | schedules its own sends |
| Pingmesh (`BS/*/apps/udp-rtt-*`, `pingmesh-scheduler.cc`) | next sequence number, three time stamps per sequence number | send, answer, receive answer, write results | client and server exchange packets through the network |
| TCP flows (`BS/*/apps/tcp-flow-*`) | bytes handed over, completed / failed flags, static log streams | send, acknowledge, close, fail, log | callbacks of the TCP socket of ns-3 |
| Point-to-point topology (`BS/model/core/topology-ptop.cc`) | graph, properties of links | read, set up links, estimate the round trip | alternative to the satellite topology; TCP timeouts come from its estimate |
| ECMP (`BS/helper/core/arbiter-ecmp-helper.cc`, `BS/model/core/arbiter-ecmp.cc`) | distances, candidate lists | shortest paths, decide by hash | asked by the IP layer for every packet |
| Satellite topology (`SN/model/topology-satellite-network.cc`) | nodes, devices, addresses, ARP entries | build; collect utilization | builds the devices above |
| Configuration and schedule readers (`BS/model/core/exp-util.cc`, `*-reader.cc`) | none | parse text | used by all |
| Satellite positions (`src/ns3/contrib/satellite`) | orbit elements | propagate | gives the channels the distance of two nodes |
| TCP configuration (`BS/helper/core/tcp-optimizer.cc`) | none | sets defaults of ns-3 | before the nodes are created |
| Scripts (`src/scripts`) | none | generation of the input, overlay of delta files, plots | write the satellite network and its dynamic state, read the results |

ns-3 itself (event list, queues, IP stack, TCP) is not part of the repository's logic; the modules state
what they use of it, and those definitions are marked external.

### What is hard

* **Two queues that must stay in step** (GSL device): each path of `Send` and `TransmitComplete` must touch both or none.
* **A busy transmitter must always be restarted**: a packet queued in the same nanosecond as the completion event may come before or after it.
* **A rate that changes while a transmission is under way**, and propagation delays that shrink between two packets.
* **Accounting of time at the boundaries of intervals**, with off/on reports in the same instant and a finalization that reports the opposite state.
* **Logs that learn a value only at a later time**, with many updates at one time.
* **Two helpers that change the network in two events of one nanosecond**, each repeating the logic that decides whether there is a next update.
* **Files that hold only differences**: the state in force is the overlay of all files so far; packets on their way see part of the old and part of the new state.
* **Boundaries of a run**: intervals that do not divide the run, and what is under way when it ends.
* **A process that dies between two file operations**, in a directory with the files of earlier runs.
* **Two programs that derive the same numbers**: the generator and the simulator each count nodes and interfaces.
* **Maps checked by their size only**, matrices updated in place, infinities that are ordinary numbers.

What makes each component correct is stated by the properties in section 3; what no property covers yet is
among the hazards of `PROJECT.json`, with the reason.

## 2. Modules

| Module | Models | Builds on |
|---|---|---|
| `FifoServer` | abstract: a work-conserving FIFO server with a bounded room in front of a medium | |
| `GslNetDevice` | GSL devices, channel, rate changes | refines `FifoServer` |
| `UtilizationTracker` | operators: the tracker and the compressed files written from it | |
| `LaserNetDevice` | two laser devices on a channel, tracked, with the end of the run | `UtilizationTracker` |
| `LaserNetDeviceProofs` | theorems | `LaserNetDevice` |
| `LogUpdateHelper` | operators: a gapless log of a changing value, in packets or bytes | |
| `PtopLinkQueueTracker` | a queue with its two logs | `LogUpdateHelper` |
| `SingleForward` | both helpers, all arbiters, packets from node to node, phases of main | |
| `SingleForwardProofs` | theorems | `SingleForward` |
| `EventList` | operators: the order of the simulator's events | |
| `UdpBurst` | burst schedule, scheduler, applications, results | `EventList` |
| `UdpBurstProofs` | theorems | `UdpBurst` |
| `Pingmesh` | RTT clients, servers, scheduler, results | `EventList` |
| `PingmeshProofs` | theorems | `Pingmesh` |
| `TcpFlow` | flow schedule, scheduler, sending applications, logs, results, over an abstract socket | `EventList` |
| `TcpFlowProofs` | theorems | `TcpFlow` |
| `ExpUtil` | operators: which texts the parsers take, and for which value | |
| `BasicSimulation` | the life of a process in its run directory | `ExpUtil` |
| `BasicSimulationProofs` | theorems | `BasicSimulation` |
| `MainPrograms` | `main_full` and `main_satnet`: components in order, with their keys and files | `BasicSimulation` |
| `TopologyPtop` | operators: what of a topology file is accepted, the graph, link properties, the estimate of the round trip | `ExpUtil` |
| `EcmpRouting` | set-up of links, next hops, packets and answers | `TopologyPtop` |
| `PtopNetworkProofs` | theorems | `EcmpRouting`, `PtopLinkQueueTracker` |
| `GenState` | operators: the files and lines `gen_state.py` writes | |
| `TopologySatelliteNetwork` | set-up of the satellite network from its files, checks and effect of a line of the dynamic state | `GenState` |
| `SatelliteNetworkProofs` | theorems | `GslNetDevice`, `TopologySatelliteNetwork` |
| `MC...` | instances for TLC, one per configuration | |

### Time and events

Every module of simulated time has the pending events in its state, each with a time `ts` and a number `uid` in the
order of scheduling; the next event is the least in (`ts`, `uid`), exactly the order of the ns-3 event list.
Interleaving is therefore not arbitrary: it is what that order leaves open (who scheduled first, which
delays and calls occur). The clock is part of the state, and TLC explores it up to the end time of the instance.

### GslNetDevice

One action per method. `Send` has its three outcomes: `SendDrop` (link down, or overflow: neither queue is
touched), `SendEnqueue` (both queues grow), `SendNow`. `TransmitStart` includes the channel: it fixes the end
of the transmission from the rate of that moment and the arrival from the delay of that moment. A failed assertion of
`TransmitComplete` or an unknown destination address sets `aborted`. Calls (`Send`, `SetDataRate`, `Attach`) happen
between two events at any time that the event list allows. Packets are numbers with a size; addresses are devices.
`SetDataRate` does not touch events already scheduled, as in the code.

### UtilizationTracker, LaserNetDevice

`TrackUtilization` is translated with its loop as a closed form over the number of intervals that ended since the
last report (`Rounds`), which is what lets the proofs speak about it without recursion. The copy of the algorithm in
`basic-sim` is the same one and shares it. `IslFile` and `PtopFile` are the two ways the intervals are joined into
lines: equal neighbours, and neighbours that differ by less than a tolerance. Utilization is compared
in parts of `Resolution`.

### LogUpdateHelper, PtopLinkQueueTracker

`Update` merges equal values, ignores a value that is overwritten in the same instant, and rejects a time in the past. The
queue calls it from its trace callbacks. The model admits updates at the end time itself (the helper and its tests do),
although the simulator stops before such an event.

### SingleForward

`phase` follows main: first forwarding state, first rates, schedulers, run. The two helpers are events `UpdateForwardingState`
and `UpdateGslIfBandwidth`; `Overlay` installs the lines of a delta file; the arbiter's answer and the look at the time to
live are in `Route`. Packets carry a history variable `trail` of the decisions made for them.
Abstractions:

* a device appears only by the time a packet spends in it, any member of `Delay`; queues and drops are `GslNetDevice`'s and `LaserNetDevice`'s;
* interface numbers are reduced to "over a laser link" or "over the GSL"; `TopologySatelliteNetwork` has the numbers;
* an exception or abort ends the program (`phase = "failed"`), so what a half-read file had installed is not observable;
* ICMP answers to expired packets are left out;
* an update interval of 0 is excluded by `TimeAssumption`: the program would stay at time 0, which is in `BasicSimulation`;
* when the configured interval is not the generator's step, files are skipped and the installed state mixes steps: `NeverFails` and `DecisionsUseOneUpdate` still speak of those runs; `InstalledIsGenerated`, `FollowsGeneratedPath` and `LoopsNeedAnUpdate` do not.

### UdpBurst, Pingmesh

Reader or setup, start of the applications, sending, receiving, stop and writing of the results are one action each; `phase` follows
main, and an exception makes it `failed`. The network is the time a packet spends in it (any member of `Delay`) or its loss, so
packets overtake each other; a packet's arrival has the number its sending gave it in the order of events. A burst's rate appears as the gap between two
packets, which the code computes from it. `Pingmesh` keeps the ways of a packet as history (`ways`, `trips`), against which
the timestamps of the results are compared; its actions are `Transmit` of a client, `Request` at a server and `Reply` at the client. `StopApplication` is an action of neither: nothing schedules it.

### TcpFlow

The socket is abstract (external): a buffer that takes what fits, loses what the other side acknowledges, and calls back between two events.
It fails to connect, closes normally or closes with an error at any time, and calls back no more after that. `SendData` is the loop of
the code as the choice of how many bytes it hands over (`HandedOver`): all that is left if it fits, else whole portions and any part of the next.
`acknowledged` is history. The sink is left out: it drains its sockets into a counter and a list that nothing reads. All flows have detailed logs. The progress log and the RTT log are modelled; the one of the congestion window is written
at the same places as the RTT log. A variable that is not initialized has any value of `AnyValue`. The program may end early: a
schedule that is refused, a failed assertion or missing application (`crashed`), an exception in a callback (`thrown`).

### ExpUtil, BasicSimulation, MainPrograms

A text is a value without structure; the constant `Int64Of` gives the texts that `std::stoll` takes as a whole and the number each stands for, and `ExpUtil` says
for each parser which texts it takes and for what value. `BasicSimulation` follows a process
from `ConfigureRunDirectory` to its end; another process may then use the same directory, with an edited configuration and either program. Every removal, opening
and closing of a file is a step of its own (`todo` is the list of those still to do), so that a kill falls between any two of them. An
exception ends the process as a kill does (`Gone`): the files stay as they are. A component is a record in `MainPrograms` of the keys it requests, the
flags that enable it, the files it removes when it is constructed and those it writes at the end; what it does during the run is in its own module.
`simulated` is history. A component whose flag is off requests only the flag; keys that nothing has requested stop the run.

Of the events of a run only the progress message and the stop event are modelled. `ShowSimulationProgress` waits first `FirstProgress`, then what it measures (`ProgressGaps`,
any integers, since the code has no lower bound): nothing, if the speed times the interval rounds to no nanosecond, and less than nothing, if the system's clock was set back before the start
of the run. A time before 0 is stored as a huge unsigned number, which is as good as after the end. A record in `MainPrograms` also names the intervals (`repeats`, `tracks`) that the
component takes from its keys. With an interval of 0 an event schedules itself in its own instant for ever (`Run`), or the loop over a laser's
intervals does not end, when a packet is sent (`TrackUtilization`) or the utilization is written (`FinalizeUtilization`); the process is then `hanging`, until it is killed. The model says
which runs those are: not with a stop time of 0, no updates in a static network, maybe no pair to ping and no laser link. A hanging process of `main_satnet` or `main_full` also takes more and more memory, which is not
modelled, and neither is a clock that has not advanced by a nanosecond when the first message comes (a division by zero).

### TopologyPtop, EcmpRouting

`TopologyPtop` translates the checks of the reader and what it builds from the file (`TopologyAccepted` is all of them together). Sizes of queues are reckoned in 32 bit as in the code (`QueueByte`, `UintSize`): the product wraps around. `EcmpRouting` installs the links one by one, refuses more than `MaxNodes` nodes when that is done, runs Floyd-Warshall in place with
one `k` per step, collects the next hops and installs the arbiters; then one packet travels from any node to any other, and its answer back. At each node any of the candidates may be
what the hash picks. `spent` is history: the packet finds every queue as full as it can be (`LongestTime`, reckoned from what the queues can hold, without the code's formula or its width). An operation without meaning in the code (a division by the length of an empty list, a node that has no address) is `crashed`.

### GenState, TopologySatelliteNetwork

`GenState` is a second program that counts the same things: it writes satellites, links, ground stations, interfaces and dynamic state. Its counters that run over the
shells or the lines of a file are `Running` totals. `TopologySatelliteNetwork` reads the four files, numbers nodes, devices, interfaces and addresses, fills the ARP cache, and then takes lines of the dynamic state with the checks of the forwarding and
bandwidth helpers. For generated files the lines are the generator's, for edited files any. Reading past the end of a vector and asking a laser device for a rate are
the end `undefined`. A step that installs several devices gives each node its new ones in `Ascending` order, which is the order the code creates them in. The time-dependent content of the dynamic state is in `SingleForward`.

## 3. What is checked

All configurations say `CHECK_DEADLOCK FALSE`: a simulation ends (stop event, or the bound on packets with nothing pending).

| Run | Properties | Shows |
|---|---|---|
| `gsl` | `TypeOK`, `NeverAborts`, `RightReceiver`, `OvertakingNeedsShrinkingDelay`, `ImplementsFifoServer`, `AcceptedPacketArrives` | the two queues never shift; no assertion fails; packets overtake only when the delay shrank by more than a transmission; the device is a FIFO server; accepted packets arrive |
| `laser` | `TypeOK`, `AllTimeAccounted`, `TrackedTimeIsBusyTime`, `IslFileIsTrue`, `PtopFileIsTrue` | the tracker's time is the device's busy time, interval by interval, and both files say so |
| `queue_log` | `TypeOK`, `PktLogIsHistory`, `ByteLogIsHistory` | a finalized log covers the run without gaps, has the queue's value at each moment and no two equal neighbours |
| `single_forward` | `TypeOK`, `NeverFails`, `DecisionsUseOneUpdate`, `FollowsGeneratedPath`, `LoopsNeedAnUpdate`, `InstalledIsGenerated` | routing decisions come from one moment and follow the generated files; loops need an update; complete files make the run succeed; entries and rates in place are those of one generated state in force, also where files pass over them |
| `udp_burst` | `NeverThrows`, `SentOnTime`, `SentFillsDuration`, `ReceivedWasSent` | an accepted schedule never throws later; packet k leaves k gaps after the start; a burst sends one packet per gap it has time for; what is counted as received was sent |
| `pingmesh` | `RttIsRoundTrip`, `PingsPaced` | the latencies of each ping are those of its own ways, whatever happens to the others; one ping per pair and interval |
| `tcp_flow` | `ResultsAreTrue`, `ProgressLogTrue`, `AllHandedOverIsClosed`, `NeverCrashes` | bytes and outcome of a flow are those of its socket; the progress log never goes back and ends with the result; no flow is left open; every flow has started when the results are written |
| `tcp_flow_rtt` | `RttPositive` (violated) | the assertion of the test on RTT logs fails: see Findings |
| `lifecycle` | `YesMeansComplete`, `ResultsChangeOnlyUnfinished`, `RunEnds` | whoever reads `Yes` finds all results of the run that wrote it, and they do not change under the `Yes`; a run ends though an event reschedules itself for ever, by a time that is only measured, unless an interval is 0 |
| `lifecycle_finished` | `YesIsOfThisRun` (violated) | a run refused for its configuration leaves the `Yes` of an earlier run: see Findings |
| `ecmp` | `CandidatesAreShortest`, `RouteIsShortest`, `SetupSucceeds`, `FailsOnlyIfDisconnected`, `EstimateCoversRoundTrip` | next hops are those of shortest paths, all of them; packets and answers take shortest paths for any hash; no accepted file is refused between its first and its last link; only unconnected nodes make the program fail; the estimate covers a round trip through full queues, on up to ten edges and if 32 bit are enough |
| `satellite_network` | `EntriesLeadToNextHop`, `GeneratedIsAccepted` | every line the checks accept leads to the node and interface it names; the simulator accepts all the generator writes |

Every property has a mutant of the mapped code in `PROJECT.json`: a plausible bug that makes TLC report that property.

### Bounds

* `gsl`: three devices of which one sends, queue limit 2, five packets: one in transmission, two waiting (so their order matters), one
  refused and one more. Rates 1 and 2 and size 2 make a transmission last 2 or 1; delays 0 and 3 let a later packet overtake.
  Calls happen up to `MaxCallTime`.
* `laser`: intervals of 3 with transmissions of 1, 3 and 7: inside an interval, exactly one, and over several. The
  run ends on a boundary (9) or between two (10). Queue limit 1 gives both the idle and the chained completion.
* `queue_log`: limit 2, sizes 1 and 2, end time 5: every mix of updates in one instant and at later ones.
* `single_forward`: two satellites, two ground stations, histories of up to four forwarding states with drops, changes,
  a loop, a line that is not acceptable and a missing file. Intervals equal to the step, twice the step, and not a
  multiple of it. End times on and off an update. Two packets with a gap, delays shorter and as long as a step.

* `udp_burst`: bursts one after the other, at one time, one within another, longer than the run, of duration 0; gaps that divide the
  duration and gaps that do not; a delay longer than a gap. Three schedules the reader refuses.
* `pingmesh`: one to four endpoints, so that the spread of the clients is 0, 1 or more; delays longer and shorter than the interval (0 stands for one that is
  far shorter); a run shorter than the interval and one that leaves answers on their way. With an interval of 2 the answer of the second ping of a pair comes at 2 and overtakes that of the first, at 3.
* `tcp_flow`: a flow larger than the buffer with one that is not; two flows at one later time, of which one has no limit. `MaxLines` acknowledgements
  per flow and `MaxRttLines` measurements; `tcp_flow_rtt` needs none of either.
* `lifecycle`, `lifecycle_finished`: two runs, so that the second meets every state a dead or finished first one leaves; a third would meet nothing new, since a run
  looks at no file of results. Fourteen configurations of both programs: accepted with some components and with others, four with an interval of 0 (of which one is harmless), and refused for a key nothing requests, a key set
  twice, a value of the wrong kind, a bad line, or the distributed mode. End times 0 and 3; progress messages 2 or 1 later, at once, or 1 earlier. An end time of 3 is enough for each of these to occur after each other.
* `ecmp`: all graphs of four nodes with at most four edges, a path and a ring of five whose numbers are shuffled (so that the order of `k` matters),
  a path of six (`MaxNodes` is 5) and one whose queues of 60 packets wrap around (`UintSize` is 2^16), servers with link properties in maps, and eight files that are refused. `NodeIds` 0 to 4 includes ids of no node.
* `satellite_network`: generated networks of one shell (3 orbits of 3) and of two (and 4 orbits of 3); three satellites and two ground
  stations with the files edited in thirteen ways, and every line of small numbers, out of range on both sides. One line (`MaxLines`) is enough, since what a
  line is checked against and how it is followed depends on the set-up only.

### Findings

`FinalizeDetailedLogs` (`BS/model/apps/tcp-flow-send-application.cc:379-380`) repeats the last congestion window and RTT at the end of the run, but
`m_current_cwnd_byte` and `m_current_rtt_ns` are initialized nowhere. A flow that never measured an RTT, for example because its handshake lasts to the end
of the run, gets an indeterminate last line. `BS/test/apps/tcp-flow-end-to-end-test.h:248-250` asserts that RTTs are positive; `tcp_flow_rtt` shows the
violation in eight steps.

The constructor of `BasicSimulation` reads the configuration (`BS/model/core/basic-simulation.cc:52`) and uses it (53) before it removes the `finished.txt` of an
earlier run and writes `No` (55). Both may throw. `BS/doc/basic_simulation_and_run_folder.md:66` says that the file contains "Yes" if the run has finished, "No" if
not; `lifecycle_finished` shows a second run that is refused and leaves the `Yes` of the first. The files of results are still those of the first run
(`YesMeansComplete`), so a reader gets consistent results, but of another configuration.

### Fairness

Two runs check a liveness property.

* `gsl`, `AcceptedPacketArrives`: `WF_vars(RunEvent)`. The simulator takes the next event as long as there is one (`Simulator::Run`). Nothing
  is assumed of callers: no call of `Send` or `SetDataRate` is ever owed.
* `lifecycle`, `RunEnds`: `WF_vars(Proceed)`. A process that is running goes on with its next step. Nobody has to start a process, and no
  exception or kill is ever owed, so the property does not hold by dying. Whether simulated time goes on is not the scheduler's doing: the code measures how long to wait. What the end of
  a run rests on is therefore the premise of the property and not part of the specification. `ClockRuns`: among the waits there is again and again one above 0, and from some time on none below. A system clock that runs
  forward meets both: simulated time is at least 0.1 s at the first message, and the wait is a fifth of at least one progress interval (10 s at the shortest) at the speed so far, so it is 1 ns or more as long as the run takes less than years.
  `ZeroInterval`: an enabled component has an interval of 0, which the parser accepts and no measure of fairness helps. The property fails without either premise. A system clock set back
  disturbs only the progress event; the others keep the order of their times.

## 4. What is proved

| Theorems | Module |
|---|---|
| `GslTypeCorrect`, `GslNeverAborts`, `GslRightReceiver`, `GslOvertaking`, `GslImplementsFifoServer`; `NetworkEntriesLeadToNextHop`, `NetworkGeneratedIsAccepted` | `SatelliteNetworkProofs` |
| `LaserTypeOK`, `LaserAllTimeAccounted`, `LaserTrackedTimeIsBusyTime`, `LaserIslFileIsTrue`, `LaserPtopFileIsTrue` | `LaserNetDeviceProofs` |
| `QueueTrackerTypeOK`, `PktQueueLogIsHistory`, `ByteQueueLogIsHistory`; `EcmpCandidatesAreShortest`, `EcmpRouteIsShortest`, `EcmpSetupSucceeds`, `EcmpFailsOnlyIfDisconnected`, `EcmpEstimateCoversRoundTrip` | `PtopNetworkProofs` |
| `SFTypeCorrect`, `SFNeverFails`, `SFDecisionsUseOneUpdate`, `SFFollowsGeneratedPath`, `SFInstalledIsGenerated`, `SFLoopsNeedAnUpdate` | `SingleForwardProofs` |
| `UdpNeverThrows`, `UdpSentOnTime`, `UdpSentFillsDuration`, `UdpReceivedWasSent` | `UdpBurstProofs` |
| `PingRttIsRoundTrip`, `PingPingsPaced` | `PingmeshProofs` |
| `TcpResultsAreTrue`, `TcpProgressLogTrue`, `TcpAllHandedOverIsClosed`, `TcpNeverCrashes` | `TcpFlowProofs` |
| `LifeYesMeansComplete`, `LifeResultsChangeOnlyUnfinished` | `BasicSimulationProofs` |

Every invariant that a passing run checks, the action property of `lifecycle` and the refinement of `gsl` are the statement of one of these theorems.

They hold under the `ASSUME`s of the module they are about, which TLC evaluates in each run. Most give constants their types (sets of
numbers are natural numbers, model values are distinct and not packets, the generated histories are functions of the documented shape). Those that say more:

* `Int64Assumption`: what `std::stoll` returns is a number, and it takes neither `0.5` nor `nan`.
* `NodesAssumption`: the nodes routing takes, 40000 in the code, are fewer than the number `Infinite` that stands for no way. `WidthAssumption`: `UintSize` is a number above 0; it is 2^32 in the code.
* `FilesAssumption`: what is a list in a topology file is one here, and the sizes of queues in an accepted file fit into 32 bit (ns-3 parses them into that).
  Files that are refused may have any content.
* `RatesAssumption`: data rates of accepted files are whole numbers of at least 1. The code also takes fractions and 0; the time
  a packet takes is reckoned here in whole numbers.
* `NetworksAssumption`: `gen_state.py` is asked for networks it accepts. `EditedAssumption`: the fields of edited files are natural
  numbers, since the readers of these fields refuse negative ones; nothing else is asked of an edited file.

* **GslNetDevice.** The properties are not inductive: that no assertion fails depends on the transmitter being busy exactly while its completion
  is pending; that the right receiver gets the packet depends on the two queues having the same length and the same order. The invariant adds
  one completion event per busy device, equal queues, an idle device has nothing waiting, and no pending arrival before the
  completion it belongs to. Each action preserves it. For the refinement, `FlightInv` adds that a packet is on its way once, the
  abstract queue is the two queues joined, and each action is shown to be a step of `FifoServer` or none (`ServerStep`).
* **LaserNetDevice.** `IInv`: the counters of the running interval add up to the time since its start, finished intervals
  are full, and a completion is pending exactly for a busy device. The closed form of the loop makes the step arithmetic. `SlotsInv` says for each interval, and
  the running one, that its busy time is the number of time slots in which the transmitter was on; `FilesInv` that
  the file written is made of the intervals of the whole run; that its lines tile the run, are true and differ from their neighbours are lemmas on `IslFile`.
  For `PtopFile`, whose lines join intervals that are only nearly equal, the busy time of a line is a sum over its intervals. The sum is the number of busy slots in them (`BusySumCounts`), which
  is found as the only function that satisfies the recursive equation of the sum. `TypeOK` needs besides that the clock stays below the end while there is one.
* **PtopLinkQueueTracker.** What the log holds together with what it remembers of the current instant is the history
  up to the last update, joined; the current value is the queue's. Packets and bytes are one lemma, used twice. `TrackerTypeInv` adds to `TypeOK` that
  a value waiting to be merged has a predecessor; the bytes of a queue are a number because they are the size of a set (`BytesAreUnits`).
* **EcmpRouting.** A walk is a function from `0..h` to nodes. `Relaxed(d, k, ...)`: each finite entry of the matrix is the length of a walk, and no walk with inner nodes
  below `k` is shorter than its entry. Updating in place does no harm, since row and column `k` do not change in round `k` (`RelaxedOneMore`); in the end the entries are the shortest
  walks. `EcmpInv` says for each phase what is known of the file (`TopologyAccepted`), of the interfaces (`Wired`: the two interfaces of link i belong to link i), of the matrix,
  and of the packet (`Underway`: hops made and hops to go add up to the distance). Each candidate is one hop nearer, so a route is shortest whatever the hash picks; a node without
  candidates has an infinite distance, so a packet fails only if no walk exists. `SpentInv` bounds the time spent by the hops made times the worst hop, and a round trip has
  at most as many hops as the estimate assumes in a topology of at most ten edges (in larger ones the estimate's own cap of 20 hops may be less). Without a wrap the size the code computes is that of a full queue (`QueueByteFits`).
* **TopologySatelliteNetwork.** `NetworkInv`: devices `2i - 1` and `2i` are the ends of link i with the addresses of network i, and behind the links come the devices of the shared
  channel; the interfaces of a node are its devices in ascending order; an installed entry passed the checks of its line (`Follows`). Addresses of different devices differ, so the ARP cache
  answers with the one device meant (`AddressesDiffer`), and the next hop of an entry is the node that owns it. For the other direction, the files of the generator satisfy what the readers ask
  (`GeneratedFiles`), and both programs count alike: an interface number in the simulator is the rank of a device among those of its node, in the generator the number of
  earlier lines that name the node, and links and laser devices of a node correspond one to one (`CountEnds`). So no line the generator writes is refused (`GeneratedLineAccepted`).
* **SingleForward.** `IInv == TypeOK /\ OrderInv /\ FilesInv /\ TrailInv`. `OrderInv` says that the two helpers' pending updates have
  neighbouring numbers at one time, so no other event fits between them; from it follows that the two installed times agree whenever a packet is routed.
  `FilesInv` says that with the generator's interval the installed entries are the generated state of the last update, which needs the
  deltas to be added in order with none left out. `TrailInv` carries both over to the decisions of packets on their way. `LoopInv` adds, for
  loop-free states, that decisions of one update lead ever nearer to the target, by a distance the absence of a loop gives.
  `RatesInv` says the same of the rates, whose update is a step behind while it is due; with both, what is installed is one generated state in force (`RatesInvMeans`).
* **UdpBurst.** `BurstInv`: the pending packet event of a burst is at `start + k * gap` for the k packets sent, and what was
  received was sent before; `RunInv` says which events of a host are pending, each only once, `StoppedInv` that bursts have gone on to their end or the run's.
* **Pingmesh.** `StampsInv` and `TripsInv`: a packet on its way carries the times of its own ping, and a stamp is only ever set from them;
  `SetupInv` and `RunInv` give each client one pending send, an interval after the last.
* **TcpFlow.** `FlowInv` has `totBytes = acknowledged + what is in the buffer`, the flags of a flow against the state of its socket, and
  its log against both; `StartsInv` says that a flow without an application has its start pending, which is why none is missing at the end.
* **BasicSimulation.** `YesInv`: under a `Yes` the files of its run are complete. `PhaseInv` says of each phase which operations are still in `todo`,
  that the `Yes` is gone before a file of results is touched, and that each file of an enabled component is complete or will be by an operation in `todo`.

Recursion in the modules is by recursive functions and folds; no module declares a `RECURSIVE` operator. What such a function computes is proved from its equation by least counterexample
(`LeastElement`: a set of natural numbers that is not empty has a least member), or by showing a closed form, such as the size of a set, to be the only solution of the equation.

Only model-checked: `AcceptedPacketArrives` and `RunEnds`. Liveness under fairness is out of the prover's reach, as is `ENABLED`.

## 5. Not modelled, and why

* **ns-3** (event list, queues, IP stack, TCP): used through external definitions only.
* **Satellite positions** (`src/ns3/contrib/satellite`): floating-point propagation of orbits, calendars and their tables (`iers-data.cc`, `sgp4unit.cpp`, `sgp4ext.cpp`,
  `julian-date.cc` alone are a third of the lines of the implementation). The code is arithmetic without state or control; its effect, delays that change, is `Delay`.
* **TCP configuration**: sets defaults of ns-3 and keeps no state.
* **TCP sink**: drains its sockets into a counter and a list of sockets that nothing reads.
* **Formatting and statistics**: a file appears by the values of its lines. Rates, means and percentages in floating
  point are left out; parsers appear by what they accept and for which value.
* **Distributed runs** (`IsDistributedEnabled`): a build without MPI refuses them, which is modelled; the calls of MPI are not.
* **Zero where a time is expected** (update, tracking or ping intervals of 0): the program then stays at one time for ever. `BasicSimulation` says so; the modules of the components
  assume intervals of at least 1.
* **An estimate that wraps around** (`link_device_queue=drop_tail(2859500p)`, for one): the round trip is then estimated far too small. The model computes it as the code does;
  `EstimateCoversRoundTrip` is about sizes that fit (`QueuesFit`) and fails without that premise.
* **A link of a satellite to itself** is accepted by the reader; its two ends cannot be told apart, and `EntriesLeadToNextHop` asks only for the node there. Edited files that
  make the code read past the end of a vector are the end `undefined`, of which nothing more is said.
* **Plotting, visualization, shell wrappers** (`src/scripts`): outside the program.

## 6. Plan

What is left, in this order.

1. `SatelliteNetwork`: `SingleForward`'s nodes connected by `GslNetDevice`s and laser devices instead of `Delay`; its packets' travel shown to
   implement `SingleForward`'s.
2. A composition with both ends of a TCP connection, where the close of one end may be followed by an error at the other.
3. Several packets and finite queues in `EcmpRouting`, so that the estimate of the round trip is met by real waiting instead of the worst value.
4. Proofs for these compositions; the refinement of item 1 step by step, as for `FifoServer`.
