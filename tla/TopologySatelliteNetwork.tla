---------------------- MODULE TopologySatelliteNetwork ----------------------
(***************************************************************************)
(* How a satellite network is built from its files and what an accepted    *)
(* line of the dynamic state then does: TopologySatelliteNetwork with the  *)
(* helpers that install GSL and laser devices, the checks of               *)
(* ArbiterSingleForwardHelper and GslIfBandwidthHelper, and                *)
(* ArbiterSatnet::Decide.  The files are those of gen_state.py, or edited  *)
(* by hand.  Nodes, devices, interfaces and addresses are numbered by the  *)
(* order in which the files are read; a line of the dynamic state uses     *)
(* numbers its writer derived from the same files.                         *)
(***************************************************************************)
EXTENDS GenState

CONSTANTS
    Networks,     \* what gen_state.py is asked for: [shells, stations]
    Edited,       \* files edited by hand
    Lines, Rates, \* lines of the dynamic state tried on those
    MaxLines      \* bound: lines of the dynamic state

ASSUME NetworksAssumption ==
    /\ MaxLines \in Nat
    /\ \A n \in Networks : /\ n.shells \in Seq([orbits : Nat, spo : Nat]) /\ n.stations \in Nat
                          /\ Accepts(n.shells, n.stations)

(* The readers take no negative number, except for the drop of a line. *)
Files == [header : Nat \X Nat, blocks : Nat, stations : Seq(Nat), isls : Seq(Nat \X Nat),
          gsl : Seq([node : Nat, ifs : Nat])]

ASSUME EditedAssumption ==
    /\ Edited \subseteq Files
    /\ Lines \subseteq [from : Nat, to : Nat, next : Int, my : Int, nxt : Int]
    /\ Rates \subseteq [node : Nat, if : Nat]

VARIABLES
    files,        \* the files of the network
    generated,    \* whether gen_state.py wrote them
    phase,        \* what is read next; "failed" after an exception or abort,
                  \* "undefined" after a read past the end of a vector
    satellites,   \* m_satelliteNodes.GetN()
    allNodes,     \* m_allNodes.GetN()
    left,         \* lines of isls.txt not yet read
    devices,      \* all devices, by MAC address: their node, channel, IP address
    interfaces,   \* the interfaces of each node, in order, after the loop-back
    network,      \* the network the IP address helper assigns from
    arp,          \* the cache all interfaces share
    nextHop,      \* m_next_hop_list of all arbiters
    read          \* number of lines of the dynamic state read

input == <<files, generated>>
networkVars == <<input, phase, satellites, allNodes, left, devices, interfaces, network, arp,
          nextHop, read>>

NetworkInit ==
    /\ \/ generated = TRUE /\ \E n \in Networks : files = Generate(n.shells, n.stations)
       \/ generated = FALSE /\ files \in Edited
    /\ phase = "tles" /\ satellites = 0 /\ allNodes = 0 /\ left = <<>>
    /\ devices = <<>> /\ interfaces = <<>> /\ network = 1 /\ arp = <<>>
    /\ nextHop = <<>> /\ read = 0

built == <<devices, interfaces, network>>
Ends(how) == phase' = how /\ UNCHANGED <<input, satellites, allNodes, left, built, arp, nextHop, read>>
-----------------------------------------------------------------------------
(* A satellite beyond the number of nodes is given to a node that does not *)
(* exist before the numbers are compared.                                  *)
ReadSatellites ==
    /\ phase = "tles"
    /\ LET n == files.header[1] * files.header[2]
       IN  IF files.blocks > n THEN Ends("undefined")
           ELSE IF files.blocks < n THEN Ends("failed")
           ELSE /\ satellites' = n /\ phase' = "stations"
                /\ UNCHANGED <<input, allNodes, left, built, arp, nextHop, read>>

ReadGroundStations ==
    /\ phase = "stations"
    /\ IF \A i \in DOMAIN files.stations : files.stations[i] = i - 1
       THEN /\ allNodes' = satellites + Len(files.stations)
            /\ interfaces' = [n \in 0..allNodes' - 1 |-> <<>>]
            /\ left' = files.isls /\ phase' = "isls"
            /\ UNCHANGED <<input, satellites, devices, network, arp, nextHop, read>>
       ELSE Ends("failed")

(* The members of a set of numbers, in order. *)
Ascending(S) ==
    [i \in 1..Cardinality(S) |-> CHOOSE m \in S : Cardinality({k \in S : k < m}) = i - 1]

(* Devices are created, added to their nodes and given addresses one after *)
(* the other, so a device and its interface have the same index.           *)
Gsl == 0   \* the shared channel; a laser link is numbered by its line, from 1
Install(new) ==
    /\ devices' = devices \o new
    /\ interfaces' = [n \in DOMAIN interfaces |->
          interfaces[n] \o Ascending({m \in DOMAIN devices' \ DOMAIN devices : devices'[m].node = n})]

(* PointToPointLaserHelper::Install; the channel is the line of the file. *)
LaserDevices(a, b) ==
    LET Laser(n, host) == [node |-> n, channel |-> Len(files.isls) - Len(left) + 1,
                           ip |-> <<network, host>>]
    IN  <<Laser(a, 1), Laser(b, 2)>>

ReadISL ==
    /\ phase = "isls" /\ left # <<>>
    /\ LET a == Head(left)[1]
           b == Head(left)[2]
       IN  IF {a, b} \subseteq 0..satellites - 1
           THEN /\ Install(LaserDevices(a, b))
                /\ network' = network + 1 /\ left' = Tail(left)
                /\ UNCHANGED <<input, phase, satellites, allNodes, arp, nextHop, read>>
           ELSE Ends("failed")

(* GSLHelper::Install: a device for each interface of each node; it asks   *)
(* for the line of every node, however many there are.                     *)
GslDevices(info) ==
    LET owners == FlattenSeq([n \in 1..allNodes |-> [j \in 1..info[n].ifs |-> n - 1]])
    IN  [i \in DOMAIN owners |->
            [node |-> owners[i], channel |-> Gsl, ip |-> <<network + i - 1, 1>>]]

CreateGSLs ==
    /\ phase = "isls" /\ left = <<>>
    /\ LET info == files.gsl
           total == Running([i \in DOMAIN info |-> info[i].ifs])[Len(info)]
       IN  IF \E i \in DOMAIN info : info[i].node # i - 1 THEN Ends("failed")
           ELSE IF Len(info) < allNodes THEN Ends("undefined")
           ELSE IF Len(GslDevices(info)) # total THEN Ends("failed")
           ELSE /\ Install(GslDevices(info))
                /\ network' = network + total /\ phase' = "arp"
                /\ UNCHANGED <<input, satellites, allNodes, left, arp, nextHop, read>>

InitialEmptyForwardingState ==
    [p \in (0..allNodes - 1) \X (0..allNodes - 1) |-> <<-2, -2, -2>>]

(* The cache from IP address to MAC address, of all interfaces of nodes. *)
ArpOf(nodes) ==
    LET macs == {m \in DOMAIN devices : devices[m].node \in nodes}
    IN  [ip \in {devices[m].ip : m \in macs} |-> CHOOSE m \in macs : devices[m].ip = ip]

(* Mutant of PopulateArpCaches: only the satellites are entered. *)
PopulateArpCachesOfSatellites ==
    /\ phase = "arp" /\ phase' = "running"
    /\ arp' = ArpOf(0..satellites - 1)
    /\ nextHop' = InitialEmptyForwardingState
    /\ UNCHANGED <<input, satellites, allNodes, left, built, read>>

(* The topology is complete, the arbiters start with invalid entries. *)
PopulateArpCaches ==
    /\ phase = "arp" /\ phase' = "running"
    /\ arp' = ArpOf(0..allNodes - 1)
    /\ nextHop' = InitialEmptyForwardingState
    /\ UNCHANGED <<input, satellites, allNodes, left, built, read>>
-----------------------------------------------------------------------------
(* Mutant of HasInterface: the loop-back is taken off twice. *)
HasInterfaceBelowLast(n, if) == if >= 0 /\ if + 1 < Len(interfaces[n])

(* A file numbers the interfaces without the loop-back, from 0. *)
HasInterface(n, if) == if >= 0 /\ if < Len(interfaces[n])
NetDevice(n, if) == devices[interfaces[n][1 + if]]
OtherEnd(n, mac) ==
    LET ends == {m \in DOMAIN devices : devices[m].channel = devices[mac].channel}
        device0 == CHOOSE m \in ends : \A k \in ends : m <= k
        device1 == CHOOSE m \in ends : m # device0
    IN  IF devices[device0].node = n THEN device1 ELSE device0

LineAccepted(l) ==
    LET minus == {f \in {"next", "my", "nxt"} : l[f] = -1}
    IN  /\ l.from \in 0..allNodes - 1 /\ l.to \in 0..allNodes - 1
        /\ l.next \in -1..allNodes - 1
        /\ minus = {} \/ Cardinality(minus) = 3
        /\ minus = {} =>
             /\ HasInterface(l.from, l.my) /\ HasInterface(l.next, l.nxt)
             /\ IF NetDevice(l.from, l.my).channel = Gsl
                THEN NetDevice(l.next, l.nxt).channel = Gsl
                ELSE /\ NetDevice(l.next, l.nxt).channel # Gsl
                     /\ OtherEnd(l.from, interfaces[l.from][1 + l.my])
                        = interfaces[l.next][1 + l.nxt]

ForwardingLine ==
    /\ phase = "running" /\ read < MaxLines
    /\ \E l \in IF generated THEN FstateLines(files) ELSE Lines :
         IF LineAccepted(l)
         THEN /\ nextHop' = [nextHop EXCEPT ![<<l.from, l.to>>] = <<l.next, 1 + l.my, 1 + l.nxt>>]
              /\ read' = read + 1
              /\ UNCHANGED <<input, phase, satellites, allNodes, left, built, arp>>
         ELSE Ends("failed")

(* Asked for its rate, a laser device is a null pointer. *)
BandwidthLine ==
    /\ phase = "running" /\ read < MaxLines
    /\ \E r \in IF generated THEN GslIfBandwidthLines(files) ELSE Rates :
         IF r.node \notin 0..allNodes - 1 \/ ~ HasInterface(r.node, r.if) THEN Ends("failed")
         ELSE IF NetDevice(r.node, r.if).channel # Gsl THEN Ends("undefined")
         ELSE /\ read' = read + 1
              /\ UNCHANGED <<input, phase, satellites, allNodes, left, built, arp, nextHop>>

NetworkNext == ReadSatellites \/ ReadGroundStations \/ ReadISL \/ CreateGSLs \/ PopulateArpCaches
        \/ ForwardingLine \/ BandwidthLine

NetworkSpec == NetworkInit /\ [][NetworkNext]_networkVars
-----------------------------------------------------------------------------
(* ArbiterSatnet::Decide: the interface to use and the address of the next *)
(* hop's; the IP layer asks the ARP cache for the device with that         *)
(* address.  A laser link has one other end, whatever the address.         *)
Decide(n, t) == [if |-> nextHop[<<n, t>>][2],
                 gateway |-> devices[interfaces[nextHop[<<n, t>>][1]][nextHop[<<n, t>>][3]]].ip]
Receivers(n, decision) ==
    LET mac == interfaces[n][decision.if]
    IN  IF devices[mac].channel = Gsl
        THEN {m \in DOMAIN devices : /\ devices[m].channel = Gsl
                                     /\ decision.gateway \in DOMAIN arp /\ arp[decision.gateway] = m}
        ELSE {m \in DOMAIN devices \ {mac} : devices[m].channel = devices[mac].channel}

(* Whatever line the checks accept, the packets it directs arrive at the   *)
(* node it names as the next hop, on the interface it names (a link of a   *)
(* satellite to itself apart, where the two ends cannot be told apart).    *)
EntriesLeadToNextHop ==
    phase = "running" =>
        \A p \in DOMAIN nextHop :
            nextHop[p][1] >= 0 =>
                \E m \in Receivers(p[1], Decide(p[1], p[2])) :
                    /\ devices[m].node = nextHop[p][1]
                    /\ p[1] # nextHop[p][1] => m = interfaces[nextHop[p][1]][nextHop[p][3]]

(* A network of gen_state.py is built, and every line of its dynamic state *)
(* accepted, whatever the number of shells: the writer's numbers of nodes  *)
(* and interfaces are the reader's.                                        *)
GeneratedIsAccepted == generated => phase \notin {"failed", "undefined"}
=============================================================================
