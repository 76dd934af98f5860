------------------------------ MODULE GenState ------------------------------
(***************************************************************************)
(* scripts/gen_state.py: the files of a satellite network it writes, by    *)
(* itself or through satgen, and the lines of its dynamic state.  Where a  *)
(* satellite is decides which of the lines it chooses, so every choice is  *)
(* allowed here; how it numbers nodes and interfaces is what matters.      *)
(***************************************************************************)
EXTENDS Integers, Sequences, SequencesExt, FiniteSets

(* A running total over a list, as both programs keep them. *)
Running(list) == LET sum[i \in 0..Len(list)] == IF i = 0 THEN 0 ELSE sum[i - 1] + list[i]
                 IN  sum

Satellites(shell) == shell.orbits * shell.spo

(* Satellites are numbered shell by shell. *)
Offset(shells, k) == Running([i \in DOMAIN shells |-> Satellites(shells[i])])[k - 1]
Total(shells) == Offset(shells, Len(shells) + 1)

(* The links of one shell: to the next satellite of the orbit and to the   *)
(* same satellite of the next orbit, the smaller number first.             *)
PlusGridIsls(shell, offset) ==
    LET Id(i, j) == offset + ((i % shell.orbits) * shell.spo) + (j % shell.spo)
        Link(a, b) == IF a < b THEN <<a, b>> ELSE <<b, a>>
    IN  [n \in 1..2 * Satellites(shell) |->
            LET i == ((n - 1) \div 2) \div shell.spo
                j == ((n - 1) \div 2) % shell.spo
            IN  IF n % 2 = 1 THEN Link(Id(i, j), Id(i, j + 1))
                             ELSE Link(Id(i, j), Id(i + 1, j))]

WriteShells(shells) ==
    [header |-> <<1, Total(shells)>>, blocks |-> Total(shells),
     isls |-> FlattenSeq([k \in DOMAIN shells |-> PlusGridIsls(shells[k], Offset(shells, k))])]

(* One interface to the ground for each node. *)
SimpleGslInterfacesInfo(nodes) == [i \in 1..nodes |-> [node |-> i - 1, ifs |-> 1]]

Accepts(shells, stations) ==
    stations >= 2 /\ \A k \in DOMAIN shells : shells[k].orbits >= 3 /\ shells[k].spo >= 3

Generate(shells, stations) ==
    LET written == WriteShells(shells)
    IN  [header |-> written.header, blocks |-> written.blocks, isls |-> written.isls,
         stations |-> [i \in 1..stations |-> i - 1],
         gsl |-> SimpleGslInterfacesInfo(Total(shells) + stations)]
-----------------------------------------------------------------------------
(* The links of a satellite get its interfaces in the order of the file,   *)
(* the interface to the ground comes after them.                           *)
LinksOf(isls, s) == {i \in DOMAIN isls : s \in {isls[i][1], isls[i][2]}}
IslIf(isls, s, i) == Cardinality({j \in LinksOf(isls, s) : j < i})
GslIf(isls, s) == Cardinality(LinksOf(isls, s))

Line(from, to, next, my, nxt) ==
    [from |-> from, to |-> to, next |-> next, my |-> my, nxt |-> nxt]

(* algorithm_free_one_only_over_isls: a satellite forwards over a link or  *)
(* down to the target, a ground station up; or there is no route.          *)
Nodes(f) == 0..f.blocks + Len(f.stations) - 1
Stations(f) == f.blocks..f.blocks + Len(f.stations) - 1
OtherSide(isls, i, s) == IF isls[i][1] = s THEN isls[i][2] ELSE isls[i][1]

NoRouteLines(f, g) == {Line(a, g, -1, -1, -1) : a \in Nodes(f) \ {g}}
IslLines(f, g) ==
    UNION {{Line(s, g, OtherSide(f.isls, i, s),
                 IslIf(f.isls, s, i), IslIf(f.isls, OtherSide(f.isls, i, s), i)) :
               s \in {f.isls[i][1], f.isls[i][2]}} : i \in DOMAIN f.isls}
DownLines(f, g) == {Line(s, g, g, GslIf(f.isls, s), 0) : s \in 0..f.blocks - 1}
UpLines(f, g) == {Line(h, g, s, 0, GslIf(f.isls, s)) : h \in Stations(f) \ {g}, s \in 0..f.blocks - 1}

FstateLines(f) ==
    UNION {NoRouteLines(f, g) \cup IslLines(f, g) \cup DownLines(f, g) \cup UpLines(f, g) :
              g \in Stations(f)}

GslIfBandwidthLines(f) ==
    {[node |-> s, if |-> GslIf(f.isls, s)] : s \in 0..f.blocks - 1}
    \cup {[node |-> g, if |-> 0] : g \in Stations(f)}
=============================================================================
