--------------------- MODULE MCTopologySatelliteNetwork ---------------------
(* Networks of one and of two shells, and three satellites with two ground *)
(* stations whose files are edited: each in its own way, one line wrong or *)
(* one more or less; every line of small numbers is tried on the rest.     *)
EXTENDS TopologySatelliteNetwork

Shell(o, s) == [orbits |-> o, spo |-> s]
Some == {[shells |-> <<Shell(3, 3)>>, stations |-> 2],
         [shells |-> <<Shell(3, 3), Shell(4, 3)>>, stations |-> 3]}

Row == [header |-> <<1, 3>>, blocks |-> 3, stations |-> <<0, 1>>,
        isls |-> << <<0, 1>>, <<1, 2>> >>, gsl |-> SimpleGslInterfacesInfo(5)]

Variants ==
    {Row} \cup
    {[Row EXCEPT !.blocks = b] : b \in {2, 4}} \cup
    {[Row EXCEPT !.stations = s] : s \in {<<1, 0>>, <<0>>, <<0, 1, 2>>}} \cup
    {[Row EXCEPT !.isls = Append(@, l)] : l \in {<<1, 0>>, <<2, 2>>, <<2, 3>>}} \cup
    {[Row EXCEPT !.gsl[i].ifs = n] : i \in {2, 5}, n \in {0, 2}} \cup
    {[Row EXCEPT !.gsl[2].node = 0]}

LinesTried ==
    {Line(a, b, n, my, nxt) : a \in 0..5, b \in {3, 5}, n \in -1..5, my \in -2..4, nxt \in -1..4}
RatesTried == [node : 0..5, if : 0..4]
=============================================================================
