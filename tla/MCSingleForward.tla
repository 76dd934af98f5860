------------------------- MODULE MCSingleForward -------------------------
EXTENDS SingleForward

CONSTANTS s1, s2, gA, gB

MCIsl == {{s1, s2}}
MCFlow == {<<gA, gB>>}

Over(n) == [next |-> n, isl |-> FALSE]
Laser(n) == [next |-> n, isl |-> TRUE]

(* Towards gB: from gA to a, from s1 to b, from s2 to c; nothing goes to gA. *)
Table(a, b, c) ==
    [x \in Pair |-> IF x[2] = gA THEN Drop
                    ELSE CASE x[1] = gA -> a [] x[1] = s1 -> b [] x[1] = s2 -> c]

Down1 == Table(Over(s1), Over(gB), Laser(s1))      \* gB sees s1
Down2 == Table(Over(s1), Laser(s2), Over(gB))      \* gB sees s2
Lost == Table(Over(s2), Drop, Drop)                \* gB sees no satellite
Alone == Table(Drop, Over(gB), Laser(s1))          \* gA sees no satellite
Partial == [x \in {<<gA, gB>>, <<s2, gB>>} |-> Down1[x]]
Wrong == Table(Over(s1), Over(gB), Laser(gB))      \* a laser link to the ground

History(h) == [k \in 0..(Len(h) - 1) |-> h[k + 1]]

MCGenerated ==
    {History(<<Down1, Down2, Lost>>), History(<<Down2, Down1, Alone>>),
     History(<<Lost, Lost, Down1>>), History(<<Down1, Wrong>>),
     History(<<Wrong>>), History(<<Partial>>),
     History(<<[x \in {} |-> Drop]>>)}

RatesOfA(r) == [n \in Node |-> IF n = gA THEN r ELSE 1]
MCRates == {History(<<RatesOfA(1), RatesOfA(2), RatesOfA(2)>>),
            History(<<RatesOfA(2)>>), History(<<>>)}
=============================================================================
