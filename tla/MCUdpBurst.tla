----------------------------- MODULE MCUdpBurst -----------------------------
(* Schedules for two hosts: bursts one after the other, together, within   *)
(* each other, across the end of the run, of no duration; and schedules    *)
(* the reader refuses.                                                     *)
EXTENDS UdpBurst

B(from, to, start, duration, gap) ==
    [from |-> from, to |-> to, start |-> start, duration |-> duration, gap |-> gap]

MCSchedules == {
    << >>,
    <<B(1, 2, 0, 4, 2), B(1, 2, 4, 1, 3)>>,
    <<B(1, 2, 1, 5, 2), B(1, 2, 1, 3, 3), B(2, 1, 2, 0, 1)>>,
    <<B(1, 2, 0, 9, 3), B(2, 1, 1, 3, 1), B(1, 2, 3, 2, 2)>>,
    <<B(1, 2, 2, 1, 1), B(1, 2, 1, 1, 1)>>,
    <<B(1, 1, 0, 1, 1)>>,
    <<B(1, 2, 9, 1, 1)>>,
    <<B(1, 3, 0, 1, 1)>> }
=============================================================================
