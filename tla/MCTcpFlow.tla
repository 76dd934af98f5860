----------------------------- MODULE MCTcpFlow -----------------------------
(* Schedules: none, a flow larger than the buffer and one that is not,     *)
(* one later; an unlimited flow and a small one at one time; the reader's  *)
(* two reasons to refuse a schedule.                                       *)
EXTENDS TcpFlow

F(start, size) == [start |-> start, size |-> size]

MCSchedules == {
    << >>,
    <<F(0, 4), F(1, 1)>>,
    <<F(1, 1), F(1, 0)>>,
    <<F(1, 2), F(0, 1)>>,
    <<F(5, 1)>> }

(* A variable that is not initialized: a value no measurement has, or one. *)
MCAnyValue == {-1, 1}
=============================================================================
