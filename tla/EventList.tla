------------------------------ MODULE EventList ------------------------------
(***************************************************************************)
(* The event list of the simulator.  An event is a record with the time ts *)
(* it was scheduled for and the number uid it got: events run in the order *)
(* of their times, those of one time in the order of scheduling.           *)
(***************************************************************************)
EXTENDS Naturals

Before(e, f) == e.ts < f.ts \/ (e.ts = f.ts /\ e.uid < f.uid)

IsNextEvent(e, events) == \A f \in events : e = f \/ Before(e, f)

(* Simulator::Stop was scheduled before everything else: what is due at    *)
(* the end time, or later, never runs.                                     *)
Runs(e, events, endTime) == e.ts < endTime /\ IsNextEvent(e, events)
NothingLeft(events, endTime) == \A e \in events : endTime <= e.ts
==============================================================================
