----------------------------- MODULE FifoServer -----------------------------
(***************************************************************************)
(* What a transmitting net device promises to the layer above it: a        *)
(* work-conserving single server with a bounded FIFO waiting room in front *)
(* of a medium.  A job is a packet together with the receiver it was       *)
(* handed over for; the two are never separated.  Nothing here mentions    *)
(* time, events or how the device stores its queue.                        *)
(***************************************************************************)
EXTENDS Naturals, Sequences

CONSTANTS Server,     \* the devices
          Job,        \* everything that can be handed to a device
          Capacity,   \* jobs a waiting room holds
          Idle        \* not a job

VARIABLES up,         \* servers that are attached to the medium
          serving,    \* per server, the job being put on the medium, or Idle
          waiting,    \* per server, the accepted jobs in order of acceptance
          flying,     \* jobs that have been put on the medium
          arrived,    \* jobs the medium has brought to the receiver
          refused     \* jobs turned away

vars == <<up, serving, waiting, flying, arrived, refused>>

Init == /\ up = {}
        /\ serving = [s \in Server |-> Idle]
        /\ waiting = [s \in Server |-> <<>>]
        /\ flying = {}
        /\ arrived = {}
        /\ refused = {}

ComeUp(s) ==
    /\ up' = up \cup {s}
    /\ UNCHANGED <<serving, waiting, flying, arrived, refused>>

(* A job is turned away only by a server that is down or whose room is full. *)
Refuse(s, j) ==
    /\ s \notin up \/ Len(waiting[s]) >= Capacity
    /\ refused' = refused \cup {j}
    /\ UNCHANGED <<up, serving, waiting, flying, arrived>>

(* An idle server serves at once, so it never holds a job back. *)
AcceptIdle(s, j) ==
    /\ s \in up
    /\ serving[s] = Idle
    /\ serving' = [serving EXCEPT ![s] = j]
    /\ flying' = flying \cup {j}
    /\ UNCHANGED <<up, waiting, arrived, refused>>

AcceptBusy(s, j) ==
    /\ s \in up
    /\ serving[s] # Idle
    /\ Len(waiting[s]) < Capacity
    /\ waiting' = [waiting EXCEPT ![s] = Append(@, j)]
    /\ UNCHANGED <<up, serving, flying, arrived, refused>>

FinishAndIdle(s) ==
    /\ serving[s] # Idle
    /\ waiting[s] = <<>>
    /\ serving' = [serving EXCEPT ![s] = Idle]
    /\ UNCHANGED <<up, waiting, flying, arrived, refused>>

FinishAndContinue(s) ==
    /\ serving[s] # Idle
    /\ waiting[s] # <<>>
    /\ serving' = [serving EXCEPT ![s] = Head(waiting[s])]
    /\ waiting' = [waiting EXCEPT ![s] = Tail(@)]
    /\ flying' = flying \cup {Head(waiting[s])}
    /\ UNCHANGED <<up, arrived, refused>>

Arrive(j) ==
    /\ j \in flying
    /\ flying' = flying \ {j}
    /\ arrived' = arrived \cup {j}
    /\ UNCHANGED <<up, serving, waiting, refused>>

Next == \/ \E s \in Server : ComeUp(s) \/ FinishAndIdle(s) \/ FinishAndContinue(s)
        \/ \E s \in Server, j \in Job :
               Refuse(s, j) \/ AcceptIdle(s, j) \/ AcceptBusy(s, j)
        \/ \E j \in Job : Arrive(j)

Spec == Init /\ [][Next]_vars
=============================================================================
