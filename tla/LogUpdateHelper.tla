--------------------------- MODULE LogUpdateHelper ---------------------------
(***************************************************************************)
(* LogUpdateHelper, as operators on its state: it turns a series of        *)
(* (time, value) updates into a log of intervals.  Of several updates at   *)
(* one time the last one counts.  Beside the log the helper holds two      *)
(* intervals that are not in it yet: alpha, whose value is known, and beta *)
(* behind it, which began at the last update and can still change value.   *)
(***************************************************************************)
EXTENDS Integers, Sequences

None == -1            \* a time or a value that does not exist yet

NewLog ==
    [log |-> <<>>,         \* m_log_time_value
     last |-> None,        \* m_last_update_value
     check |-> None,       \* m_last_interval_check_time
     alpha |-> None,       \* m_interval_alpha_left_time
     alphaValue |-> None,  \* m_interval_alpha_value
     beta |-> None]        \* m_interval_beta_left_time

Interval(from, to, value) == [from |-> from, to |-> to, value |-> value]

(* Update and Finalize throw if they are called for a time before the last. *)
InThePast(l, time) == time < 0 \/ time < l.check

(* Mutant of PushAlpha: alpha gets the value of the interval behind it. *)
PushAlphaNewValue(l, time) ==
    [l EXCEPT !.log = Append(@, Interval(l.alpha, l.beta, l.last)),
              !.alpha = l.beta, !.alphaValue = l.last, !.beta = time]

(* Alpha goes to the log and beta becomes alpha. *)
PushAlpha(l, time) ==
    [l EXCEPT !.log = Append(@, Interval(l.alpha, l.beta, l.alphaValue)),
              !.alpha = l.beta, !.alphaValue = l.last, !.beta = time]

(* Mutant of NextMoment: it is not checked that beta has started. *)
NextMomentForgetsBeta(l, time) ==
    IF l.alpha = None THEN [l EXCEPT !.alpha = time]
    ELSE IF l.alphaValue = l.last THEN [l EXCEPT !.beta = time]
    ELSE PushAlpha(l, time)

(* The first update at a new time decides the value of the interval before. *)
NextMoment(l, time) ==
    IF l.alpha = None THEN [l EXCEPT !.alpha = time]
    ELSE IF l.beta = None THEN [l EXCEPT !.beta = time, !.alphaValue = l.last]
    ELSE IF l.alphaValue = l.last THEN [l EXCEPT !.beta = time]
    ELSE PushAlpha(l, time)

Updated(l, time, value) ==
    LET moved == IF time > l.check THEN [NextMoment(l, time) EXCEPT !.check = time] ELSE l
    IN  [moved EXCEPT !.last = value]

(* An interval, if it is not empty. *)
IfNotEmpty(i) == IF i.from = i.to THEN <<>> ELSE <<i>>

(* Mutant of Remaining: the last interval is not logged. *)
RemainingOnlyAlpha(l, time) ==
    IF l.alpha = None THEN <<>>
    ELSE IF l.beta = None THEN IfNotEmpty(Interval(l.alpha, time, l.last))
    ELSE <<Interval(l.alpha, l.beta, l.alphaValue)>>

(* What Finalize appends to the log. *)
Remaining(l, time) ==
    IF l.alpha = None THEN <<>>
    ELSE IF l.beta = None THEN IfNotEmpty(Interval(l.alpha, time, l.last))
    ELSE IF l.alphaValue = l.last THEN <<Interval(l.alpha, time, l.alphaValue)>>
    ELSE <<Interval(l.alpha, l.beta, l.alphaValue)>>
             \o IfNotEmpty(Interval(l.beta, time, l.last))

FinalizedLog(l, time) == [l EXCEPT !.log = @ \o Remaining(l, time)]
=============================================================================
