---------------------------- MODULE FaultTimeline ----------------------------
(***************************************************************************)
(* What the readers of the issue table (the API, the dashboard and the     *)
(* read-only assistant tools) may rely on, without samples or states: each *)
(* target has a timeline of faults in device time.  A fault is raised only *)
(* when none is open, only after it has lasted the duration, and only from *)
(* a start that lies after the end of the fault before it; an open fault   *)
(* can only end, and only at a time newer than any seen before.            *)
(***************************************************************************)
EXTENDS Integers, Sequences

CONSTANTS
    Targets,
    Properties,
    Duration,  \* Duration[t][p]: the least duration of a fault of t that is
               \* raised while its AHU lies in property p
    Time,      \* the device times, a set of natural numbers
    None

VARIABLES
    faults,   \* faults[t]: sequence of [start, raised, ended]
    newest    \* newest[t]: the newest device time seen, or None

TimelineInit ==
    /\ faults = [t \in Targets |-> <<>>]
    /\ newest = [t \in Targets |-> None]

NoneOpen(t) == \A i \in DOMAIN faults[t] : faults[t][i].ended # None

Newer(t, now) == newest[t] = None \/ newest[t] < now

(* Device time moves on and nothing else happens.                          *)
Observe(t, now) ==
    /\ Newer(t, now)
    /\ newest' = [newest EXCEPT ![t] = now]
    /\ UNCHANGED faults

Raise(t, start, now) ==
    /\ Newer(t, now)
    /\ NoneOpen(t)
    /\ \E p \in Properties : now - start >= Duration[t][p]
    /\ \A i \in DOMAIN faults[t] : faults[t][i].ended < start
    /\ newest' = [newest EXCEPT ![t] = now]
    /\ faults' = [faults EXCEPT ![t] =
                     Append(@, [start |-> start, raised |-> now, ended |-> None])]

Ended(fault, now) == [fault EXCEPT !.ended = now]

End(t, now) ==
    LET n == Len(faults[t])
    IN  /\ Newer(t, now)
        /\ n > 0
        /\ faults[t][n].ended = None
        /\ newest' = [newest EXCEPT ![t] = now]
        /\ faults' = [faults EXCEPT ![t] =
                         [faults[t] EXCEPT ![n] = Ended(faults[t][n], now)]]

Forget ==
    /\ faults' = [t \in Targets |-> <<>>]
    /\ newest' = [t \in Targets |-> None]

TimelineNext ==
    \/ \E t \in Targets, now \in Time :
         \/ Observe(t, now)
         \/ \E start \in Time : Raise(t, start, now)
         \/ End(t, now)
    \/ Forget

TimelineSpec == TimelineInit /\ [][TimelineNext]_<<faults, newest>>
=============================================================================
