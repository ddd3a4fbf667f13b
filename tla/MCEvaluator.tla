----------------------------- MODULE MCEvaluator -----------------------------
(***************************************************************************)
(* A small instance of Evaluator.  One time unit is the source's nominal    *)
(* 60-second interval, so the default freshness of 120 s is 2 units; a     *)
(* temperature unit is one degree.  Property pB is overridden: a deviation *)
(* of 3 is a fault there and not in pA, and a fault need not last as long. *)
(***************************************************************************)
EXTENDS Evaluator

CONSTANTS
    ahuA, pA, pB,
    MaxTime,    \* samples are observed at 1..MaxTime
    Kinds       \* Kinds[p]: the kinds of sample in property p, see Readings

Good(v, at) == [value |-> v, observed_at |-> at, quality |-> "GOOD"]

(* The readings of the three points in a sample observed at time at.       *)
Readings(kind, at) ==
    [ RUN    |-> Good("ON", at),
      SAT    |-> Good(IF kind = "equal" THEN 13 ELSE 20, at),
      SAT_SP |-> IF kind = "missing" THEN None ELSE Good(16, at) ]

MCSample == UNION {{[observed_at |-> at, readings |-> Readings(k, at), property |-> p] :
                       k \in Kinds[p], at \in 1..MaxTime} : p \in Properties}

TimingKinds == [p \in Properties |-> IF p = pA THEN {"fault", "equal", "missing"}
                                     ELSE {"fault", "equal"}]

MCThreshold == [t \in Targets |-> [p \in Properties |-> IF p = pA THEN 3 ELSE 2]]
MCDuration  == [t \in Targets |-> [p \in Properties |-> IF p = pA THEN 2 ELSE 1]]
MCFreshness == [t \in Targets |-> 2]
=============================================================================
