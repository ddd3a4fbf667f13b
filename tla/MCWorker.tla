------------------------------ MODULE MCWorker ------------------------------
(***************************************************************************)
(* Small instances of Worker: one AHU, samples that show or refute the     *)
(* fault, observed at 1..MaxTime and accepted in any order.                *)
(***************************************************************************)
EXTENDS Worker

CONSTANTS MaxTime, ahu, pA, svc, svc2, once

Good(v, at) == [value |-> v, observed_at |-> at, quality |-> "GOOD"]

MCSample ==
    {[observed_at |-> at,
      readings    |-> [RUN    |-> Good("ON", at),
                       SAT    |-> Good(sat, at),
                       SAT_SP |-> Good(16, at)],
      property    |-> pA] :
        at \in 1..MaxTime, sat \in {16, 20}}

MCThreshold == [t \in Targets |-> [p \in Properties |-> 3]]
MCDuration  == [t \in Targets |-> [p \in Properties |-> 1]]
MCFreshness == [t \in Targets |-> 2]
=============================================================================
