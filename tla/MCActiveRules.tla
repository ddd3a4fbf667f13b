----------------------------- MODULE MCActiveRules -----------------------------
(***************************************************************************)
(* A rule with two versions of different duration, a rule with one, and    *)
(* one AHU; samples that show or refute the fault, at 1..MaxTime.  The     *)
(* first rule overrides property pB, where 19 degrees are a fault.  At     *)
(* first version v1 and the other rule are active and everything is in     *)
(* scope and in pA, so that each case differs from the start by one or two *)
(* changes.                                                                *)
(***************************************************************************)
EXTENDS ActiveRules

CONSTANTS MaxTime, a, v1, v2, w, pA, pB

Good(v, at) == [value |-> v, observed_at |-> at, quality |-> "GOOD"]

SampleAt(at, sat, p) ==
    [ observed_at |-> at,
      readings    |-> [RUN    |-> Good("ON", at),
                       SAT    |-> Good(sat, at),
                       SAT_SP |-> Good(16, at)],
      property    |-> p ]

MCSample ==
    {SampleAt(1, 20, p) : p \in Properties} \cup
    {SampleAt(2, sat, p) : sat \in {19, 20}, p \in Properties} \cup
    {SampleAt(3, 19, p) : p \in Properties}

MCTargets == [version : Versions, ahu : Ahus]

MCRuleOf == [v \in Versions |-> IF v = w THEN 2 ELSE 1]

MCThreshold ==
    [t \in MCTargets |-> [p \in Properties |-> IF p = pB /\ t.version # w THEN 2 ELSE 3]]
MCDuration ==
    [t \in MCTargets |-> [p \in Properties |-> IF t.version = v2 THEN 2 ELSE 1]]
MCFreshness == [t \in MCTargets |-> 2]

MCInit ==
    /\ ActiveRulesInit
    /\ active = [r \in Rules |-> IF r = 1 THEN v1 ELSE w]
    /\ found  = [v \in Versions |-> [x \in Ahus |-> {pA}]]

MCSpec == MCInit /\ [][ActiveRulesNext]_activeRulesVars /\ PollsGoOn
=============================================================================
