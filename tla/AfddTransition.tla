--------------------------- MODULE AfddTransition ---------------------------
(***************************************************************************)
(* The pure half of src/afdd/evaluator.py: what one telemetry sample   *)
(* does to one evaluation state and to the issues of that state.           *)
(*                                                                         *)
(* A target is a pair (rule version, AHU): the key of a row of the table   *)
(* afdd_evaluation_states.  The state machine has three states, NORMAL,    *)
(* QUALIFYING (a fault is being timed) and OPEN (an issue is open).        *)
(* Everything here is a function of its arguments; the modules that extend *)
(* this one add the database and the processes.                            *)
(***************************************************************************)
EXTENDS Integers, Sequences, FiniteSets, SequencesExt

CONSTANTS
    Targets,     \* the (rule version, equipment) pairs that are evaluated
    Properties,  \* the properties an AHU can lie in
    Threshold,   \* Threshold[t][p]: effective_threshold of target t while its
                 \* AHU lies in property p, in whole degrees
    Duration,    \* Duration[t][p]: effective_duration_seconds likewise
    Freshness,   \* freshness_seconds of each target's rule version
    None,        \* SQL NULL, Python None, an absent row
    NonNumeric   \* a reading float() refuses

(* FaultLogic and PropertyOverride declare all three numbers gt=0.  A      *)
(* version can override threshold and duration for a property, but not the *)
(* freshness.                                                              *)
ASSUME LogicAssumption ==
    /\ Threshold \in [Targets -> [Properties -> Nat \ {0}]]
    /\ Duration  \in [Targets -> [Properties -> Nat \ {0}]]
    /\ Freshness \in [Targets -> Nat \ {0}]

ASSUME NoneAssumption ==
    /\ None \notin Int
    /\ NonNumeric \notin Int
    /\ None # NonNumeric

(* required_points; TargetScope admits exactly this set.                   *)
Points == {"RUN", "SAT", "SAT_SP"}

(* A sample is [observed_at, readings, property]; readings[p] is None or a *)
(* record [value, observed_at, quality].  RUN is "ON" or "OFF" (after      *)
(* upper()); the two temperatures are integers or NonNumeric.  The         *)
(* property is where the preview of this poll found the AHU: it decides    *)
(* the numbers the sample is judged by.                                    *)

-----------------------------------------------------------------------------
(* What a sample says.                                                     *)

(* Variant: a reading from the sample's future counts as fresh.            *)
IsFresh_FutureAllowed(t, s, r) == s.observed_at - r.observed_at <= Freshness[t]

IsFresh(t, s, r) ==
    LET age == s.observed_at - r.observed_at
    IN  0 <= age /\ age <= Freshness[t]

Trustworthy(t, s) ==
    /\ \A p \in Points : /\ s.readings[p] # None
                         /\ s.readings[p].quality = "GOOD"
                         /\ IsFresh(t, s, s.readings[p])
    /\ s.readings["SAT"].value # NonNumeric
    /\ s.readings["SAT_SP"].value # NonNumeric

AbsoluteDifference(s) ==
    LET d == s.readings["SAT"].value - s.readings["SAT_SP"].value
    IN  IF d < 0 THEN -d ELSE d

RunOn(s) == s.readings["RUN"].value = "ON"

(* The strict comparison of the rule; only asked of a trustworthy sample.  *)
Qualifies(t, s) == RunOn(s) /\ AbsoluteDifference(s) > Threshold[t][s.property]

(* The record stored in a window, in an issue's samples and in a recovery. *)
SampleEvidence(t, s) ==
    [ observed_at         |-> s.observed_at,
      readings            |-> s.readings,
      absolute_difference |-> IF Trustworthy(t, s)
                              THEN AbsoluteDifference(s) ELSE None,
      trustworthy         |-> Trustworthy(t, s) ]

-----------------------------------------------------------------------------
(* A row of afdd_evaluation_states.  _load_state reads a missing row as    *)
(* DefaultState.  A saved row always carries the time of a sample, so the  *)
(* row exists exactly when last_observed_at is not None.                   *)

Row(state, last, started, window) ==
    [ state                 |-> state,
      last_observed_at      |-> last,
      qualifying_started_at |-> started,
      qualifying_evidence   |-> window ]

DefaultState == Row("NORMAL", None, None, <<>>)

RowExists(st) == st.last_observed_at # None

-----------------------------------------------------------------------------
(* evaluate_transition.                                                    *)

(* Variants: an equal time is taken as new; no time is late.               *)
IsLate_Older(st, s) == RowExists(st) /\ s.observed_at < st.last_observed_at
IsLate_Never(st, s) == FALSE

IsLate(st, s) ==
    /\ RowExists(st)
    /\ s.observed_at <= st.last_observed_at

BreaksContinuity(t, st, s) ==
    /\ st.state = "QUALIFYING"
    /\ RowExists(st)
    /\ s.observed_at - st.last_observed_at > Freshness[t]

(* The state the sample is judged in: a broken window is dropped first.    *)
AfterGap(t, st, s) ==
    IF BreaksContinuity(t, st, s)
    THEN Row("NORMAL", st.last_observed_at, None, <<>>)
    ELSE st

(* issue_action is "OPEN", "CLOSE" or "NONE".                              *)
Transition(outcome, row, action, started, reason) ==
    [ outcome           |-> outcome,
      row               |-> row,
      issue_action      |-> action,
      issue_started_at  |-> started,
      issue_reason      |-> reason ]

(* persist_state: a late sample is the only one that leaves the row alone. *)
Persists(tr) == tr.outcome # "IGNORED_LATE_OR_EQUAL"

LateTransition(st) ==
    Transition("IGNORED_LATE_OR_EQUAL", st, "NONE", None, None)

(* Variants: an untrusted sample clears an open state; it leaves the       *)
(* checkpoint where it is; it leaves the window where it is.               *)
UntrustedTransition_Clears(st, s) ==
    Transition("UNTRUSTWORTHY_INPUT", Row("NORMAL", s.observed_at, None, <<>>),
               "NONE", None, "UNTRUSTWORTHY_INPUT")
UntrustedTransition_NoAdvance(st, s) ==
    Transition("UNTRUSTWORTHY_INPUT",
               Row(IF st.state = "OPEN" THEN "OPEN" ELSE "NORMAL",
                   st.last_observed_at, None, <<>>),
               "NONE", None, "UNTRUSTWORTHY_INPUT")
UntrustedTransition_KeepsWindow(st, s) ==
    Transition("UNTRUSTWORTHY_INPUT",
               Row(st.state, s.observed_at, st.qualifying_started_at,
                   st.qualifying_evidence),
               "NONE", None, "UNTRUSTWORTHY_INPUT")

UntrustedTransition(st, s) ==
    Transition("UNTRUSTWORTHY_INPUT",
               Row(IF st.state = "OPEN" THEN "OPEN" ELSE "NORMAL",
                   s.observed_at, None, <<>>),
               "NONE", None, "UNTRUSTWORTHY_INPUT")

(* Variant: the recovery closes the issue and leaves the state as it is.   *)
NonFaultTransition_KeepsState(st, s) ==
    Transition(IF st.state = "OPEN" THEN "CLOSED" ELSE "NORMAL",
               Row(st.state, s.observed_at, None, <<>>),
               IF st.state = "OPEN" THEN "CLOSE" ELSE "NONE",
               None,
               IF RunOn(s) THEN "CONDITION_CLEARED" ELSE "AHU_OFF")

NonFaultTransition(st, s) ==
    Transition(IF st.state = "OPEN" THEN "CLOSED" ELSE "NORMAL",
               Row("NORMAL", s.observed_at, None, <<>>),
               IF st.state = "OPEN" THEN "CLOSE" ELSE "NONE",
               None,
               IF RunOn(s) THEN "CONDITION_CLEARED" ELSE "AHU_OFF")

RemainsOpenTransition(s) ==
    Transition("REMAINS_OPEN", Row("OPEN", s.observed_at, None, <<>>),
               "NONE", None, None)

(* Variant: the fault must last longer than the duration.                  *)
QualifyingTransition_Longer(t, st, s) ==
    LET fresh   == st.state = "NORMAL" \/ st.qualifying_started_at = None
        started == IF fresh THEN s.observed_at ELSE st.qualifying_started_at
        window  == IF fresh THEN <<SampleEvidence(t, s)>>
                   ELSE Append(st.qualifying_evidence, SampleEvidence(t, s))
    IN  IF s.observed_at - started > Duration[t][s.property]
        THEN Transition("OPENED", Row("OPEN", s.observed_at, None, <<>>),
                        "OPEN", started, None)
        ELSE Transition("QUALIFYING",
                        Row("QUALIFYING", s.observed_at, started, window),
                        "NONE", None, None)

(* A qualifying sample while no issue is open: start or extend the window, *)
(* and open the issue once the window spans the duration.                  *)
QualifyingTransition(t, st, s) ==
    LET fresh   == st.state = "NORMAL" \/ st.qualifying_started_at = None
        started == IF fresh THEN s.observed_at ELSE st.qualifying_started_at
        window  == IF fresh THEN <<SampleEvidence(t, s)>>
                   ELSE Append(st.qualifying_evidence, SampleEvidence(t, s))
    IN  IF s.observed_at - started >= Duration[t][s.property]
        THEN Transition("OPENED", Row("OPEN", s.observed_at, None, <<>>),
                        "OPEN", started, None)
        ELSE Transition("QUALIFYING",
                        Row("QUALIFYING", s.observed_at, started, window),
                        "NONE", None, None)

(* The early returns of the code, in its order.                            *)
EvaluateTransition(t, st, s) ==
    LET cur == AfterGap(t, st, s)
    IN  IF      IsLate(st, s)         THEN LateTransition(st)
        ELSE IF ~Trustworthy(t, s)    THEN UntrustedTransition(cur, s)
        ELSE IF ~Qualifies(t, s)      THEN NonFaultTransition(cur, s)
        ELSE IF cur.state = "OPEN"    THEN RemainsOpenTransition(s)
        ELSE QualifyingTransition(t, cur, s)

-----------------------------------------------------------------------------
(* The issue rows of one target, in the order they were inserted.          *)

IsOpen(issue) == issue.status = "OPEN"

(* Variant: the number of the last occurrence.                             *)
NextOccurrence_Last(list) == Max({list[i].occurrence : i \in DOMAIN list} \cup {0})

NextOccurrence(list) ==
    Max({list[i].occurrence : i \in DOMAIN list} \cup {0}) + 1

(* property stands for the columns threshold, duration_seconds and         *)
(* effective_override and for the topology in the evidence.                *)
OpenIssue(list, property, started, opened, window) ==
    Append(list, [ occurrence            |-> NextOccurrence(list),
                   status                |-> "OPEN",
                   property              |-> property,
                   qualifying_started_at |-> started,
                   opened_at             |-> opened,
                   closed_at             |-> None,
                   samples               |-> window,
                   recovery              |-> None ])

(* Variant: closes every row of the target, the closed ones again.         *)
CloseIssue_Every(list, closed, reason, evidence) ==
    [i \in DOMAIN list |->
        [list[i] EXCEPT !.status    = "CLOSED",
                        !.closed_at = closed,
                        !.recovery  = [ closed_at |-> closed,
                                        reason    |-> reason,
                                        sample    |-> evidence ]]]

(* The code takes the first OPEN row and returns when there is none; the   *)
(* unique index one_open_issue_per_rule_version_equipment leaves at most   *)
(* one, so updating every OPEN row is the same.                            *)
CloseIssue(list, closed, reason, evidence) ==
    [i \in DOMAIN list |->
        IF IsOpen(list[i])
        THEN [list[i] EXCEPT !.status    = "CLOSED",
                             !.closed_at = closed,
                             !.recovery  = [ closed_at |-> closed,
                                             reason    |-> reason,
                                             sample    |-> evidence ]]
        ELSE list[i]]

(* Variant: the evidence is taken from the row after the transition, whose *)
(* window is already empty.                                                *)
IssuesAfter_NewWindow(t, st, list, s) ==
    LET tr == EvaluateTransition(t, st, s)
        ev == SampleEvidence(t, s)
    IN  IF tr.issue_action = "OPEN"
        THEN OpenIssue(list, s.property, tr.issue_started_at,
                       tr.row.last_observed_at, Append(tr.row.qualifying_evidence, ev))
        ELSE IF tr.issue_action = "CLOSE"
        THEN CloseIssue(list, tr.row.last_observed_at, tr.issue_reason, ev)
        ELSE list

(* The writes of one evaluate_sample transaction: the issue first, from    *)
(* the window of the state that was LOADED, then the row.                  *)
IssuesAfter(t, st, list, s) ==
    LET tr == EvaluateTransition(t, st, s)
        ev == SampleEvidence(t, s)
    IN  IF tr.issue_action = "OPEN"
        THEN OpenIssue(list, s.property, tr.issue_started_at,
                       tr.row.last_observed_at, Append(st.qualifying_evidence, ev))
        ELSE IF tr.issue_action = "CLOSE"
        THEN CloseIssue(list, tr.row.last_observed_at, tr.issue_reason, ev)
        ELSE list

RowAfter(t, st, s) ==
    LET tr == EvaluateTransition(t, st, s)
    IN  IF Persists(tr) THEN tr.row ELSE st
=============================================================================
