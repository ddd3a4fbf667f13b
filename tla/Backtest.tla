------------------------------- MODULE Backtest -------------------------------
(***************************************************************************)
(* backtest_rule_version of src/afdd/backtest.py for one target: the       *)
(* transition function of the evaluator over the events of a window, from  *)
(* the default state and without a table.  It reads every accepted event   *)
(* of the window in the order of receipt, those the evaluator ignored as   *)
(* late included.                                                          *)
(*                                                                         *)
(* A what-if run replaces the threshold and the duration of the target;    *)
(* here it is a run for a target that has those numbers.  The properties   *)
(* compare a run with the tables the evaluator has written meanwhile.      *)
(*                                                                         *)
(* Abstraction: a run previews its targets once and judges old events by   *)
(* the numbers of today.  Here no ontology change moves an AHU, so these   *)
(* are the numbers the evaluator judged them by; ActiveRules has the move. *)
(***************************************************************************)
EXTENDS Evaluator

CONSTANT MaxReceived    \* bound on the events of one target

ASSUME BacktestAssumption == InOneProperty /\ MaxReceived \in Nat

(* A transition without a reason has none of the reasons.                  *)
ASSUME ReasonAssumption ==
    None \notin {"AHU_OFF", "CONDITION_CLEARED", "UNTRUSTWORTHY_INPUT"}

(* received[t]: the accepted events of t in the order of receipt, as far   *)
(* as the evaluator has come with them since its tables were last empty.   *)
(* That it is handed the same events again at every poll changes nothing   *)
(* (OnlyNewTimesAdvance).                                                  *)
VARIABLE received

BacktestInit ==
    /\ EvaluatorInit
    /\ received = Empty.issues

Deliver(t, s) ==
    /\ Len(received[t]) < MaxReceived
    /\ EvaluateSample(t, s)
    /\ received' = [received EXCEPT ![t] = Append(@, s)]

(* After a reset the evaluator takes the list from its beginning.          *)
StartOver ==
    /\ ResetEvaluation
    /\ received' = Empty.issues

BacktestNext ==
    \/ \E t \in Targets, s \in Sample : Deliver(t, s)
    \/ StartOver

BacktestSpec == BacktestInit /\ [][BacktestNext]_<<vars, received>>

-----------------------------------------------------------------------------
(* Variant: the window leaves its last moment out.                         *)
InWindow_Exclusive(s, start, end) == start <= s.observed_at /\ s.observed_at < end

InWindow(s, start, end) == start <= s.observed_at /\ s.observed_at <= end

(* The history of a run: occurrences as found, and which outcomes and      *)
(* issue reasons were counted at all.                                      *)
Begun == [ row |-> DefaultState, occurrences |-> <<>>, outcomes |-> {}, reasons |-> {} ]

WithOccurrence(occurrences, tr) ==
    IF tr.issue_action = "OPEN"
    THEN Append(occurrences, [ start  |-> tr.issue_started_at,
                               raised |-> tr.row.last_observed_at,
                               ended  |-> None ])
    ELSE IF tr.issue_action = "CLOSE" /\ occurrences # <<>>
    THEN [occurrences EXCEPT ![Len(occurrences)].ended = tr.row.last_observed_at]
    ELSE occurrences

Advance(t, run, s) ==
    LET tr == EvaluateTransition(t, run.row, s)
    IN  [ row         |-> IF Persists(tr) THEN tr.row ELSE run.row,
          occurrences |-> WithOccurrence(run.occurrences, tr),
          outcomes    |-> run.outcomes \cup {tr.outcome},
          reasons     |-> run.reasons \cup ({tr.issue_reason} \ {None}) ]

(* samples: the accepted events of the AHU in the order of receipt.        *)
Simulate(t, samples, start, end) ==
    LET after[n \in 0..Len(samples)] ==
          IF n = 0 THEN Begun
          ELSE IF InWindow(samples[n], start, end)
          THEN Advance(t, after[n-1], samples[n])
          ELSE after[n-1]
    IN  after[Len(samples)]

(* Variant: a switched-off AHU is reported before a fault that was timed.  *)
NonTriggerReason_OffFirst(run) ==
    IF      run.outcomes = {}                        THEN "NO_TELEMETRY_IN_WINDOW"
    ELSE IF "AHU_OFF" \in run.reasons                THEN "AHU_OFF"
    ELSE IF "QUALIFYING" \in run.outcomes            THEN "DURATION_NOT_MET"
    ELSE IF "UNTRUSTWORTHY_INPUT" \in run.outcomes   THEN "UNTRUSTWORTHY_INPUT"
    ELSE "CONDITION_NOT_MET"

NonTriggerReason(run) ==
    IF      run.outcomes = {}                        THEN "NO_TELEMETRY_IN_WINDOW"
    ELSE IF "QUALIFYING" \in run.outcomes            THEN "DURATION_NOT_MET"
    ELSE IF "AHU_OFF" \in run.reasons                THEN "AHU_OFF"
    ELSE IF "UNTRUSTWORTHY_INPUT" \in run.outcomes   THEN "UNTRUSTWORTHY_INPUT"
    ELSE "CONDITION_NOT_MET"

-----------------------------------------------------------------------------
(* Properties.                                                             *)

Times == {s.observed_at : s \in Sample}

Windows == {w \in Times \X Times : w[1] < w[2]}

LastBefore(samples, i, start) ==
    /\ samples[i].observed_at < start
    /\ i < Len(samples) => start <= samples[i+1].observed_at

(* Nothing is being timed or open when the window begins: the last of the  *)
(* samples taken before it, if there is one, recovers.                     *)
QuietBefore(t, samples, start) ==
    \A i \in 1..Len(samples) :
        LastBefore(samples, i, start) => Recovers(t, samples[i])

(* Sample i of a list lies in the window and is newer than those of the    *)
(* window received before it.                                              *)
NewInWindow(samples, i, start, end) ==
    /\ InWindow(samples[i], start, end)
    /\ \A j \in 1..(i-1) :
         InWindow(samples[j], start, end) =>
             samples[j].observed_at < samples[i].observed_at

(* Such a sample is late for the evaluator, and not for a run, when one    *)
(* from beyond the window was received before it.                          *)
Comparable(samples, start, end) ==
    \A i \in 1..Len(samples) :
        NewInWindow(samples, i, start, end) =>
            \A j \in 1..(i-1) : samples[j].observed_at <= end

(* A fault as it stood when the window ended.                              *)
AsOf(fault, end) ==
    [fault EXCEPT !.ended = IF @ # None /\ @ > end THEN None ELSE @]

(* The faults raised before, in and after a window follow one another, and *)
(* the occurrences found are those in it.                                  *)
FindsThose(occurrences, faults, start, end) ==
    \E k, m \in 0..Len(faults) :
        /\ k <= m
        /\ \A i \in 1..k : faults[i].raised < start
        /\ \A i \in (k+1)..m : start <= faults[i].raised /\ faults[i].raised <= end
        /\ \A i \in (m+1)..Len(faults) : end < faults[i].raised
        /\ occurrences = [i \in 1..(m - k) |-> AsOf(faults[k + i], end)]

(* A backtest over a window that begins quietly finds the issues the       *)
(* worker raised in it, with their times, and a recovery only when it lies *)
(* in the window too (docs/architecture.md:34,119): a run without tables   *)
(* and the state row that survives between polls come to the same.  Late   *)
(* events do not matter as long as the run has a reason of its own to      *)
(* ignore them.                                                            *)
BacktestFindsTheIssues ==
    \A t \in Targets : \A w \in Windows :
        /\ QuietBefore(t, trail[t], w[1])
        /\ Comparable(received[t], w[1], w[2])
        => FindsThose(Simulate(t, received[t], w[1], w[2]).occurrences,
                      FaultsOf(issues[t]), w[1], w[2])

(* The samples that move a run on.                                         *)
Seen(samples, start, end) ==
    {samples[i] : i \in {n \in 1..Len(samples) : NewInWindow(samples, n, start, end)}}

(* The strongest thing the window's samples say against an issue.          *)
TrueReason(t, seen) ==
    IF      seen = {}                                        THEN "NO_TELEMETRY_IN_WINDOW"
    ELSE IF \E s \in seen : Faulty(t, s)                     THEN "DURATION_NOT_MET"
    ELSE IF \E s \in seen : Trustworthy(t, s) /\ ~RunOn(s)   THEN "AHU_OFF"
    ELSE IF \E s \in seen : ~Trustworthy(t, s)               THEN "UNTRUSTWORTHY_INPUT"
    ELSE "CONDITION_NOT_MET"

(* When a run finds nothing, the reason it gives is true of the samples of *)
(* the window, the late ones apart, and it is the first that is true: the  *)
(* counters it is taken from are fed by transitions and not by samples,    *)
(* and a late sample is counted too.                                       *)
NonTriggerReasonIsTrue ==
    \A t \in Targets : \A w \in Windows :
        LET run == Simulate(t, received[t], w[1], w[2])
        IN  run.occurrences = <<>> =>
              NonTriggerReason(run) = TrueReason(t, Seen(received[t], w[1], w[2]))
=============================================================================
