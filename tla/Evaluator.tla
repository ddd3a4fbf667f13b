------------------------------ MODULE Evaluator ------------------------------
(***************************************************************************)
(* The evaluator over its two tables: afdd_evaluation_states and           *)
(* afdd_issues.  One action per transaction: evaluate_sample, which reads  *)
(* the state row, advances it and writes issue and row together, and       *)
(* reset_evaluation, which empties both tables.                            *)
(*                                                                         *)
(* Samples may come in any order of observed_at.  Here each transaction is *)
(* atomic; module Worker splits it into the load and the commit and lets   *)
(* several processes run them.                                             *)
(***************************************************************************)
EXTENDS IssueContract

CONSTANT Sample      \* the samples that can be delivered

ASSUME SampleAssumption ==
    \A s \in Sample : s.observed_at \in Nat /\ s.property \in Properties

(* For the modules in which no ontology change moves an AHU.               *)
InOneProperty == \A s, x \in Sample : s.property = x.property

(* A reading carries the time of its device, which may lie before the      *)
(* sample's or, on a wrong clock, after it; float() makes a temperature a  *)
(* number or refuses it.                                                   *)
ASSUME ReadingAssumption ==
    \A s \in Sample : \A p \in Points :
        s.readings[p] # None =>
            /\ s.readings[p].observed_at \in Int
            /\ p # "RUN" => s.readings[p].value \in Int \cup {NonNumeric}

VARIABLES
    states,    \* states[t]: the row of target t
    issues,    \* issues[t]: the issue rows of target t in insertion order
    trail      \* history: the samples of t that were newer than all before

vars == <<states, issues, trail>>

Empty ==
    [ states |-> [t \in Targets |-> DefaultState],
      issues |-> [t \in Targets |-> <<>>] ]

EvaluatorInit ==
    /\ states = Empty.states
    /\ issues = Empty.issues
    /\ trail  = Empty.issues

(* The history the contract is judged by.  It takes a sample that is newer *)
(* than every sample before it, whatever the tables say.                   *)
IsNewest(t, s) ==
    \A i \in DOMAIN trail[t] : trail[t][i].observed_at < s.observed_at

EvaluateSample(t, s) ==
    /\ issues' = [issues EXCEPT ![t] = IssuesAfter(t, states[t], issues[t], s)]
    /\ states' = [states EXCEPT ![t] = RowAfter(t, states[t], s)]
    /\ trail'  = [trail EXCEPT ![t] =
                     IF IsNewest(t, s) THEN Append(@, s) ELSE @]

ResetEvaluation ==
    /\ states' = Empty.states
    /\ issues' = Empty.issues
    /\ trail'  = Empty.issues

EvaluatorNext ==
    \/ \E t \in Targets, s \in Sample : EvaluateSample(t, s)
    \/ ResetEvaluation

EvaluatorSpec == EvaluatorInit /\ [][EvaluatorNext]_vars

-----------------------------------------------------------------------------
(* Types.                                                                  *)

Evidence(t) == {SampleEvidence(t, s) : s \in Sample}

RowType(t) ==
    [ state                 : {"NORMAL", "QUALIFYING", "OPEN"},
      last_observed_at      : Nat \cup {None},
      qualifying_started_at : Nat \cup {None},
      qualifying_evidence   : Seq(Evidence(t)) ]

RecoveryType(t) ==
    [ closed_at : Nat,
      reason    : {"AHU_OFF", "CONDITION_CLEARED"},
      sample    : Evidence(t) ]

IssueType(t) ==
    [ occurrence            : Nat \ {0},
      status                : {"OPEN", "CLOSED"},
      property              : Properties,
      qualifying_started_at : Nat,
      opened_at             : Nat,
      closed_at             : Nat \cup {None},
      samples               : Seq(Evidence(t)),
      recovery              : RecoveryType(t) \cup {None} ]

(* Every row has the columns and value ranges the schema declares, and     *)
(* only samples that were delivered appear in evidence.                    *)
TypeOK ==
    /\ DOMAIN states = Targets /\ DOMAIN issues = Targets
    /\ \A t \in Targets : states[t] \in RowType(t)
    /\ \A t \in Targets : issues[t] \in Seq(IssueType(t))
    /\ trail \in [Targets -> Seq(Sample)]

-----------------------------------------------------------------------------
(* Safety.  Each invariant is stated for one row and one list of issues    *)
(* first, and then of every target.                                        *)

OpenTogether(st, list) ==
    /\ st.state = "OPEN" => Len(list) > 0
    /\ \A i \in DOMAIN list :
         IsOpen(list[i]) <=> i = Len(list) /\ st.state = "OPEN"

(* The two tables agree.  A target's state is OPEN exactly when it has an  *)
(* open issue, which is then its newest and its only open one.             *)
(* evaluate_sample writes the issue and the row separately, _close_issue   *)
(* silently returns when it finds no open row, and a second open row would *)
(* make _open_issue fail on the unique index at every later poll.          *)
StateMatchesIssues ==
    \A t \in Targets : OpenTogether(states[t], issues[t])

FaultEvidence(t) == {SampleEvidence(t, s) : s \in {x \in Sample : Faulty(t, x)}}

FaultEvidenceIn(t, p) ==
    {SampleEvidence(t, s) : s \in {x \in Sample : Faulty(t, x) /\ x.property = p}}

(* Trusted faulty samples, each under the numbers it was judged by, oldest *)
(* first, no two further apart than the freshness.                         *)
Continuous(t, window) ==
    /\ window \in Seq(FaultEvidence(t))
    /\ \A i \in 1..(Len(window) - 1) :
         /\ window[i].observed_at < window[i+1].observed_at
         /\ window[i+1].observed_at - window[i].observed_at <= Freshness[t]

HonestWindow(t, st) ==
    LET window == st.qualifying_evidence
    IN  /\ st.state = "QUALIFYING" =>
             /\ Len(window) > 0
             /\ Continuous(t, window)
             /\ window[1].observed_at = st.qualifying_started_at
             /\ window[Len(window)].observed_at = st.last_observed_at
             /\ \E p \in Properties :
                  st.last_observed_at - st.qualifying_started_at < Duration[t][p]
        /\ st.state # "QUALIFYING" =>
             st.qualifying_started_at = None /\ window = <<>>

(* The row being timed is honest: a QUALIFYING row holds a non-empty run   *)
(* of evidence from qualifying_started_at to last_observed_at, shorter     *)
(* than a duration of the target; any other row holds no window.           *)
(* evaluate_sample builds an issue's samples from the window it LOADED, so *)
(* a window left over from before a gap, an OFF or an untrusted sample     *)
(* would become evidence.                                                  *)
WindowIsTheFault == \A t \in Targets : HonestWindow(t, states[t])

Proven(t, issue) ==
    LET window == issue.samples
        n      == Len(window)
    IN  /\ n > 1
        /\ Continuous(t, window)
        /\ window[1].observed_at = issue.qualifying_started_at
        /\ window[n].observed_at = issue.opened_at
        /\ window[n] \in FaultEvidenceIn(t, issue.property)
        /\ issue.opened_at - issue.qualifying_started_at >= Duration[t][issue.property]
        /\ \E p \in Properties :
             window[n-1].observed_at - issue.qualifying_started_at < Duration[t][p]

(* An issue proves its own fault: its samples are a run of trusted faulty  *)
(* samples from the recorded start to the moment of opening, the sample    *)
(* that opened it shows the fault under the numbers the issue records, and *)
(* the run lasts the duration it records.  One sample before, it had not   *)
(* lasted the duration in force then, which is another one if the AHU was  *)
(* moved in between (rules.py:254-266, evaluator.py:439-459).              *)
EvidenceProvesIssue ==
    \A t \in Targets : \A i \in DOMAIN issues[t] : Proven(t, issues[t][i])

(* The issue table is the one the samples call for: same occurrences, same *)
(* boundaries, same evidence, same recovery, nothing missing or invented   *)
(* (docs/afdd.md:58-67).                                                   *)
IssuesMeetContract ==
    \A t \in Targets : MeetsContract(t, trail[t], issues[t])

(* What a reader of the evidence can check without the evaluator.          *)
GoodReadings(t, e) ==
    /\ \A p \in Points :
         /\ e.readings[p] # None
         /\ e.readings[p].quality = "GOOD"
         /\ e.observed_at - e.readings[p].observed_at \in 0..Freshness[t]
    /\ {e.readings["SAT"].value, e.readings["SAT_SP"].value} \subseteq Int

Deviates(t, p, e) ==
    LET sat == e.readings["SAT"].value
        sp  == e.readings["SAT_SP"].value
    IN  sat > sp + Threshold[t][p] \/ sp > sat + Threshold[t][p]

IsOn(e) == e.readings["RUN"].value = "ON"

(* The stored readings alone justify every issue: each sample before the   *)
(* opening has all points good and fresh, the AHU on and a deviation       *)
(* beyond a threshold of the target, the last one beyond the threshold the *)
(* issue records, and the recovery sample has all points good and fresh    *)
(* and shows what its reason says, so no missing, stale, future or invalid *)
(* reading opens, extends or closes an issue (docs/afdd.md:71-75).         *)
EvidenceSpeaksForItself ==
    \A t \in Targets : \A i \in DOMAIN issues[t] :
        LET issue == issues[t][i]
        IN  /\ \A k \in DOMAIN issue.samples :
                 /\ GoodReadings(t, issue.samples[k])
                 /\ IsOn(issue.samples[k])
                 /\ \E p \in Properties : Deviates(t, p, issue.samples[k])
            /\ Deviates(t, issue.property, issue.samples[Len(issue.samples)])
            /\ issue.recovery # None =>
                 LET e == issue.recovery.sample
                 IN  /\ GoodReadings(t, e)
                     /\ IF issue.recovery.reason = "AHU_OFF" THEN ~IsOn(e)
                        ELSE IsOn(e) /\ \E p \in Properties : ~Deviates(t, p, e)

(* The checkpoint is the newest time ever delivered, so "late or equal to  *)
(* the checkpoint" and "not newer than every sample before" are the same.  *)
CheckpointIsNewest ==
    \A t \in Targets :
        /\ trail[t] = <<>> <=> ~RowExists(states[t])
        /\ trail[t] # <<>> =>
             states[t].last_observed_at = trail[t][Len(trail[t])].observed_at
        /\ \A i \in DOMAIN trail[t] :
             trail[t][i].observed_at <= states[t].last_observed_at

Increasing(T) ==
    \A i, k \in 1..Len(T) : i < k => T[i].observed_at < T[k].observed_at

(* Samples of different times, oldest first.                               *)
InOrder(S) == CHOOSE T \in [1..Cardinality(S) -> S] : Increasing(T)

-----------------------------------------------------------------------------
(* Action properties.                                                      *)

AdvancesOnlyOnNew ==
    \A t \in Targets :
         IF trail'[t] = trail[t]
         THEN states'[t] = states[t] /\ issues'[t] = issues[t]
         ELSE \/ trail'[t] = <<>>
              \/ states'[t].last_observed_at
                     = trail'[t][Len(trail'[t])].observed_at

(* A sample no newer than the newest one changes neither table, and a      *)
(* newer one always moves the checkpoint to its own time: a worker that    *)
(* replays the whole event list at every poll therefore advances on unseen *)
(* times only (docs/afdd.md:60,80).                                        *)
OnlyNewTimesAdvance == [][AdvancesOnlyOnNew]_vars

(* A row either stays as it is or is the open row being closed, which      *)
(* leaves its opening evidence alone and records the recovery.             *)
RowKeepsHistory(old, new) ==
    \/ new = old
    \/ /\ IsOpen(old)
       /\ new.recovery.closed_at = new.closed_at
       /\ new = [old EXCEPT !.status    = "CLOSED",
                            !.closed_at = new.closed_at,
                            !.recovery  = new.recovery]

KeepsHistory ==
    \/ trail' = Empty.issues
    \/ \A t \in Targets : \A i \in DOMAIN issues[t] :
         /\ i \in DOMAIN issues'[t]
         /\ RowKeepsHistory(issues[t][i], issues'[t][i])

(* Outside a reset, an issue row is never deleted, a closed issue never    *)
(* changes again, and closing an open one keeps its opening evidence.      *)
IssueHistoryIsFinal == [][KeepsHistory]_vars

-----------------------------------------------------------------------------
(* Refinement.                                                             *)

FaultsOf(list) ==
    [i \in DOMAIN list |-> [ start  |-> list[i].qualifying_started_at,
                             raised |-> list[i].opened_at,
                             ended  |-> list[i].closed_at ]]

Timeline == INSTANCE FaultTimeline WITH
                Time   <- {s.observed_at : s \in Sample},
                faults <- [t \in Targets |-> FaultsOf(issues[t])],
                newest <- [t \in Targets |-> states[t].last_observed_at]

(* Read through its boundaries alone, the issue table is a FaultTimeline.  *)
ImplementsTimeline == Timeline!TimelineSpec
=============================================================================
