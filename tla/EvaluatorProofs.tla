--------------------------- MODULE EvaluatorProofs ---------------------------
(***************************************************************************)
(* Machine-checked proofs about Evaluator, for every set of targets, every *)
(* threshold, duration and freshness, and every set of samples delivered   *)
(* in any order.                                                           *)
(***************************************************************************)
EXTENDS Evaluator, SequenceTheorems, TLAPS

-----------------------------------------------------------------------------
(* The inductive invariant.                                                *)

Disjoint(list) ==
    \A i \in DOMAIN list :
        /\ list[i].occurrence = i
        /\ IsOpen(list[i]) <=> list[i].closed_at = None
        /\ list[i].closed_at # None => list[i].opened_at < list[i].closed_at
        /\ i > 1 => /\ list[i-1].closed_at # None
                    /\ list[i-1].closed_at < list[i].qualifying_started_at

(* The fault intervals of a target are numbered without a hole and never   *)
(* overlap: each closes after it opened, and the next one starts to        *)
(* qualify after the previous one closed.                                  *)
OccurrencesAreDisjoint == \A t \in Targets : Disjoint(issues[t])

BehindCheckpoint(st, list) ==
    \A i \in DOMAIN list :
        /\ RowExists(st)
        /\ list[i].opened_at <= st.last_observed_at
        /\ list[i].closed_at # None =>
             /\ list[i].closed_at <= st.last_observed_at
             /\ st.state = "QUALIFYING" =>
                  list[i].closed_at < st.qualifying_started_at

(* No issue lies in the checkpoint's future, and the window being timed    *)
(* starts after every fault that has ended.                                *)
IssuesBehindCheckpoint ==
    \A t \in Targets : BehindCheckpoint(states[t], issues[t])

TargetInv(t, st, list) ==
    /\ st \in RowType(t)
    /\ list \in Seq(IssueType(t))
    /\ OpenTogether(st, list)
    /\ HonestWindow(t, st)
    /\ \A i \in DOMAIN list : Proven(t, list[i])
    /\ Disjoint(list)
    /\ BehindCheckpoint(st, list)

EvaluatorInv == TypeOK /\ \A t \in Targets : TargetInv(t, states[t], issues[t])

-----------------------------------------------------------------------------
(* Evidence.                                                               *)

(* _sample_evidence keeps the time of its sample.                          *)
LEMMA EvidenceTime ==
    ASSUME NEW t, NEW s
    PROVE  SampleEvidence(t, s).observed_at = s.observed_at
BY DEF SampleEvidence

(* Stored evidence carries a device time.                                  *)
LEMMA EvidenceTimes ==
    ASSUME NEW t \in Targets, NEW e \in Evidence(t)
    PROVE  e.observed_at \in Nat
BY SampleAssumption, EvidenceTime DEF Evidence

(* The evidence of a faulty sample is evidence of a delivered sample.      *)
LEMMA FaultEvidenceIsEvidence ==
    ASSUME NEW t \in Targets
    PROVE  FaultEvidence(t) \subseteq Evidence(t)
BY DEF FaultEvidence, Evidence

-----------------------------------------------------------------------------
(* The next occurrence of a densely numbered list is its length plus one.  *)
LEMMA NextOccurrenceOfDense ==
    ASSUME NEW S, NEW list \in Seq(S),
           \A i \in DOMAIN list : list[i].occurrence = i
    PROVE  NextOccurrence(list) = Len(list) + 1
<1> DEFINE occ == {list[i].occurrence : i \in DOMAIN list} \cup {0}
<1>1. Len(list) \in Nat /\ DOMAIN list = 1..Len(list)
  BY LenProperties
<1>2. occ = 0..Len(list)
  BY <1>1
<1>3. Len(list) \in occ /\ \A x \in occ : Len(list) >= x
  BY <1>1, <1>2
<1>4. \A y \in occ : (\A x \in occ : y >= x) => y = Len(list)
  <2> SUFFICES ASSUME NEW y \in occ, \A x \in occ : y >= x
               PROVE  y = Len(list)
    OBVIOUS
  <2>1. y \in Int /\ Len(list) \in Int
    BY <1>1, <1>2
  <2>2. y >= Len(list) /\ Len(list) >= y
    BY <1>3
  <2> HIDE DEF occ
  <2> QED
    BY <2>1, <2>2
<1>5. Max(occ) = Len(list)
  BY <1>3, <1>4 DEF Max
<1> QED
  BY <1>5 DEF NextOccurrence

-----------------------------------------------------------------------------
(* What one sample does, case by case.  The eight cases are exclusive; each *)
(* lemma gives the row and the issue list the transaction writes.          *)

Arrival(t, s, st, list) ==
    t \in Targets /\ s \in Sample /\ TargetInv(t, st, list)

(* A row being timed has a start and a last time: in evaluate_transition   *)
(* the test of started is the test of the state alone.                     *)
LEMMA QualifyingHasStart ==
    ASSUME NEW t, NEW s, NEW st, NEW list, Arrival(t, s, st, list),
           st.state = "QUALIFYING"
    PROVE  /\ st.qualifying_started_at \in Nat
           /\ st.qualifying_started_at # None
           /\ st.last_observed_at \in Nat
           /\ RowExists(st)
<1> DEFINE window == st.qualifying_evidence
<1>1. /\ Len(window) > 0
      /\ window \in Seq(Evidence(t))
      /\ window[1].observed_at = st.qualifying_started_at
      /\ window[Len(window)].observed_at = st.last_observed_at
  BY DEF Arrival, TargetInv, HonestWindow, RowType
<1>2. Len(window) \in Nat /\ 1 \in 1..Len(window) /\ Len(window) \in 1..Len(window)
  BY <1>1, LenProperties
<1>3. window[1] \in Evidence(t) /\ window[Len(window)] \in Evidence(t)
  BY <1>1, <1>2, ElementOfSeq
<1>4. st.qualifying_started_at \in Nat /\ st.last_observed_at \in Nat
  BY <1>1, <1>3, EvidenceTimes DEF Arrival
<1> QED
  BY <1>4, NoneAssumption DEF RowExists

(* evaluate_transition returns the row untouched for a late sample.        *)
LEMMA LateCase ==
    ASSUME NEW t, NEW s, NEW st, NEW list, IsLate(st, s)
    PROVE  /\ RowAfter(t, st, s) = st
           /\ IssuesAfter(t, st, list, s) = list
<1>1. EvaluateTransition(t, st, s) = LateTransition(st)
  BY DEF EvaluateTransition
<1> QED
  BY <1>1 DEF RowAfter, IssuesAfter, LateTransition, Transition, Persists

(* An untrusted sample drops the window, keeps an open state open and      *)
(* moves the checkpoint.                                                   *)
LEMMA UntrustedCase ==
    ASSUME NEW t, NEW s, NEW st, NEW list,
           ~IsLate(st, s), ~Trustworthy(t, s)
    PROVE  /\ RowAfter(t, st, s) =
                 Row(IF st.state = "OPEN" THEN "OPEN" ELSE "NORMAL",
                     s.observed_at, None, <<>>)
           /\ IssuesAfter(t, st, list, s) = list
<1>1. EvaluateTransition(t, st, s) = UntrustedTransition(AfterGap(t, st, s), s)
  BY DEF EvaluateTransition
<1>2. AfterGap(t, st, s).state = "OPEN" <=> st.state = "OPEN"
  BY DEF AfterGap, BreaksContinuity, Row
<1> QED
  BY <1>1, <1>2
     DEF RowAfter, IssuesAfter, UntrustedTransition, Transition, Persists

(* A trusted sample without the fault clears a row that is not open.       *)
LEMMA NonFaultCase ==
    ASSUME NEW t, NEW s, NEW st, NEW list,
           ~IsLate(st, s), Recovers(t, s), st.state # "OPEN"
    PROVE  /\ RowAfter(t, st, s) = Row("NORMAL", s.observed_at, None, <<>>)
           /\ IssuesAfter(t, st, list, s) = list
<1>1. EvaluateTransition(t, st, s) = NonFaultTransition(AfterGap(t, st, s), s)
  BY DEF EvaluateTransition, Recovers
<1>2. AfterGap(t, st, s).state # "OPEN"
  BY DEF AfterGap, BreaksContinuity, Row
<1> QED
  BY <1>1, <1>2
     DEF RowAfter, IssuesAfter, NonFaultTransition, Transition, Persists

RecoveryReason(s) == IF RunOn(s) THEN "CONDITION_CLEARED" ELSE "AHU_OFF"

(* A trusted sample without the fault closes the open issue.               *)
LEMMA RecoveryCase ==
    ASSUME NEW t, NEW s, NEW st, NEW list,
           ~IsLate(st, s), Recovers(t, s), st.state = "OPEN"
    PROVE  /\ RowAfter(t, st, s) = Row("NORMAL", s.observed_at, None, <<>>)
           /\ IssuesAfter(t, st, list, s) =
                CloseIssue(list, s.observed_at, RecoveryReason(s),
                           SampleEvidence(t, s))
<1>1. EvaluateTransition(t, st, s) = NonFaultTransition(AfterGap(t, st, s), s)
  BY DEF EvaluateTransition, Recovers
<1>2. AfterGap(t, st, s).state = "OPEN"
  BY DEF AfterGap, BreaksContinuity, Row
<1> QED
  BY <1>1, <1>2
     DEF RowAfter, IssuesAfter, NonFaultTransition, Transition, Persists,
         RecoveryReason, Row

(* A faulty sample of an open row only moves the checkpoint.               *)
LEMMA RemainsOpenCase ==
    ASSUME NEW t, NEW s, NEW st, NEW list,
           ~IsLate(st, s), Faulty(t, s), st.state = "OPEN"
    PROVE  /\ RowAfter(t, st, s) = Row("OPEN", s.observed_at, None, <<>>)
           /\ IssuesAfter(t, st, list, s) = list
<1>1. AfterGap(t, st, s).state = "OPEN"
  BY DEF AfterGap, BreaksContinuity, Row
<1>2. EvaluateTransition(t, st, s) = RemainsOpenTransition(s)
  BY <1>1 DEF EvaluateTransition, Faulty
<1> QED
  BY <1>2
     DEF RowAfter, IssuesAfter, RemainsOpenTransition, Transition, Persists

(* A window starts from NORMAL, or from a QUALIFYING row whose continuity  *)
(* the gap has broken.  It never opens an issue at once.                   *)
LEMMA WindowStartsTransition ==
    ASSUME NEW t, NEW s, NEW st, NEW list, Arrival(t, s, st, list),
           ~IsLate(st, s), Faulty(t, s),
           st.state = "NORMAL" \/ BreaksContinuity(t, st, s)
    PROVE  EvaluateTransition(t, st, s) =
             Transition("QUALIFYING",
                        Row("QUALIFYING", s.observed_at, s.observed_at,
                            <<SampleEvidence(t, s)>>),
                        "NONE", None, None)
<1> DEFINE cur == AfterGap(t, st, s)
<1>1. cur.state = "NORMAL"
  BY DEF AfterGap, BreaksContinuity, Row
<1>2. EvaluateTransition(t, st, s) = QualifyingTransition(t, cur, s)
  BY <1>1 DEF EvaluateTransition, Faulty
<1>3. ~(s.observed_at - s.observed_at >= Duration[t][s.property])
  BY SampleAssumption, LogicAssumption DEF Arrival
<1> HIDE DEF cur
<1>4. QualifyingTransition(t, cur, s) =
        Transition("QUALIFYING",
                   Row("QUALIFYING", s.observed_at, s.observed_at,
                       <<SampleEvidence(t, s)>>),
                   "NONE", None, None)
  BY <1>1, <1>3 DEF QualifyingTransition
<1> QED
  BY <1>2, <1>4

(* So it writes the row and no issue.                                      *)
LEMMA WindowStartsCase ==
    ASSUME NEW t, NEW s, NEW st, NEW list, Arrival(t, s, st, list),
           ~IsLate(st, s), Faulty(t, s),
           st.state = "NORMAL" \/ BreaksContinuity(t, st, s)
    PROVE  /\ RowAfter(t, st, s) =
                 Row("QUALIFYING", s.observed_at, s.observed_at,
                     <<SampleEvidence(t, s)>>)
           /\ IssuesAfter(t, st, list, s) = list
BY WindowStartsTransition DEF RowAfter, IssuesAfter, Transition, Persists

(* A faulty sample extends a window that is not broken and is still        *)
(* shorter than the duration.                                              *)
LEMMA WindowGrowsTransition ==
    ASSUME NEW t, NEW s, NEW st, NEW list, Arrival(t, s, st, list),
           ~IsLate(st, s), Faulty(t, s),
           st.state = "QUALIFYING", ~BreaksContinuity(t, st, s),
           s.observed_at - st.qualifying_started_at < Duration[t][s.property]
    PROVE  EvaluateTransition(t, st, s) =
             Transition("QUALIFYING",
                        Row("QUALIFYING", s.observed_at, st.qualifying_started_at,
                            Append(st.qualifying_evidence, SampleEvidence(t, s))),
                        "NONE", None, None)
<1>1. AfterGap(t, st, s) = st
  BY DEF AfterGap
<1>2. EvaluateTransition(t, st, s) = QualifyingTransition(t, st, s)
  BY <1>1 DEF EvaluateTransition, Faulty
<1>3. ~(s.observed_at - st.qualifying_started_at >= Duration[t][s.property])
  BY SampleAssumption, LogicAssumption, QualifyingHasStart DEF Arrival
<1>4. QualifyingTransition(t, st, s) =
        Transition("QUALIFYING",
                   Row("QUALIFYING", s.observed_at, st.qualifying_started_at,
                       Append(st.qualifying_evidence, SampleEvidence(t, s))),
                   "NONE", None, None)
  BY <1>3, QualifyingHasStart DEF QualifyingTransition
<1> QED
  BY <1>2, <1>4

(* So it writes the row and no issue.                                      *)
LEMMA WindowGrowsCase ==
    ASSUME NEW t, NEW s, NEW st, NEW list, Arrival(t, s, st, list),
           ~IsLate(st, s), Faulty(t, s),
           st.state = "QUALIFYING", ~BreaksContinuity(t, st, s),
           s.observed_at - st.qualifying_started_at < Duration[t][s.property]
    PROVE  /\ RowAfter(t, st, s) =
                 Row("QUALIFYING", s.observed_at, st.qualifying_started_at,
                     Append(st.qualifying_evidence, SampleEvidence(t, s)))
           /\ IssuesAfter(t, st, list, s) = list
BY WindowGrowsTransition DEF RowAfter, IssuesAfter, Transition, Persists

(* A faulty sample that makes the window last the duration opens an issue  *)
(* that starts where the window does.                                      *)
LEMMA IssueOpensTransition ==
    ASSUME NEW t, NEW s, NEW st, NEW list, Arrival(t, s, st, list),
           ~IsLate(st, s), Faulty(t, s),
           st.state = "QUALIFYING", ~BreaksContinuity(t, st, s),
           s.observed_at - st.qualifying_started_at >= Duration[t][s.property]
    PROVE  EvaluateTransition(t, st, s) =
             Transition("OPENED", Row("OPEN", s.observed_at, None, <<>>),
                        "OPEN", st.qualifying_started_at, None)
<1>1. AfterGap(t, st, s) = st
  BY DEF AfterGap
<1>2. EvaluateTransition(t, st, s) = QualifyingTransition(t, st, s)
  BY <1>1 DEF EvaluateTransition, Faulty
<1>3. QualifyingTransition(t, st, s) =
        Transition("OPENED", Row("OPEN", s.observed_at, None, <<>>),
                   "OPEN", st.qualifying_started_at, None)
  BY QualifyingHasStart DEF QualifyingTransition
<1> QED
  BY <1>2, <1>3

(* The issue takes the window of the row that was loaded.                  *)
LEMMA IssueOpensCase ==
    ASSUME NEW t, NEW s, NEW st, NEW list, Arrival(t, s, st, list),
           ~IsLate(st, s), Faulty(t, s),
           st.state = "QUALIFYING", ~BreaksContinuity(t, st, s),
           s.observed_at - st.qualifying_started_at >= Duration[t][s.property]
    PROVE  /\ RowAfter(t, st, s) = Row("OPEN", s.observed_at, None, <<>>)
           /\ IssuesAfter(t, st, list, s) =
                OpenIssue(list, s.property, st.qualifying_started_at,
                          s.observed_at,
                          Append(st.qualifying_evidence, SampleEvidence(t, s)))
BY IssueOpensTransition DEF RowAfter, IssuesAfter, Transition, Persists, Row

-----------------------------------------------------------------------------
(* Windows and checkpoints.                                                *)

(* A sample that is not late is newer than the saved checkpoint.           *)
LEMMA NewerThanCheckpoint ==
    ASSUME NEW t, NEW s, NEW st, NEW list, Arrival(t, s, st, list),
           ~IsLate(st, s)
    PROVE  /\ s.observed_at \in Nat
           /\ s.observed_at # None
           /\ RowExists(st) => /\ st.last_observed_at \in Nat
                               /\ st.last_observed_at < s.observed_at
<1>1. s.observed_at \in Nat
  BY SampleAssumption DEF Arrival
<1>2. st.last_observed_at \in Nat \cup {None}
  BY DEF Arrival, TargetInv, RowType
<1> QED
  BY <1>1, <1>2, NoneAssumption DEF IsLate, RowExists

(* A window stays continuous when a fresh faulty sample joins it.          *)
LEMMA ContinuousAppend ==
    ASSUME NEW t \in Targets, NEW s \in Sample, NEW window,
           Continuous(t, window), Len(window) > 0, Faulty(t, s),
           window[Len(window)].observed_at < s.observed_at,
           s.observed_at - window[Len(window)].observed_at <= Freshness[t]
    PROVE  LET longer == Append(window, SampleEvidence(t, s))
           IN  /\ Continuous(t, longer)
               /\ Len(longer) = Len(window) + 1
               /\ longer[1] = window[1]
               /\ longer[Len(window)] = window[Len(window)]
               /\ longer[Len(window) + 1].observed_at = s.observed_at
<1> DEFINE ev     == SampleEvidence(t, s)
           longer == Append(window, ev)
           n      == Len(window)
<1>1. window \in Seq(FaultEvidence(t)) /\ ev \in FaultEvidence(t)
  BY DEF Continuous, FaultEvidence
<1>2. /\ longer \in Seq(FaultEvidence(t))
      /\ Len(longer) = n + 1
      /\ n \in Nat
      /\ \A i \in 1..n : longer[i] = window[i]
      /\ longer[n + 1] = ev
  BY <1>1, AppendProperties, LenProperties
<1>3. ev.observed_at = s.observed_at
  BY EvidenceTime
<1>4. ASSUME NEW i \in 1..(Len(longer) - 1)
      PROVE  /\ longer[i].observed_at < longer[i+1].observed_at
             /\ longer[i+1].observed_at - longer[i].observed_at <= Freshness[t]
  <2> HIDE DEF longer, ev
  <2>1. CASE i = n
    BY <2>1, <1>2, <1>3
  <2>2. CASE i # n
    <3>1. i \in 1..(n - 1) /\ i \in 1..n /\ i + 1 \in 1..n
      BY <2>2, <1>2
    <3> QED
      BY <3>1, <1>2 DEF Continuous
  <2> QED
    BY <2>1, <2>2
<1>5. 1 \in 1..n /\ n \in 1..n
  BY <1>2
<1> QED
  BY <1>2, <1>3, <1>4, <1>5 DEF Continuous

(* One faulty sample is a continuous window.                               *)
LEMMA ContinuousSingleton ==
    ASSUME NEW t \in Targets, NEW s \in Sample, Faulty(t, s)
    PROVE  Continuous(t, <<SampleEvidence(t, s)>>)
<1>1. SampleEvidence(t, s) \in FaultEvidence(t)
  BY DEF FaultEvidence
<1>2. <<SampleEvidence(t, s)>> \in Seq(FaultEvidence(t))
  BY <1>1
<1> QED
  BY <1>2 DEF Continuous

-----------------------------------------------------------------------------
(* A sample that moves the row and leaves the issues as they are.          *)
LEMMA RowMoves ==
    ASSUME NEW t, NEW s, NEW st, NEW list, Arrival(t, s, st, list),
           ~IsLate(st, s),
           NEW r \in RowType(t), HonestWindow(t, r),
           r.last_observed_at = s.observed_at,
           r.state = "OPEN" <=> st.state = "OPEN",
           r.state = "QUALIFYING" =>
              \/ r.qualifying_started_at = s.observed_at
              \/ /\ st.state = "QUALIFYING"
                 /\ r.qualifying_started_at = st.qualifying_started_at
    PROVE  TargetInv(t, r, list)
<1>1. OpenTogether(r, list)
  BY DEF Arrival, TargetInv, OpenTogether
<1>2. ASSUME NEW i \in DOMAIN list
      PROVE  /\ RowExists(r)
             /\ list[i].opened_at <= r.last_observed_at
             /\ list[i].closed_at # None =>
                  /\ list[i].closed_at <= r.last_observed_at
                  /\ r.state = "QUALIFYING" =>
                       list[i].closed_at < r.qualifying_started_at
  <2>1. list[i] \in IssueType(t)
    BY ElementOfSeq DEF Arrival, TargetInv
  <2>2. /\ list[i].opened_at \in Nat
        /\ list[i].closed_at \in Nat \cup {None}
    BY <2>1 DEF IssueType
  <2>3. /\ RowExists(st)
        /\ list[i].opened_at <= st.last_observed_at
        /\ list[i].closed_at # None =>
             /\ list[i].closed_at <= st.last_observed_at
             /\ st.state = "QUALIFYING" =>
                  list[i].closed_at < st.qualifying_started_at
    BY DEF Arrival, TargetInv, BehindCheckpoint
  <2>4. /\ s.observed_at \in Nat /\ s.observed_at # None
        /\ st.last_observed_at \in Nat
        /\ st.last_observed_at < s.observed_at
    BY <2>3, NewerThanCheckpoint
  <2> QED
    BY <2>2, <2>3, <2>4 DEF RowExists
<1>3. BehindCheckpoint(r, list)
  BY <1>2 DEF BehindCheckpoint
<1> QED
  BY <1>1, <1>3 DEF Arrival, TargetInv

(* A row that is not being timed is well formed and honest.                *)
LEMMA EmptyWindowRow ==
    ASSUME NEW t \in Targets, NEW s \in Sample,
           NEW name \in {"NORMAL", "OPEN"}
    PROVE  LET r == Row(name, s.observed_at, None, <<>>)
           IN  r \in RowType(t) /\ HonestWindow(t, r)
<1>1. s.observed_at \in Nat /\ <<>> \in Seq(Evidence(t))
  BY SampleAssumption, EmptySeq
<1> QED
  BY <1>1 DEF Row, RowType, HonestWindow

-----------------------------------------------------------------------------
(* Each case preserves the invariant of its target.                        *)

(* The transaction that starts a window preserves the invariant.           *)
LEMMA WindowStarts ==
    ASSUME NEW t, NEW s, NEW st, NEW list, Arrival(t, s, st, list),
           ~IsLate(st, s), Faulty(t, s),
           st.state = "NORMAL" \/ BreaksContinuity(t, st, s)
    PROVE  TargetInv(t, RowAfter(t, st, s), IssuesAfter(t, st, list, s))
<1> DEFINE ev == SampleEvidence(t, s)
           r  == Row("QUALIFYING", s.observed_at, s.observed_at, <<ev>>)
<1>1. RowAfter(t, st, s) = r /\ IssuesAfter(t, st, list, s) = list
  BY WindowStartsCase
<1>2. /\ s.observed_at \in Nat /\ s.property \in Properties
      /\ Duration[t][s.property] \in Nat \ {0}
  BY SampleAssumption, LogicAssumption DEF Arrival
<1>3. Continuous(t, <<ev>>) /\ ev.observed_at = s.observed_at
  BY ContinuousSingleton, EvidenceTime DEF Arrival
<1>4. <<ev>> \in Seq(Evidence(t))
  BY DEF Evidence, Arrival
<1>5. r \in RowType(t)
  BY <1>2, <1>4 DEF Row, RowType
<1>6. HonestWindow(t, r)
  <2>1. Len(<<ev>>) = 1 /\ <<ev>>[1] = ev
    OBVIOUS
  <2> HIDE DEF ev
  <2> QED
    BY <1>2, <1>3, <2>1 DEF HonestWindow, Row
<1>7. /\ r.last_observed_at = s.observed_at
      /\ r.qualifying_started_at = s.observed_at
      /\ r.state # "OPEN" /\ st.state # "OPEN"
  BY DEF Row, BreaksContinuity
<1> HIDE DEF r
<1> QED
  BY <1>1, <1>5, <1>6, <1>7, RowMoves

(* The transaction that extends a window preserves the invariant.          *)
LEMMA WindowGrows ==
    ASSUME NEW t, NEW s, NEW st, NEW list, Arrival(t, s, st, list),
           ~IsLate(st, s), Faulty(t, s),
           st.state = "QUALIFYING", ~BreaksContinuity(t, st, s),
           s.observed_at - st.qualifying_started_at < Duration[t][s.property]
    PROVE  TargetInv(t, RowAfter(t, st, s), IssuesAfter(t, st, list, s))
<1> DEFINE window == st.qualifying_evidence
           longer == Append(window, SampleEvidence(t, s))
           r == Row("QUALIFYING", s.observed_at, st.qualifying_started_at, longer)
<1>1. RowAfter(t, st, s) = r /\ IssuesAfter(t, st, list, s) = list
  BY WindowGrowsCase
<1>2. /\ Len(window) > 0 /\ Continuous(t, window)
      /\ window[1].observed_at = st.qualifying_started_at
      /\ window[Len(window)].observed_at = st.last_observed_at
  BY DEF Arrival, TargetInv, HonestWindow
<1>3. /\ st.qualifying_started_at \in Nat
      /\ st.last_observed_at \in Nat /\ RowExists(st)
  BY QualifyingHasStart
<1>4. s.observed_at \in Nat /\ st.last_observed_at < s.observed_at
  BY <1>3, NewerThanCheckpoint
<1>5. s.observed_at - st.last_observed_at <= Freshness[t]
  BY <1>3, <1>4, LogicAssumption DEF BreaksContinuity, Arrival
<1>6. /\ Continuous(t, longer)
      /\ Len(longer) = Len(window) + 1
      /\ longer[1] = window[1]
      /\ longer[Len(window) + 1].observed_at = s.observed_at
  BY <1>2, <1>4, <1>5, ContinuousAppend DEF Arrival
<1>7. longer \in Seq(Evidence(t)) /\ Len(window) \in Nat
  <2>1. window \in Seq(Evidence(t)) /\ SampleEvidence(t, s) \in Evidence(t)
    BY DEF Arrival, TargetInv, RowType, Evidence
  <2> QED
    BY <2>1, AppendProperties, LenProperties
<1> HIDE DEF longer, window
<1>8. r \in RowType(t)
  BY <1>3, <1>4, <1>7 DEF Row, RowType
<1>9. HonestWindow(t, r)
  BY <1>2, <1>4, <1>6, <1>7, SampleAssumption DEF HonestWindow, Row, Arrival
<1>10. /\ r.last_observed_at = s.observed_at
       /\ r.qualifying_started_at = st.qualifying_started_at
       /\ r.state # "OPEN"
  BY DEF Row
<1> HIDE DEF r
<1> QED
  BY <1>1, <1>8, <1>9, <1>10, RowMoves

(* The transaction that opens an issue preserves the invariant:            *)
(* _open_issue takes the window of the row that was loaded.                *)
LEMMA IssueOpens ==
    ASSUME NEW t, NEW s, NEW st, NEW list, Arrival(t, s, st, list),
           ~IsLate(st, s), Faulty(t, s),
           st.state = "QUALIFYING", ~BreaksContinuity(t, st, s),
           s.observed_at - st.qualifying_started_at >= Duration[t][s.property]
    PROVE  TargetInv(t, RowAfter(t, st, s), IssuesAfter(t, st, list, s))
<1> DEFINE window == st.qualifying_evidence
           longer == Append(window, SampleEvidence(t, s))
           n      == Len(list)
           r      == Row("OPEN", s.observed_at, None, <<>>)
           after  == OpenIssue(list, s.property, st.qualifying_started_at,
                               s.observed_at, longer)
           new    == [ occurrence            |-> n + 1,
                       status                |-> "OPEN",
                       property              |-> s.property,
                       qualifying_started_at |-> st.qualifying_started_at,
                       opened_at             |-> s.observed_at,
                       closed_at             |-> None,
                       samples               |-> longer,
                       recovery              |-> None ]
<1>1. RowAfter(t, st, s) = r /\ IssuesAfter(t, st, list, s) = after
  BY IssueOpensCase
<1>2. /\ Len(window) > 0 /\ Continuous(t, window)
      /\ window[1].observed_at = st.qualifying_started_at
      /\ window[Len(window)].observed_at = st.last_observed_at
      /\ \E p \in Properties :
           st.last_observed_at - st.qualifying_started_at < Duration[t][p]
  BY DEF Arrival, TargetInv, HonestWindow
<1>3. /\ st.qualifying_started_at \in Nat
      /\ st.last_observed_at \in Nat /\ RowExists(st)
  BY QualifyingHasStart
<1>4. /\ s.observed_at \in Nat /\ s.observed_at # None
      /\ st.last_observed_at < s.observed_at
  BY <1>3, NewerThanCheckpoint
<1>5. s.observed_at - st.last_observed_at <= Freshness[t]
  BY <1>3, <1>4, LogicAssumption DEF BreaksContinuity, Arrival
<1>6. /\ Continuous(t, longer)
      /\ Len(longer) = Len(window) + 1
      /\ longer[1] = window[1]
      /\ longer[Len(window)] = window[Len(window)]
      /\ longer[Len(window) + 1].observed_at = s.observed_at
  BY <1>2, <1>4, <1>5, ContinuousAppend DEF Arrival
<1>7. longer \in Seq(Evidence(t)) /\ Len(window) \in Nat
  <2>1. window \in Seq(Evidence(t)) /\ SampleEvidence(t, s) \in Evidence(t)
    BY DEF Arrival, TargetInv, RowType, Evidence
  <2> QED
    BY <2>1, AppendProperties, LenProperties
<1>8. /\ list \in Seq(IssueType(t)) /\ n \in Nat /\ DOMAIN list = 1..n
      /\ \A i \in 1..n : list[i] \in IssueType(t)
  BY LenProperties, ElementOfSeq DEF Arrival, TargetInv
<1>9. after = Append(list, new)
  BY NextOccurrenceOfDense, <1>8 DEF OpenIssue, Arrival, TargetInv, Disjoint
<1> HIDE DEF longer, window
<1>10. new \in IssueType(t)
  BY <1>3, <1>4, <1>7, <1>8, SampleAssumption DEF IssueType, Arrival
<1> HIDE DEF new, after
<1>11. /\ after \in Seq(IssueType(t))
       /\ Len(after) = n + 1 /\ DOMAIN after = 1..(n + 1)
       /\ \A i \in 1..n : after[i] = list[i]
       /\ after[n + 1] = new
  BY <1>8, <1>9, <1>10, AppendProperties, LenProperties
<1>12. \A i \in 1..n : ~IsOpen(list[i])
  BY <1>8 DEF Arrival, TargetInv, OpenTogether
<1>13. OpenTogether(r, after)
  <2>1. IsOpen(new) /\ r.state = "OPEN"
    BY DEF new, IsOpen, Row
  <2> QED
    BY <1>8, <1>11, <1>12, <2>1 DEF OpenTogether
<1>14. Proven(t, new)
  <2>1. longer[Len(window) + 1] \in FaultEvidenceIn(t, s.property)
    <3>1. longer[Len(window) + 1] = SampleEvidence(t, s)
      <4>1. window \in Seq(Evidence(t))
        BY DEF Arrival, TargetInv, RowType, window
      <4> QED
        BY <4>1, AppendProperties DEF longer, Arrival, Evidence
    <3> QED
      BY <3>1 DEF FaultEvidenceIn, Arrival
  <2> QED
    BY <1>2, <1>6, <1>7, <2>1 DEF Proven, new
<1>15. Disjoint(after)
  <2> SUFFICES ASSUME NEW i \in 1..(n + 1)
               PROVE  /\ after[i].occurrence = i
                      /\ IsOpen(after[i]) <=> after[i].closed_at = None
                      /\ after[i].closed_at # None =>
                           after[i].opened_at < after[i].closed_at
                      /\ i > 1 => /\ after[i-1].closed_at # None
                                  /\ after[i-1].closed_at
                                       < after[i].qualifying_started_at
    BY <1>11 DEF Disjoint
  <2>1. CASE i \in 1..n
    <3>1. i > 1 => i - 1 \in 1..n
      BY <2>1, <1>8
    <3> QED
      BY <2>1, <3>1, <1>8, <1>11 DEF Arrival, TargetInv, Disjoint
  <2>2. CASE i = n + 1
    <3>1. /\ new.occurrence = n + 1 /\ IsOpen(new) /\ new.closed_at = None
          /\ new.qualifying_started_at = st.qualifying_started_at
      BY DEF new, IsOpen
    <3>2. ASSUME i > 1
          PROVE  /\ list[n].closed_at # None
                 /\ list[n].closed_at < st.qualifying_started_at
      <4>1. n \in 1..n
        BY <2>2, <3>2, <1>8
      <4>2. list[n].closed_at # None
        BY <4>1, <1>8, <1>12 DEF Arrival, TargetInv, Disjoint
      <4> QED
        BY <4>1, <4>2, <1>8 DEF Arrival, TargetInv, BehindCheckpoint
    <3>3. i > 1 => after[i-1] = list[n]
      BY <2>2, <1>8, <1>11
    <3> QED
      BY <2>2, <3>1, <3>2, <3>3, <1>11
  <2> QED
    BY <2>1, <2>2, <1>8
<1>16. BehindCheckpoint(r, after)
  <2>1. RowExists(r) /\ r.last_observed_at = s.observed_at /\ r.state # "QUALIFYING"
    BY <1>4 DEF Row, RowExists
  <2>2. new.opened_at = s.observed_at /\ new.closed_at = None
    BY DEF new
  <2>3. ASSUME NEW i \in 1..n
        PROVE  /\ list[i].opened_at <= s.observed_at
               /\ list[i].closed_at # None => list[i].closed_at <= s.observed_at
    <3>1. /\ list[i].opened_at \in Nat
          /\ list[i].closed_at \in Nat \cup {None}
      BY <1>8 DEF IssueType
    <3>2. /\ list[i].opened_at <= st.last_observed_at
          /\ list[i].closed_at # None => list[i].closed_at <= st.last_observed_at
      BY <1>8 DEF Arrival, TargetInv, BehindCheckpoint
    <3> QED
      BY <3>1, <3>2, <1>3, <1>4
  <2> QED
    BY <1>4, <1>8, <1>11, <2>1, <2>2, <2>3 DEF BehindCheckpoint
<1>17. \A i \in DOMAIN after : Proven(t, after[i])
  BY <1>8, <1>11, <1>14 DEF Arrival, TargetInv
<1>18. r \in RowType(t) /\ HonestWindow(t, r)
  BY EmptyWindowRow DEF Arrival
<1> QED
  BY <1>1, <1>11, <1>13, <1>15, <1>16, <1>17, <1>18 DEF TargetInv

(* The issue list after a recovery: the newest row is closed and the rest  *)
(* are as they were.                                                       *)
Closed(issue, s, ev) ==
    [issue EXCEPT !.status    = "CLOSED",
                  !.closed_at = s.observed_at,
                  !.recovery  = [ closed_at |-> s.observed_at,
                                  reason    |-> RecoveryReason(s),
                                  sample    |-> ev ]]

(* _close_issue changes the newest issue and no other.                     *)
LEMMA RecoveryClosesNewest ==
    ASSUME NEW t, NEW s, NEW st, NEW list, Arrival(t, s, st, list),
           ~IsLate(st, s), Recovers(t, s), st.state = "OPEN"
    PROVE  LET after == IssuesAfter(t, st, list, s)
               n     == Len(list)
               ev    == SampleEvidence(t, s)
           IN  /\ n \in Nat \ {0} /\ DOMAIN list = 1..n
               /\ IsOpen(list[n])
               /\ \A i \in 1..n : list[i] \in IssueType(t)
               /\ after \in Seq(IssueType(t)) /\ Len(after) = n
               /\ \A i \in 1..(n-1) : after[i] = list[i]
               /\ after[n] = Closed(list[n], s, ev)
<1> DEFINE after == IssuesAfter(t, st, list, s)
           n     == Len(list)
           ev    == SampleEvidence(t, s)
<1>1. /\ list \in Seq(IssueType(t)) /\ n \in Nat /\ DOMAIN list = 1..n
      /\ \A i \in 1..n : list[i] \in IssueType(t)
  BY LenProperties, ElementOfSeq DEF Arrival, TargetInv
<1>2. n > 0 /\ \A i \in 1..n : IsOpen(list[i]) <=> i = n
  BY <1>1 DEF Arrival, TargetInv, OpenTogether
<1>3. after = [i \in 1..n |-> IF IsOpen(list[i]) THEN Closed(list[i], s, ev)
                                                ELSE list[i]]
  <2>1. after = CloseIssue(list, s.observed_at, RecoveryReason(s), ev)
    BY RecoveryCase
  <2> HIDE DEF after, ev
  <2> QED
    BY <1>1, <2>1 DEF CloseIssue, Closed
<1>4. /\ s.observed_at \in Nat
      /\ ev \in Evidence(t)
      /\ RecoveryReason(s) \in {"AHU_OFF", "CONDITION_CLEARED"}
  BY SampleAssumption DEF Arrival, Evidence, RecoveryReason
<1> HIDE DEF after, ev
<1>5. \A i \in 1..n : Closed(list[i], s, ev) \in IssueType(t)
  BY <1>1, <1>4 DEF Closed, IssueType, RecoveryType
<1>6. after \in [1..n -> IssueType(t)]
  BY <1>1, <1>3, <1>5
<1>7. after \in Seq(IssueType(t)) /\ Len(after) = n
  BY <1>1, <1>6, IsASeq, LenProperties
<1>8. /\ \A i \in 1..(n-1) : after[i] = list[i]
      /\ after[n] = Closed(list[n], s, ev)
  <2>1. n \in 1..n /\ \A i \in 1..(n-1) : i \in 1..n /\ i # n
    <3> HIDE DEF n
    <3> QED
      BY <1>1, <1>2
  <2> QED
    BY <1>2, <1>3, <2>1
<1>9. n \in Nat \ {0} /\ IsOpen(list[n])
  <2> HIDE DEF n
  <2>1. n \in 1..n
    BY <1>1, <1>2
  <2> QED
    BY <1>1, <1>2, <2>1
<1> QED
  BY <1>1, <1>7, <1>8, <1>9 DEF ev, after

(* The transaction that closes an issue preserves the invariant.           *)
LEMMA IssueRecovers ==
    ASSUME NEW t, NEW s, NEW st, NEW list, Arrival(t, s, st, list),
           ~IsLate(st, s), Recovers(t, s), st.state = "OPEN"
    PROVE  TargetInv(t, RowAfter(t, st, s), IssuesAfter(t, st, list, s))
<1> DEFINE after == IssuesAfter(t, st, list, s)
           n     == Len(list)
           ev    == SampleEvidence(t, s)
           r     == Row("NORMAL", s.observed_at, None, <<>>)
<1>1. RowAfter(t, st, s) = r
  BY RecoveryCase
<1>2. /\ n \in Nat \ {0} /\ DOMAIN list = 1..n
      /\ IsOpen(list[n])
      /\ \A i \in 1..n : list[i] \in IssueType(t)
      /\ after \in Seq(IssueType(t)) /\ Len(after) = n
      /\ \A i \in 1..(n-1) : after[i] = list[i]
      /\ after[n] = Closed(list[n], s, ev)
  BY RecoveryClosesNewest
<1>3. /\ s.observed_at \in Nat /\ s.observed_at # None
      /\ RowExists(st) => /\ st.last_observed_at \in Nat
                          /\ st.last_observed_at < s.observed_at
  BY NewerThanCheckpoint
<1> HIDE DEF after
<1>4. DOMAIN after = 1..n /\ n \in 1..n
  BY <1>2, LenProperties
<1>5. /\ after[n].occurrence = list[n].occurrence
      /\ after[n].opened_at = list[n].opened_at
      /\ after[n].qualifying_started_at = list[n].qualifying_started_at
      /\ after[n].property = list[n].property
      /\ after[n].samples = list[n].samples
      /\ after[n].closed_at = s.observed_at
      /\ ~IsOpen(after[n])
  <2>1. list[n] \in IssueType(t)
    BY <1>2, <1>4
  <2> QED
    BY <1>2, <2>1 DEF Closed, IssueType, IsOpen
<1>6. \A i \in 1..n : /\ IsOpen(list[i]) <=> i = n
                      /\ RowExists(st)
                      /\ list[i].opened_at <= st.last_observed_at
                      /\ list[i].closed_at # None =>
                           list[i].closed_at <= st.last_observed_at
                      /\ list[i].opened_at \in Nat
                      /\ list[i].closed_at \in Nat \cup {None}
  BY <1>2 DEF Arrival, TargetInv, OpenTogether, BehindCheckpoint, IssueType
<1>12. \A i \in 1..n : i # n => i \in 1..(n-1)
  <2>1. n \in Nat
    BY <1>2
  <2> HIDE DEF n
  <2> QED
    BY <2>1
<1>7. OpenTogether(r, after)
  <2>1. r.state # "OPEN"
    BY DEF Row
  <2>2. \A i \in 1..n : ~IsOpen(after[i])
    <3> TAKE i \in 1..n
    <3>1. CASE i = n
      BY <3>1, <1>5
    <3>2. CASE i # n
      <4>1. i \in 1..(n-1)
        BY <3>2, <1>4, <1>12
      <4> QED
        BY <4>1, <3>2, <1>2, <1>6
    <3> QED
      BY <3>1, <3>2
  <2> QED
    BY <2>1, <2>2, <1>4 DEF OpenTogether
<1>8. \A i \in DOMAIN after : Proven(t, after[i])
  <2> SUFFICES ASSUME NEW i \in 1..n PROVE Proven(t, after[i])
    BY <1>4
  <2>1. Proven(t, list[i])
    BY <1>2 DEF Arrival, TargetInv
  <2>2. CASE i = n
    BY <2>1, <2>2, <1>5 DEF Proven
  <2>3. CASE i # n
    <3>1. i \in 1..(n-1)
      BY <2>3, <1>12
    <3> QED
      BY <2>1, <3>1, <1>2
  <2> QED
    BY <2>2, <2>3
<1>9. Disjoint(after)
  <2> SUFFICES ASSUME NEW i \in 1..n
               PROVE  /\ after[i].occurrence = i
                      /\ IsOpen(after[i]) <=> after[i].closed_at = None
                      /\ after[i].closed_at # None =>
                           after[i].opened_at < after[i].closed_at
                      /\ i > 1 => /\ after[i-1].closed_at # None
                                  /\ after[i-1].closed_at
                                       < after[i].qualifying_started_at
    BY <1>4 DEF Disjoint
  <2>1. /\ list[i].occurrence = i
        /\ IsOpen(list[i]) <=> list[i].closed_at = None
        /\ list[i].closed_at # None => list[i].opened_at < list[i].closed_at
        /\ i > 1 => /\ list[i-1].closed_at # None
                    /\ list[i-1].closed_at < list[i].qualifying_started_at
    BY <1>2 DEF Arrival, TargetInv, Disjoint
  <2>2. i > 1 => after[i-1] = list[i-1]
    BY <1>2
  <2>3. CASE i = n
    <3>1. list[n].opened_at < s.observed_at
      BY <1>3, <1>4, <1>6
    <3> QED
      BY <2>1, <2>2, <2>3, <3>1, <1>3, <1>5
  <2>4. CASE i # n
    <3>1. after[i] = list[i]
      BY <2>4, <1>2
    <3> QED
      BY <2>1, <2>2, <3>1
  <2> QED
    BY <2>3, <2>4
<1>10. BehindCheckpoint(r, after)
  <2>1. RowExists(r) /\ r.last_observed_at = s.observed_at /\ r.state # "QUALIFYING"
    BY <1>3 DEF Row, RowExists
  <2>2. ASSUME NEW i \in 1..n
        PROVE  /\ after[i].opened_at <= s.observed_at
               /\ after[i].closed_at # None => after[i].closed_at <= s.observed_at
    <3>1. list[i].opened_at <= s.observed_at
      BY <1>3, <1>6
    <3>2. list[i].closed_at # None => list[i].closed_at <= s.observed_at
      BY <1>3, <1>6
    <3>3. CASE i = n
      BY <3>1, <3>3, <1>3, <1>5
    <3>4. CASE i # n
      <4>1. after[i] = list[i]
        BY <3>4, <1>2
      <4> QED
        BY <4>1, <3>1, <3>2
    <3> QED
      BY <3>3, <3>4
  <2> QED
    BY <1>4, <2>1, <2>2 DEF BehindCheckpoint
<1>11. r \in RowType(t) /\ HonestWindow(t, r)
  BY EmptyWindowRow DEF Arrival
<1> QED
  BY <1>1, <1>2, <1>7, <1>8, <1>9, <1>10, <1>11 DEF TargetInv, after

-----------------------------------------------------------------------------
(* One evaluate_sample transaction preserves the invariant of its target.  *)
LEMMA SampleKeepsInv ==
    ASSUME NEW t \in Targets, NEW s \in Sample, NEW st, NEW list,
           TargetInv(t, st, list)
    PROVE  TargetInv(t, RowAfter(t, st, s), IssuesAfter(t, st, list, s))
<1>1. Arrival(t, s, st, list)
  BY DEF Arrival
<1>2. st.state \in {"NORMAL", "QUALIFYING", "OPEN"}
  BY DEF TargetInv, RowType
<1>3. CASE IsLate(st, s)
  BY <1>3, LateCase
<1>4. CASE ~IsLate(st, s) /\ ~Trustworthy(t, s)
  <2> DEFINE r == Row(IF st.state = "OPEN" THEN "OPEN" ELSE "NORMAL",
                      s.observed_at, None, <<>>)
  <2>1. RowAfter(t, st, s) = r /\ IssuesAfter(t, st, list, s) = list
    BY <1>4, UntrustedCase
  <2>2. r \in RowType(t) /\ HonestWindow(t, r)
    BY EmptyWindowRow
  <2>3. /\ r.last_observed_at = s.observed_at /\ r.state # "QUALIFYING"
        /\ r.state = "OPEN" <=> st.state = "OPEN"
    BY DEF Row
  <2> HIDE DEF r
  <2> QED
    BY <1>1, <1>4, <2>1, <2>2, <2>3, RowMoves
<1>5. CASE ~IsLate(st, s) /\ Recovers(t, s)
  <2>1. CASE st.state = "OPEN"
    BY <1>1, <1>5, <2>1, IssueRecovers
  <2>2. CASE st.state # "OPEN"
    <3> DEFINE r == Row("NORMAL", s.observed_at, None, <<>>)
    <3>1. RowAfter(t, st, s) = r /\ IssuesAfter(t, st, list, s) = list
      BY <1>5, <2>2, NonFaultCase
    <3>2. r \in RowType(t) /\ HonestWindow(t, r)
      BY EmptyWindowRow
    <3>3. r.last_observed_at = s.observed_at /\ r.state = "NORMAL"
      BY DEF Row
    <3> HIDE DEF r
    <3> QED
      BY <1>1, <1>5, <2>2, <3>1, <3>2, <3>3, RowMoves
  <2> QED
    BY <2>1, <2>2
<1>6. CASE ~IsLate(st, s) /\ Faulty(t, s)
  <2>1. CASE st.state = "OPEN"
    <3> DEFINE r == Row("OPEN", s.observed_at, None, <<>>)
    <3>1. RowAfter(t, st, s) = r /\ IssuesAfter(t, st, list, s) = list
      BY <1>6, <2>1, RemainsOpenCase
    <3>2. r \in RowType(t) /\ HonestWindow(t, r)
      BY EmptyWindowRow
    <3>3. r.last_observed_at = s.observed_at /\ r.state = "OPEN"
      BY DEF Row
    <3> HIDE DEF r
    <3> QED
      BY <1>1, <1>6, <2>1, <3>1, <3>2, <3>3, RowMoves
  <2>2. CASE st.state = "NORMAL" \/ BreaksContinuity(t, st, s)
    BY <1>1, <1>6, <2>2, WindowStarts
  <2>3. CASE st.state = "QUALIFYING" /\ ~BreaksContinuity(t, st, s)
    <3>1. \/ s.observed_at - st.qualifying_started_at < Duration[t][s.property]
          \/ s.observed_at - st.qualifying_started_at >= Duration[t][s.property]
      BY <1>1, <2>3, QualifyingHasStart, SampleAssumption, LogicAssumption
    <3> QED
      BY <1>1, <1>6, <2>3, <3>1, WindowGrows, IssueOpens
  <2> QED
    BY <1>2, <2>1, <2>2, <2>3
<1> QED
  BY <1>3, <1>4, <1>5, <1>6 DEF Faulty, Recovers

-----------------------------------------------------------------------------
(* The invariant of every behaviour.                                       *)

(* An empty row and an empty list of issues satisfy the invariant.         *)
LEMMA EmptyTargetInv ==
    ASSUME NEW t \in Targets
    PROVE  TargetInv(t, DefaultState, <<>>)
<1>1. DefaultState \in RowType(t)
  BY EmptySeq DEF DefaultState, Row, RowType
<1>2. HonestWindow(t, DefaultState)
  BY DEF DefaultState, Row, HonestWindow
<1>3. <<>> \in Seq(IssueType(t)) /\ DOMAIN <<>> = {}
  BY EmptySeq
<1>4. DefaultState.state = "NORMAL"
  BY DEF DefaultState, Row
<1> QED
  BY <1>1, <1>2, <1>3, <1>4
     DEF TargetInv, OpenTogether, Disjoint, BehindCheckpoint

(* Empty tables satisfy the invariant.                                     *)
LEMMA EmptyInv ==
    ASSUME states = Empty.states, issues = Empty.issues, trail = Empty.issues
    PROVE  EvaluatorInv
<1>1. \A t \in Targets : states[t] = DefaultState /\ issues[t] = <<>>
  BY DEF Empty
<1>2. /\ DOMAIN states = Targets /\ DOMAIN issues = Targets
      /\ trail \in [Targets -> Seq(Sample)]
  BY EmptySeq DEF Empty
<1>3. \A t \in Targets : TargetInv(t, states[t], issues[t])
  BY <1>1, EmptyTargetInv
<1> QED
  BY <1>2, <1>3 DEF EvaluatorInv, TypeOK, TargetInv

(* The initial state satisfies the invariant.                              *)
LEMMA InitInv == EvaluatorInit => EvaluatorInv
BY EmptyInv DEF EvaluatorInit

(* evaluate_sample preserves the invariant of every target.                *)
LEMMA EvaluateSampleKeepsInv ==
    ASSUME EvaluatorInv, NEW t \in Targets, NEW s \in Sample,
           EvaluateSample(t, s)
    PROVE  EvaluatorInv'
<1>1. /\ DOMAIN states' = Targets /\ DOMAIN issues' = Targets
      /\ states'[t] = RowAfter(t, states[t], s)
      /\ issues'[t] = IssuesAfter(t, states[t], issues[t], s)
      /\ \A u \in Targets \ {t} : states'[u] = states[u] /\ issues'[u] = issues[u]
  BY DEF EvaluatorInv, TypeOK, EvaluateSample
<1>2. trail' \in [Targets -> Seq(Sample)]
  <2>1. Append(trail[t], s) \in Seq(Sample) /\ trail[t] \in Seq(Sample)
    BY AppendProperties DEF EvaluatorInv, TypeOK
  <2> QED
    BY <2>1 DEF EvaluatorInv, TypeOK, EvaluateSample
<1>3. \A u \in Targets : TargetInv(u, states[u], issues[u])
  BY DEF EvaluatorInv
<1>4. TargetInv(t, states'[t], issues'[t])
  BY <1>1, <1>3, SampleKeepsInv
<1>5. ASSUME NEW u \in Targets PROVE TargetInv(u, states'[u], issues'[u])
  BY <1>1, <1>3, <1>4
<1> QED
  BY <1>1, <1>2, <1>5 DEF EvaluatorInv, TypeOK, TargetInv

(* reset_evaluation re-establishes the invariant.                          *)
LEMMA ResetKeepsInv ==
    ASSUME ResetEvaluation
    PROVE  EvaluatorInv'
<1>1. \A t \in Targets : states'[t] = DefaultState /\ issues'[t] = <<>>
  BY DEF Empty, ResetEvaluation
<1>2. /\ DOMAIN states' = Targets /\ DOMAIN issues' = Targets
      /\ trail' \in [Targets -> Seq(Sample)]
  BY EmptySeq DEF Empty, ResetEvaluation
<1>3. \A t \in Targets : TargetInv(t, states'[t], issues'[t])
  BY <1>1, EmptyTargetInv
<1> QED
  BY <1>2, <1>3 DEF EvaluatorInv, TypeOK, TargetInv

(* Every step preserves the invariant.                                     *)
LEMMA NextInv == EvaluatorInv /\ [EvaluatorNext]_vars => EvaluatorInv'
<1> SUFFICES ASSUME EvaluatorInv, [EvaluatorNext]_vars PROVE EvaluatorInv'
  OBVIOUS
<1>1. ASSUME NEW t \in Targets, NEW s \in Sample, EvaluateSample(t, s)
      PROVE  EvaluatorInv'
  BY <1>1, EvaluateSampleKeepsInv
<1>2. CASE ResetEvaluation
  BY <1>2, ResetKeepsInv
<1>3. CASE UNCHANGED vars
  BY <1>3 DEF vars, EvaluatorInv, TypeOK
<1> QED
  BY <1>1, <1>2, <1>3 DEF EvaluatorNext

(* The inductive invariant holds in every reachable state of the           *)
(* evaluator's tables (evaluate_sample, reset_evaluation).                 *)
THEOREM InvariantHolds == EvaluatorSpec => []EvaluatorInv
<1> QED
  BY InitInv, NextInv, PTL DEF EvaluatorSpec

(* Every row and every piece of evidence is well formed (TypeOK).          *)
THEOREM TypeCorrect == EvaluatorSpec => []TypeOK
<1>1. EvaluatorInv => TypeOK
  BY DEF EvaluatorInv
<1> QED
  BY <1>1, InvariantHolds, PTL

(* The state row and the issue table never disagree: a target is OPEN      *)
(* exactly when its newest issue is its one open issue, whatever samples   *)
(* came in whatever order (evaluate_sample).                               *)
THEOREM TablesAgree == EvaluatorSpec => []StateMatchesIssues
<1>1. EvaluatorInv => StateMatchesIssues
  BY DEF EvaluatorInv, TargetInv, StateMatchesIssues
<1> QED
  BY <1>1, InvariantHolds, PTL

(* The window being timed is a continuous run of trusted faulty samples    *)
(* that has not yet lasted the duration (evaluate_transition).             *)
THEOREM WindowSound == EvaluatorSpec => []WindowIsTheFault
<1>1. EvaluatorInv => WindowIsTheFault
  BY DEF EvaluatorInv, TargetInv, WindowIsTheFault
<1> QED
  BY <1>1, InvariantHolds, PTL

(* No issue was ever raised without its proof: its samples are a run of    *)
(* trusted faulty samples that lasts the duration (_open_issue).           *)
THEOREM IssuesAreProven == EvaluatorSpec => []EvidenceProvesIssue
<1>1. EvaluatorInv => EvidenceProvesIssue
  BY DEF EvaluatorInv, TargetInv, EvidenceProvesIssue
<1> QED
  BY <1>1, InvariantHolds, PTL

(* Occurrences are numbered densely and their intervals never overlap.     *)
THEOREM OccurrencesDisjoint == EvaluatorSpec => []OccurrencesAreDisjoint
<1>1. EvaluatorInv => OccurrencesAreDisjoint
  BY DEF EvaluatorInv, TargetInv, OccurrencesAreDisjoint
<1> QED
  BY <1>1, InvariantHolds, PTL

(* No issue lies in the checkpoint's future.                               *)
THEOREM CheckpointCoversIssues == EvaluatorSpec => []IssuesBehindCheckpoint
<1>1. EvaluatorInv => IssuesBehindCheckpoint
  BY DEF EvaluatorInv, TargetInv, IssuesBehindCheckpoint
<1> QED
  BY <1>1, InvariantHolds, PTL

-----------------------------------------------------------------------------
(* The shape of one transaction, for the action properties and the         *)
(* refinement: it ignores the sample, moves the checkpoint, opens an issue *)
(* or closes the newest one.                                               *)

Ignores(t, s, st, list) ==
    /\ IsLate(st, s)
    /\ RowAfter(t, st, s) = st
    /\ IssuesAfter(t, st, list, s) = list

MovesOn(t, s, st, list) ==
    /\ ~IsLate(st, s)
    /\ RowAfter(t, st, s).last_observed_at = s.observed_at
    /\ IssuesAfter(t, st, list, s) = list

Opens(t, s, st, list) ==
    LET after == IssuesAfter(t, st, list, s)
        n     == Len(list)
    IN  /\ ~IsLate(st, s)
        /\ RowAfter(t, st, s).last_observed_at = s.observed_at
        /\ st.state = "QUALIFYING"
        /\ s.observed_at - st.qualifying_started_at >= Duration[t][s.property]
        /\ \E new : /\ after = Append(list, new)
                    /\ new.qualifying_started_at = st.qualifying_started_at
                    /\ new.opened_at = s.observed_at
                    /\ new.closed_at = None

Closes(t, s, st, list) ==
    LET after == IssuesAfter(t, st, list, s)
        n     == Len(list)
    IN  /\ ~IsLate(st, s)
        /\ RowAfter(t, st, s).last_observed_at = s.observed_at
        /\ n \in Nat \ {0} /\ DOMAIN list = 1..n
        /\ IsOpen(list[n])
        /\ DOMAIN after = 1..n
        /\ \A i \in 1..(n-1) : after[i] = list[i]
        /\ after[n] = Closed(list[n], s, SampleEvidence(t, s))

(* What one transaction does to the boundaries: it leaves the issues       *)
(* alone, appends one that opens now, or closes the newest now.            *)
LEMMA StepShape ==
    ASSUME NEW t, NEW s, NEW st, NEW list, Arrival(t, s, st, list)
    PROVE  \/ Ignores(t, s, st, list)
           \/ MovesOn(t, s, st, list)
           \/ Opens(t, s, st, list)
           \/ Closes(t, s, st, list)
<1>1. st.state \in {"NORMAL", "QUALIFYING", "OPEN"}
  BY DEF Arrival, TargetInv, RowType
<1>2. CASE IsLate(st, s)
  BY <1>2, LateCase DEF Ignores
<1>3. CASE ~IsLate(st, s) /\ ~Trustworthy(t, s)
  BY <1>3, UntrustedCase DEF MovesOn, Row
<1>4. CASE ~IsLate(st, s) /\ Recovers(t, s) /\ st.state # "OPEN"
  <2>1. /\ RowAfter(t, st, s) = Row("NORMAL", s.observed_at, None, <<>>)
        /\ IssuesAfter(t, st, list, s) = list
    BY <1>4, NonFaultCase
  <2> QED
    BY <1>4, <2>1 DEF MovesOn, Row
<1>5. CASE ~IsLate(st, s) /\ Recovers(t, s) /\ st.state = "OPEN"
  <2> DEFINE after == IssuesAfter(t, st, list, s)
  <2>1. Len(after) = Len(list) /\ after \in Seq(IssueType(t))
    BY <1>5, RecoveryClosesNewest
  <2>2. DOMAIN after = 1..Len(list)
    BY <2>1, LenProperties
  <2>3. RowAfter(t, st, s).last_observed_at = s.observed_at
    BY <1>5, RecoveryCase DEF Row
  <2> QED
    BY <1>5, <2>2, <2>3, RecoveryClosesNewest DEF Closes
<1>6. CASE ~IsLate(st, s) /\ Faulty(t, s) /\ st.state = "OPEN"
  <2>1. /\ RowAfter(t, st, s) = Row("OPEN", s.observed_at, None, <<>>)
        /\ IssuesAfter(t, st, list, s) = list
    BY <1>6, RemainsOpenCase
  <2> QED
    BY <1>6, <2>1 DEF MovesOn, Row
<1>7. CASE /\ ~IsLate(st, s) /\ Faulty(t, s)
           /\ st.state = "NORMAL" \/ BreaksContinuity(t, st, s)
  BY <1>7, WindowStartsCase DEF MovesOn, Row
<1>8. CASE /\ ~IsLate(st, s) /\ Faulty(t, s)
           /\ st.state = "QUALIFYING" /\ ~BreaksContinuity(t, st, s)
           /\ s.observed_at - st.qualifying_started_at < Duration[t][s.property]
  BY <1>8, WindowGrowsCase DEF MovesOn, Row
<1>9. CASE /\ ~IsLate(st, s) /\ Faulty(t, s)
           /\ st.state = "QUALIFYING" /\ ~BreaksContinuity(t, st, s)
           /\ s.observed_at - st.qualifying_started_at >= Duration[t][s.property]
  <2>1. RowAfter(t, st, s).last_observed_at = s.observed_at
    BY <1>9, IssueOpensCase DEF Row
  <2> DEFINE new == [ occurrence            |-> NextOccurrence(list),
                      status                |-> "OPEN",
                      property              |-> s.property,
                      qualifying_started_at |-> st.qualifying_started_at,
                      opened_at             |-> s.observed_at,
                      closed_at             |-> None,
                      samples               |-> Append(st.qualifying_evidence,
                                                       SampleEvidence(t, s)),
                      recovery              |-> None ]
  <2>2. IssuesAfter(t, st, list, s) = Append(list, new)
    BY <1>9, IssueOpensCase DEF OpenIssue
  <2>3. /\ new.qualifying_started_at = st.qualifying_started_at
        /\ new.opened_at = s.observed_at
        /\ new.closed_at = None
    OBVIOUS
  <2> HIDE DEF new
  <2> QED
    BY <1>9, <2>1, <2>2, <2>3 DEF Opens
<1>10. st.state = "QUALIFYING" =>
         \/ s.observed_at - st.qualifying_started_at < Duration[t][s.property]
         \/ s.observed_at - st.qualifying_started_at >= Duration[t][s.property]
  BY QualifyingHasStart, SampleAssumption, LogicAssumption DEF Arrival
<1> QED
  BY <1>1, <1>2, <1>3, <1>4, <1>5, <1>6, <1>7, <1>8, <1>9, <1>10
     DEF Faulty, Recovers

-----------------------------------------------------------------------------
(* Every transaction is a step of the fault timeline.                      *)

(* Inserting an issue appends its fault to the timeline.                   *)
LEMMA FaultsOfAppend ==
    ASSUME NEW S, NEW list \in Seq(S), NEW new
    PROVE  FaultsOf(Append(list, new)) =
             Append(FaultsOf(list),
                    [ start  |-> new.qualifying_started_at,
                      raised |-> new.opened_at,
                      ended  |-> new.closed_at ])
<1>1. list \in Seq(S \cup {new}) /\ new \in S \cup {new}
  BY SeqMonotonic
<1> DEFINE n     == Len(list)
           after == Append(list, new)
           f     == [ start  |-> new.qualifying_started_at,
                      raised |-> new.opened_at,
                      ended  |-> new.closed_at ]
<1>2. /\ n \in Nat /\ DOMAIN list = 1..n /\ DOMAIN after = 1..(n + 1)
      /\ \A i \in 1..n : after[i] = list[i]
      /\ after[n + 1] = new
  BY <1>1, AppendProperties, LenProperties
<1>3. FaultsOf(list) = [i \in 1..n |->
          [ start  |-> list[i].qualifying_started_at,
            raised |-> list[i].opened_at,
            ended  |-> list[i].closed_at ]]
  BY <1>2 DEF FaultsOf
<1>4. FaultsOf(list) \in Seq({FaultsOf(list)[i] : i \in 1..n}) /\ Len(FaultsOf(list)) = n
  <2> DEFINE T == {FaultsOf(list)[i] : i \in 1..n}
  <2>1. FaultsOf(list) \in [1..n -> T]
    BY <1>3
  <2> QED
    BY <1>2, <2>1, IsASeq, LenProperties
<1>5. FaultsOf(after) = [i \in 1..(n + 1) |->
          [ start  |-> after[i].qualifying_started_at,
            raised |-> after[i].opened_at,
            ended  |-> after[i].closed_at ]]
  BY <1>2 DEF FaultsOf
<1> DEFINE T == {FaultsOf(list)[i] : i \in 1..n} \cup {f}
           g == Append(FaultsOf(list), f)
<1>6. FaultsOf(list) \in Seq(T) /\ f \in T
  BY <1>4, SeqMonotonic
<1>7. /\ g \in Seq(T) /\ Len(g) = n + 1
      /\ \A i \in 1..n : g[i] = FaultsOf(list)[i]
      /\ g[n + 1] = f
  BY <1>4, <1>6, AppendProperties
<1>8. /\ \A i \in 1..n : FaultsOf(after)[i] = FaultsOf(list)[i]
      /\ FaultsOf(after)[n + 1] = f
  BY <1>2, <1>3, <1>5
<1>9. g \in [1..(n + 1) -> T]
  BY <1>7, LenProperties
<1> HIDE DEF g, f, after
<1>10. \A i \in 1..(n + 1) : FaultsOf(after)[i] = g[i]
  <2>1. \A i \in 1..(n + 1) : i \in 1..n \/ i = n + 1
    <3>1. n \in Nat
      BY <1>2
    <3> HIDE DEF n
    <3> QED
      BY <3>1
  <2> QED
    BY <1>7, <1>8, <2>1
<1> QED
  BY <1>5, <1>9, <1>10 DEF g, f, after

FaultsView == [t \in Targets |-> FaultsOf(issues[t])]
NewestView == [t \in Targets |-> states[t].last_observed_at]
DeviceTimes == {s.observed_at : s \in Sample}

(* evaluate_sample is a step of FaultTimeline or changes nothing it sees.  *)
LEMMA SampleIsTimelineStep ==
    ASSUME EvaluatorInv, NEW t \in Targets, NEW s \in Sample,
           EvaluateSample(t, s)
    PROVE  Timeline!TimelineNext \/ UNCHANGED <<FaultsView, NewestView>>
<1> DEFINE st    == states[t]
           list  == issues[t]
           now   == s.observed_at
           after == IssuesAfter(t, st, list, s)
           r     == RowAfter(t, st, s)
<1>1. /\ DOMAIN states = Targets /\ DOMAIN issues = Targets
      /\ states' = [states EXCEPT ![t] = r]
      /\ issues' = [issues EXCEPT ![t] = after]
  BY DEF EvaluatorInv, TypeOK, EvaluateSample
<1>2. Arrival(t, s, st, list)
  BY DEF Arrival, EvaluatorInv
<1>3. FaultsView' = [FaultsView EXCEPT ![t] = FaultsOf(after)]
  BY <1>1 DEF FaultsView
<1>4. NewestView' = [NewestView EXCEPT ![t] = r.last_observed_at]
  BY <1>1 DEF NewestView
<1>5. /\ FaultsView[t] = FaultsOf(list) /\ DOMAIN FaultsView = Targets
      /\ NewestView[t] = st.last_observed_at /\ DOMAIN NewestView = Targets
      /\ FaultsView = [u \in Targets |-> FaultsView[u]]
      /\ NewestView = [u \in Targets |-> NewestView[u]]
  BY DEF FaultsView, NewestView
<1>6. now \in DeviceTimes /\ now \in Nat
  BY SampleAssumption DEF DeviceTimes
<1>7. ~IsLate(st, s) => NewestView[t] = None \/ NewestView[t] < now
  BY <1>2, <1>5, NewerThanCheckpoint DEF RowExists
<1>8. /\ list \in Seq(IssueType(t)) /\ DOMAIN list = 1..Len(list)
      /\ Len(list) \in Nat
      /\ \A i \in 1..Len(list) : list[i] \in IssueType(t)
  BY <1>2, LenProperties, ElementOfSeq DEF Arrival, TargetInv
<1>9. /\ DOMAIN FaultsOf(list) = 1..Len(list)
      /\ \A i \in 1..Len(list) : FaultsOf(list)[i].ended = list[i].closed_at
  BY <1>8 DEF FaultsOf
<1>10. Len(FaultsOf(list)) = Len(list)
  BY <1>8, <1>9, LenProperties
<1> HIDE DEF st, list, now, after, r
<1>11. CASE Ignores(t, s, st, list)
  <2>1. r = st /\ after = list
    BY <1>11 DEF Ignores, r, after
  <2> QED
    BY <1>3, <1>4, <1>5, <2>1
<1>12. CASE MovesOn(t, s, st, list)
  <2>1. r.last_observed_at = now /\ after = list /\ ~IsLate(st, s)
    BY <1>12 DEF MovesOn, r, after, now
  <2>2. Timeline!Observe(t, now)
    BY <1>3, <1>4, <1>5, <1>7, <2>1
       DEF Timeline!Observe, Timeline!Newer, FaultsView, NewestView
  <2> QED
    BY <1>6, <2>2 DEF Timeline!TimelineNext, DeviceTimes
<1>13. CASE Opens(t, s, st, list)
  <2> DEFINE start == st.qualifying_started_at
  <2>1. /\ ~IsLate(st, s) /\ r.last_observed_at = now
        /\ st.state = "QUALIFYING"
        /\ s.property \in Properties
        /\ now - start >= Duration[t][s.property]
    BY <1>13, SampleAssumption DEF Opens, r, now
  <2>2. FaultsOf(after) =
          Append(FaultsOf(list), [start |-> start, raised |-> now, ended |-> None])
    BY <1>8, <1>13, FaultsOfAppend DEF Opens, after, now
  <2>3. start \in DeviceTimes
    <3> DEFINE window == st.qualifying_evidence
    <3>1. /\ window \in Seq(Evidence(t)) /\ Len(window) > 0
          /\ window[1].observed_at = start
      BY <1>2, <2>1 DEF Arrival, TargetInv, RowType, HonestWindow
    <3>2. window[1] \in Evidence(t)
      BY <3>1, LenProperties, ElementOfSeq
    <3> QED
      BY <3>1, <3>2, EvidenceTime DEF Evidence, DeviceTimes
  <2>4. \A i \in 1..Len(list) : /\ list[i].closed_at # None
                                /\ list[i].closed_at < start
    BY <1>2, <1>8, <2>1
       DEF Arrival, TargetInv, OpenTogether, Disjoint, BehindCheckpoint
  <2>5. Timeline!Raise(t, start, now)
    <3> HIDE DEF start
    <3>1. NewestView[t] = None \/ NewestView[t] < now
      BY <1>7, <2>1
    <3>2. \A i \in DOMAIN FaultsView[t] : FaultsView[t][i].ended # None
      BY <1>5, <1>9, <2>4
    <3>3. \A i \in DOMAIN FaultsView[t] : FaultsView[t][i].ended < start
      BY <1>5, <1>9, <2>4
    <3>4. NewestView' = [NewestView EXCEPT ![t] = now]
      BY <1>4, <2>1
    <3>5. FaultsView' = [FaultsView EXCEPT ![t] =
             Append(@, [start |-> start, raised |-> now, ended |-> None])]
      BY <1>3, <1>5, <2>2
    <3> QED
      BY <2>1, <3>1, <3>2, <3>3, <3>4, <3>5
         DEF Timeline!Raise, Timeline!Newer, Timeline!NoneOpen,
             FaultsView, NewestView
  <2> HIDE DEF start
  <2> QED
    BY <1>6, <2>3, <2>5 DEF Timeline!TimelineNext, DeviceTimes
<1>14. CASE Closes(t, s, st, list)
  <2> DEFINE n == Len(list)
  <2>1. /\ ~IsLate(st, s) /\ r.last_observed_at = now
        /\ n \in Nat \ {0} /\ IsOpen(list[n])
        /\ DOMAIN after = 1..n
        /\ \A i \in 1..(n-1) : after[i] = list[i]
        /\ after[n] = Closed(list[n], s, SampleEvidence(t, s))
    BY <1>14 DEF Closes, r, now, after
  <2>2. n \in 1..n /\ \A i \in 1..n : i # n => i \in 1..(n-1)
    <3>1. n \in Nat \ {0}
      BY <2>1
    <3> HIDE DEF n
    <3> QED
      BY <3>1
  <2>3. list[n].closed_at = None
    BY <1>2, <1>8, <2>1, <2>2 DEF Arrival, TargetInv, Disjoint
  <2>4. list[n] \in IssueType(t)
    BY <1>8, <2>2
  <2>5. /\ after[n].qualifying_started_at = list[n].qualifying_started_at
        /\ after[n].opened_at = list[n].opened_at
        /\ after[n].closed_at = now
    BY <2>1, <2>4 DEF Closed, IssueType, now
  <2>6. FaultsOf(after) =
          [FaultsOf(list) EXCEPT ![n] = Timeline!Ended(FaultsOf(list)[n], now)]
    <3> DEFINE g == [FaultsOf(list) EXCEPT
                        ![n] = Timeline!Ended(FaultsOf(list)[n], now)]
    <3>1. DOMAIN FaultsOf(after) = 1..n /\ DOMAIN g = 1..n
      BY <1>9, <2>1 DEF FaultsOf
    <3>2. ASSUME NEW i \in 1..n PROVE FaultsOf(after)[i] = g[i]
      <4>1. /\ FaultsOf(after)[i] = [ start  |-> after[i].qualifying_started_at,
                                     raised |-> after[i].opened_at,
                                     ended  |-> after[i].closed_at ]
            /\ FaultsOf(list)[i] = [ start  |-> list[i].qualifying_started_at,
                                    raised |-> list[i].opened_at,
                                    ended  |-> list[i].closed_at ]
        BY <1>8, <2>1 DEF FaultsOf
      <4>2. CASE i = n
        BY <1>9, <2>2, <2>5, <4>1, <4>2 DEF Timeline!Ended
      <4>3. CASE i # n
        BY <1>9, <2>1, <2>2, <4>1, <4>3
      <4> QED
        BY <4>2, <4>3
    <3> QED
      BY <3>1, <3>2 DEF FaultsOf
  <2>7. Timeline!End(t, now)
    <3>1. NewestView[t] = None \/ NewestView[t] < now
      BY <1>7, <2>1
    <3>2. Len(FaultsView[t]) = n /\ n > 0
      BY <1>5, <1>10, <2>1
    <3>3. FaultsView[t][n].ended = None
      BY <1>5, <1>9, <2>2, <2>3
    <3>4. NewestView' = [NewestView EXCEPT ![t] = now]
      BY <1>4, <2>1
    <3>5. FaultsView' = [FaultsView EXCEPT ![t] =
             [FaultsView[t] EXCEPT ![n] = Timeline!Ended(FaultsView[t][n], now)]]
      BY <1>3, <1>5, <2>6
    <3> HIDE DEF n
    <3> QED
      BY <3>1, <3>2, <3>3, <3>4, <3>5
         DEF Timeline!End, Timeline!Newer, FaultsView, NewestView
  <2> QED
    BY <1>6, <2>7 DEF Timeline!TimelineNext, DeviceTimes
<1> QED
  BY <1>2, <1>11, <1>12, <1>13, <1>14, StepShape

(* The issue table, read through its boundaries, is a fault timeline: at   *)
(* most one open fault, none shorter than the duration, none overlapping   *)
(* another, and device time never running backwards.                       *)
THEOREM RefinesTimeline == EvaluatorSpec => ImplementsTimeline
<1>1. EvaluatorInit => Timeline!TimelineInit
  BY EmptySeq DEF EvaluatorInit, Empty, Timeline!TimelineInit, FaultsOf,
                  DefaultState, Row
<1>2. EvaluatorInv /\ [EvaluatorNext]_vars
        => [Timeline!TimelineNext]_<<FaultsView, NewestView>>
  <2> SUFFICES ASSUME EvaluatorInv, [EvaluatorNext]_vars
               PROVE  Timeline!TimelineNext \/ UNCHANGED <<FaultsView, NewestView>>
    OBVIOUS
  <2>1. ASSUME NEW t \in Targets, NEW s \in Sample, EvaluateSample(t, s)
        PROVE  Timeline!TimelineNext \/ UNCHANGED <<FaultsView, NewestView>>
    BY <2>1, SampleIsTimelineStep
  <2>2. CASE ResetEvaluation
    <3>1. Timeline!Forget
      BY <2>2, EmptySeq DEF ResetEvaluation, Empty, Timeline!Forget, FaultsOf,
                            DefaultState, Row
    <3> QED
      BY <3>1 DEF Timeline!TimelineNext
  <2>3. CASE UNCHANGED vars
    BY <2>3 DEF vars, FaultsView, NewestView
  <2> QED
    BY <2>1, <2>2, <2>3 DEF EvaluatorNext
<1> QED
  BY <1>1, <1>2, InvariantHolds, PTL
     DEF EvaluatorSpec, ImplementsTimeline, Timeline!TimelineSpec,
         FaultsView, NewestView

-----------------------------------------------------------------------------
(* Action properties.                                                      *)

(* A sample is newer than all before exactly when it is not late.          *)
LEMMA NewestIsNotLate ==
    ASSUME EvaluatorInv, CheckpointIsNewest,
           NEW t \in Targets, NEW s \in Sample
    PROVE  IsNewest(t, s) <=> ~IsLate(states[t], s)
<1> DEFINE st == states[t]
           n  == Len(trail[t])
<1>1. /\ s.observed_at \in Nat
      /\ st.last_observed_at \in Nat \cup {None}
      /\ trail[t] \in Seq(Sample)
  BY SampleAssumption DEF EvaluatorInv, TypeOK, RowType
<1>2. n \in Nat /\ DOMAIN trail[t] = 1..n /\ \A i \in 1..n : trail[t][i] \in Sample
  BY <1>1, LenProperties, ElementOfSeq
<1>3. \A i \in 1..n : trail[t][i].observed_at \in Nat
  BY <1>2, SampleAssumption
<1>4. CASE trail[t] = <<>>
  <2>1. ~RowExists(st) /\ DOMAIN trail[t] = {}
    BY <1>4 DEF CheckpointIsNewest
  <2> QED
    BY <2>1 DEF IsNewest, IsLate
<1>5. CASE trail[t] # <<>>
  <2>1. n \in 1..n
    <3>1. n # 0
      BY <1>1, <1>5, EmptySeq, LenProperties
    <3> HIDE DEF n
    <3> QED
      BY <1>2, <3>1
  <2>2. /\ RowExists(st)
        /\ st.last_observed_at = trail[t][n].observed_at
        /\ \A i \in 1..n : trail[t][i].observed_at <= st.last_observed_at
    BY <1>2, <1>5 DEF CheckpointIsNewest
  <2> HIDE DEF st, n
  <2>3. IsNewest(t, s) <=> \A i \in 1..n : trail[t][i].observed_at < s.observed_at
    BY <1>2 DEF IsNewest
  <2>4. IsLate(st, s) <=> s.observed_at <= st.last_observed_at
    BY <2>2 DEF IsLate
  <2>5. st.last_observed_at \in Nat
    BY <1>3, <2>1, <2>2
  <2> QED
    BY <1>1, <1>3, <2>1, <2>2, <2>3, <2>4, <2>5 DEF st
<1> QED
  BY <1>4, <1>5

(* A late sample leaves the checkpoint; any other moves it to its own      *)
(* time.                                                                   *)
LEMMA StepCheckpoint ==
    ASSUME EvaluatorInv, CheckpointIsNewest,
           NEW t \in Targets, NEW s \in Sample, EvaluateSample(t, s)
    PROVE  \/ /\ IsLate(states[t], s)
              /\ trail'[t] = trail[t]
              /\ states'[t] = states[t] /\ issues'[t] = issues[t]
           \/ /\ ~IsLate(states[t], s)
              /\ trail'[t] = Append(trail[t], s)
              /\ states'[t].last_observed_at = s.observed_at
<1>1. Arrival(t, s, states[t], issues[t])
  BY DEF EvaluatorInv, Arrival
<1>2. /\ states'[t] = RowAfter(t, states[t], s)
      /\ issues'[t] = IssuesAfter(t, states[t], issues[t], s)
      /\ trail'[t] = IF IsNewest(t, s) THEN Append(trail[t], s) ELSE trail[t]
  BY DEF EvaluatorInv, TypeOK, EvaluateSample
<1>3. IsNewest(t, s) <=> ~IsLate(states[t], s)
  BY NewestIsNotLate
<1> QED
  BY <1>1, <1>2, <1>3, StepShape DEF Ignores, MovesOn, Opens, Closes

(* evaluate_sample preserves CheckpointIsNewest.                           *)
LEMMA SampleKeepsCheckpoint ==
    ASSUME EvaluatorInv, CheckpointIsNewest,
           NEW t \in Targets, NEW s \in Sample, EvaluateSample(t, s)
    PROVE  CheckpointIsNewest'
<1> DEFINE Good(u) ==
        /\ trail'[u] = <<>> <=> ~RowExists(states'[u])
        /\ trail'[u] # <<>> =>
             states'[u].last_observed_at = trail'[u][Len(trail'[u])].observed_at
        /\ \A i \in DOMAIN trail'[u] :
             trail'[u][i].observed_at <= states'[u].last_observed_at
<1>1. ASSUME NEW u \in Targets, u # t PROVE Good(u)
  <2>1. trail'[u] = trail[u] /\ states'[u] = states[u]
    BY <1>1 DEF EvaluatorInv, TypeOK, EvaluateSample
  <2> QED
    BY <2>1 DEF CheckpointIsNewest
<1>2. CASE trail'[t] = trail[t] /\ states'[t] = states[t]
  <2>1. Good(t)
    BY <1>2 DEF CheckpointIsNewest
  <2> QED
    BY <1>1, <2>1 DEF CheckpointIsNewest
<1>3. CASE /\ ~IsLate(states[t], s)
           /\ trail'[t] = Append(trail[t], s)
           /\ states'[t].last_observed_at = s.observed_at
  <2> DEFINE n == Len(trail[t])
  <2>1. trail[t] \in Seq(Sample) /\ s.observed_at \in Nat /\ s.observed_at # None
    BY SampleAssumption, NoneAssumption DEF EvaluatorInv, TypeOK
  <2>2. /\ n \in Nat /\ DOMAIN trail[t] = 1..n
        /\ Len(trail'[t]) = n + 1 /\ DOMAIN trail'[t] = 1..(n + 1)
        /\ \A i \in 1..n : trail'[t][i] = trail[t][i]
        /\ trail'[t][n + 1] = s
        /\ \A i \in 1..n : trail[t][i] \in Sample
    BY <1>3, <2>1, AppendProperties, LenProperties, ElementOfSeq
  <2> HIDE DEF n
  <2>3. \A i \in 1..n : trail[t][i].observed_at < s.observed_at
    BY <1>3, <2>2, NewestIsNotLate DEF IsNewest
  <2>4. \A i \in 1..(n + 1) : trail'[t][i].observed_at <= s.observed_at
    <3> TAKE i \in 1..(n + 1)
    <3>1. CASE i = n + 1
      BY <2>1, <2>2, <3>1
    <3>2. CASE i \in 1..n
      <4>1. trail[t][i].observed_at \in Nat
        BY <2>2, <3>2, SampleAssumption
      <4> QED
        BY <2>1, <2>2, <2>3, <3>2, <4>1
    <3> QED
      BY <2>2, <3>1, <3>2
  <2>5. trail'[t] # <<>>
    <3>1. Len(trail'[t]) # 0
      BY <2>2
    <3> QED
      BY <3>1
  <2>6. Good(t)
    BY <1>3, <2>1, <2>2, <2>4, <2>5 DEF RowExists
  <2> QED
    BY <1>1, <2>6 DEF CheckpointIsNewest
<1> QED
  BY <1>2, <1>3, StepCheckpoint

(* Every step preserves CheckpointIsNewest.                                *)
LEMMA CheckpointStep ==
    EvaluatorInv /\ CheckpointIsNewest /\ [EvaluatorNext]_vars
        => CheckpointIsNewest'
<1> SUFFICES ASSUME EvaluatorInv, CheckpointIsNewest, [EvaluatorNext]_vars
             PROVE  CheckpointIsNewest'
  OBVIOUS
<1>1. ASSUME NEW t \in Targets, NEW s \in Sample, EvaluateSample(t, s)
      PROVE  CheckpointIsNewest'
  BY <1>1, SampleKeepsCheckpoint
<1>2. CASE ResetEvaluation
  BY <1>2 DEF ResetEvaluation, Empty, CheckpointIsNewest, RowExists,
              DefaultState, Row
<1>3. CASE UNCHANGED vars
  BY <1>3 DEF vars, CheckpointIsNewest
<1> QED
  BY <1>1, <1>2, <1>3 DEF EvaluatorNext

(* The checkpoint a worker resumes from is the newest time delivered.      *)
THEOREM CheckpointNewest == EvaluatorSpec => []CheckpointIsNewest
<1>1. EvaluatorInit => CheckpointIsNewest
  BY DEF EvaluatorInit, Empty, CheckpointIsNewest, RowExists, DefaultState, Row
<1> QED
  BY <1>1, CheckpointStep, InvariantHolds, PTL DEF EvaluatorSpec

(* While a target has no row, it has the default state and no issue.       *)
LEMMA NoRowIsDefault ==
    ASSUME NEW t \in Targets, NEW st, NEW list,
           TargetInv(t, st, list), ~RowExists(st)
    PROVE  st = DefaultState /\ list = <<>>
<1>1. list = <<>>
  <2>1. DOMAIN list = {}
    BY DEF TargetInv, BehindCheckpoint
  <2> QED
    BY <2>1, LenProperties, EmptySeq DEF TargetInv
<1>2. st \in RowType(t) /\ st.last_observed_at = None
  BY DEF TargetInv, RowExists
<1>3. st.state # "OPEN"
  BY <1>1 DEF TargetInv, OpenTogether
<1>4. st.state # "QUALIFYING"
  <2> SUFFICES ASSUME st.state = "QUALIFYING" PROVE FALSE
    OBVIOUS
  <2> DEFINE window == st.qualifying_evidence
  <2>1. /\ window \in Seq(Evidence(t)) /\ Len(window) > 0
        /\ window[Len(window)].observed_at = None
    BY <1>2 DEF TargetInv, HonestWindow, RowType
  <2>2. window[Len(window)] \in Evidence(t)
    <3>1. Len(window) \in 1..Len(window)
      BY <2>1, LenProperties
    <3> QED
      BY <2>1, <3>1, ElementOfSeq
  <2> QED
    BY <2>1, <2>2, EvidenceTimes, NoneAssumption
<1>5. /\ st.state = "NORMAL"
      /\ st.qualifying_started_at = None
      /\ st.qualifying_evidence = <<>>
  BY <1>2, <1>3, <1>4 DEF TargetInv, HonestWindow, RowType
<1> QED
  BY <1>1, <1>2, <1>5 DEF RowType, DefaultState, Row

(* evaluate_sample changes the tables on new times only.                   *)
LEMMA SampleAdvancesOnlyOnNew ==
    ASSUME EvaluatorInv, CheckpointIsNewest,
           NEW t \in Targets, NEW s \in Sample, EvaluateSample(t, s)
    PROVE  AdvancesOnlyOnNew
<1> SUFFICES ASSUME NEW u \in Targets
             PROVE  IF trail'[u] = trail[u]
                    THEN states'[u] = states[u] /\ issues'[u] = issues[u]
                    ELSE \/ trail'[u] = <<>>
                         \/ states'[u].last_observed_at
                                = trail'[u][Len(trail'[u])].observed_at
  BY DEF AdvancesOnlyOnNew
<1>1. CASE u # t
  BY <1>1 DEF EvaluatorInv, TypeOK, EvaluateSample
<1>2. CASE u = t
  <2>1. CASE /\ trail'[t] = trail[t]
             /\ states'[t] = states[t] /\ issues'[t] = issues[t]
    BY <1>2, <2>1
  <2>2. CASE /\ trail'[t] = Append(trail[t], s)
             /\ states'[t].last_observed_at = s.observed_at
    <3>1. trail[t] \in Seq(Sample)
      BY DEF EvaluatorInv, TypeOK
    <3>2. /\ Len(trail'[t]) = Len(trail[t]) + 1 /\ Len(trail[t]) \in Nat
          /\ trail'[t][Len(trail[t]) + 1] = s
      BY <2>2, <3>1, AppendProperties, LenProperties
    <3> QED
      BY <1>2, <2>2, <3>2
  <2> QED
    BY <2>1, <2>2, StepCheckpoint
<1> QED
  BY <1>1, <1>2

(* A sample that is not newer than every sample before it changes neither  *)
(* table; a newer one moves the checkpoint to its own time.                *)
THEOREM NewTimesOnly == EvaluatorSpec => OnlyNewTimesAdvance
<1>1. EvaluatorInv /\ CheckpointIsNewest /\ [EvaluatorNext]_vars
        => [AdvancesOnlyOnNew]_vars
  <2> SUFFICES ASSUME EvaluatorInv, CheckpointIsNewest, EvaluatorNext
               PROVE  AdvancesOnlyOnNew
    OBVIOUS
  <2>1. ASSUME NEW t \in Targets, NEW s \in Sample, EvaluateSample(t, s)
        PROVE  AdvancesOnlyOnNew
    BY <2>1, SampleAdvancesOnlyOnNew
  <2>2. CASE ResetEvaluation
    <3> SUFFICES ASSUME NEW t \in Targets, trail'[t] = trail[t]
                 PROVE  states'[t] = states[t] /\ issues'[t] = issues[t]
      BY <2>2 DEF AdvancesOnlyOnNew, ResetEvaluation, Empty
    <3>1. /\ trail[t] = <<>>
          /\ states'[t] = DefaultState /\ issues'[t] = <<>>
      BY <2>2 DEF ResetEvaluation, Empty
    <3>2. ~RowExists(states[t])
      BY <3>1 DEF CheckpointIsNewest
    <3> QED
      BY <3>1, <3>2, NoRowIsDefault DEF EvaluatorInv
  <2> QED
    BY <2>1, <2>2 DEF EvaluatorNext
<1> QED
  BY <1>1, InvariantHolds, CheckpointNewest, PTL
     DEF EvaluatorSpec, OnlyNewTimesAdvance

(* evaluate_sample keeps every row, or closes the open one and keeps its   *)
(* evidence.                                                               *)
LEMMA SampleKeepsHistory ==
    ASSUME EvaluatorInv, NEW t \in Targets, NEW s \in Sample,
           EvaluateSample(t, s)
    PROVE  KeepsHistory
<1> SUFFICES ASSUME NEW u \in Targets, NEW i \in DOMAIN issues[u]
             PROVE  /\ i \in DOMAIN issues'[u]
                    /\ RowKeepsHistory(issues[u][i], issues'[u][i])
  BY DEF KeepsHistory
<1> DEFINE st    == states[t]
           list  == issues[t]
           after == IssuesAfter(t, st, list, s)
           n     == Len(list)
<1>1. /\ issues'[t] = after
      /\ u # t => issues'[u] = issues[u]
  BY DEF EvaluatorInv, TypeOK, EvaluateSample
<1>2. Arrival(t, s, st, list)
  BY DEF Arrival, EvaluatorInv
<1>3. /\ list \in Seq(IssueType(t)) /\ n \in Nat /\ DOMAIN list = 1..n
      /\ \A k \in 1..n : list[k] \in IssueType(t)
  BY <1>2, LenProperties, ElementOfSeq DEF Arrival, TargetInv
<1>4. CASE u # t \/ after = list
  <2>1. issues'[u] = issues[u]
    BY <1>1, <1>4
  <2> QED
    BY <2>1 DEF RowKeepsHistory
<1>5. CASE u = t /\ Opens(t, s, st, list)
  <2>1. PICK new : after = Append(list, new)
    BY <1>5 DEF Opens
  <2>2. list \in Seq(IssueType(t) \cup {new})
    BY <1>3, SeqMonotonic
  <2>3. /\ DOMAIN after = 1..(n + 1)
        /\ \A k \in 1..n : after[k] = list[k]
    BY <2>1, <2>2, AppendProperties, LenProperties
  <2>4. i \in 1..n
    BY <1>3, <1>5
  <2> HIDE DEF after, n
  <2> QED
    BY <1>1, <1>3, <1>5, <2>3, <2>4 DEF RowKeepsHistory
<1>6. CASE u = t /\ Closes(t, s, st, list)
  <2>1. /\ IsOpen(list[n]) /\ DOMAIN after = 1..n
        /\ \A k \in 1..(n-1) : after[k] = list[k]
        /\ after[n] = Closed(list[n], s, SampleEvidence(t, s))
    BY <1>6 DEF Closes
  <2>2. i \in 1..n
    BY <1>3, <1>6
  <2> HIDE DEF after
  <2>3. CASE i = n
    <3>1. list[n] \in IssueType(t)
      BY <1>3, <2>2, <2>3
    <3>2. RowKeepsHistory(list[n], after[n])
      <4>1. /\ after[n].closed_at = s.observed_at
            /\ after[n].recovery = [ closed_at |-> s.observed_at,
                                     reason    |-> RecoveryReason(s),
                                     sample    |-> SampleEvidence(t, s) ]
        BY <2>1, <3>1 DEF Closed, IssueType
      <4>2. after[n] = [list[n] EXCEPT !.status    = "CLOSED",
                                       !.closed_at = after[n].closed_at,
                                       !.recovery  = after[n].recovery]
        BY <2>1, <4>1 DEF Closed
      <4>3. after[n].recovery.closed_at = after[n].closed_at
        BY <4>1
      <4> QED
        BY <2>1, <4>2, <4>3 DEF RowKeepsHistory
    <3> QED
      BY <1>1, <1>6, <2>1, <2>2, <2>3, <3>2
  <2>4. CASE i # n
    <3>1. i \in 1..(n-1)
      <4>1. n \in Nat
        BY <1>3
      <4> HIDE DEF n
      <4> QED
        BY <2>2, <2>4, <4>1
    <3> QED
      BY <1>1, <1>6, <2>1, <2>2, <3>1 DEF RowKeepsHistory
  <2> QED
    BY <2>3, <2>4
<1> QED
  BY <1>2, <1>4, <1>5, <1>6, StepShape DEF Ignores, MovesOn

(* Outside a reset no issue row disappears, a closed one never changes, and *)
(* closing an open one keeps its opening evidence (_close_issue).          *)
THEOREM HistoryFinal == EvaluatorSpec => IssueHistoryIsFinal
<1>1. EvaluatorInv /\ [EvaluatorNext]_vars => [KeepsHistory]_vars
  <2> SUFFICES ASSUME EvaluatorInv, EvaluatorNext PROVE KeepsHistory
    OBVIOUS
  <2>1. ASSUME NEW t \in Targets, NEW s \in Sample, EvaluateSample(t, s)
        PROVE  KeepsHistory
    BY <2>1, SampleKeepsHistory
  <2>2. CASE ResetEvaluation
    BY <2>2 DEF ResetEvaluation, KeepsHistory
  <2> QED
    BY <2>1, <2>2 DEF EvaluatorNext
<1> QED
  BY <1>1, InvariantHolds, PTL DEF EvaluatorSpec, IssueHistoryIsFinal
=============================================================================
