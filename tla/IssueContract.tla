---------------------------- MODULE IssueContract ----------------------------
(***************************************************************************)
(* What the evaluator promises, stated without its state machine: which    *)
(* issues a sequence of samples ought to raise.  A "trail" is the sequence *)
(* of samples of one target in increasing observed_at; every operator      *)
(* below looks at the whole trail and remembers nothing.                   *)
(*                                                                         *)
(* The reference is docs/afdd.md, "Deterministic timing" and "Evidence".   *)
(***************************************************************************)
EXTENDS AfddTransition

(* A trusted sample that shows the fault, and one that refutes it.         *)
Faulty(t, s)   == Trustworthy(t, s) /\ Qualifies(t, s)
Recovers(t, s) == Trustworthy(t, s) /\ ~Qualifies(t, s)

(* Samples i..j are faulty and no gap between them exceeds the freshness.  *)
IsRun(t, trail, i, j) ==
    /\ \A k \in i..j : Faulty(t, trail[k])
    /\ \A k \in (i+1)..j :
         trail[k].observed_at - trail[k-1].observed_at <= Freshness[t]

LongestRun(t, trail, i, j) ==
    /\ IsRun(t, trail, i, j)
    /\ \A k \in 1..(i-1) : ~IsRun(t, trail, k, j)

(* The first sample of the longest run that ends at j.                     *)
RunStart(t, trail, j) == CHOOSE i \in 1..j : LongestRun(t, trail, i, j)

(* The fault has lasted at least the duration when sample j is read, the   *)
(* duration of the property j is judged under.                             *)
Sustained(t, trail, j) ==
    \E i \in 1..j :
        /\ IsRun(t, trail, i, j)
        /\ trail[j].observed_at - trail[i].observed_at >= Duration[t][trail[j].property]

(* Sample j opens an issue: the fault is sustained and no earlier issue is *)
(* still open, that is, every earlier sustained sample was followed by a   *)
(* recovery before j.                                                      *)
OpensAt(t, trail, j) ==
    /\ Sustained(t, trail, j)
    /\ \A i \in 1..(j-1) :
         Sustained(t, trail, i) =>
             \E k \in (i+1)..(j-1) : Recovers(t, trail[k])

Openings(t, trail) == {j \in 1..Len(trail) : OpensAt(t, trail, j)}

(* The recoveries after j; the first of them closes the issue opened at j. *)
RecoveriesAfter(t, trail, j) ==
    {k \in (j+1)..Len(trail) : Recovers(t, trail[k])}

ExpectedRecovery(t, s) ==
    [ closed_at |-> s.observed_at,
      reason    |-> IF RunOn(s) THEN "CONDITION_CLEARED" ELSE "AHU_OFF",
      sample    |-> SampleEvidence(t, s) ]

(* The n-th issue of the trail, opened at sample j.                        *)
ExpectedIssue(t, trail, j, n) ==
    LET first  == RunStart(t, trail, j)
        closes == RecoveriesAfter(t, trail, j)
        closer == trail[Min(closes)]
    IN  [ occurrence            |-> n,
          status                |-> IF closes = {} THEN "OPEN" ELSE "CLOSED",
          property              |-> trail[j].property,
          qualifying_started_at |-> trail[first].observed_at,
          opened_at             |-> trail[j].observed_at,
          closed_at             |-> IF closes = {} THEN None
                                    ELSE closer.observed_at,
          samples               |-> [k \in 1..(j - first + 1) |->
                                       SampleEvidence(t, trail[first + k - 1])],
          recovery              |-> IF closes = {} THEN None
                                    ELSE ExpectedRecovery(t, closer) ]

(* The issue rows are exactly those the trail calls for, in order.         *)
MeetsContract(t, trail, list) ==
    LET opens == Openings(t, trail)
    IN  /\ Len(list) = Cardinality(opens)
        /\ \A j \in opens :
             LET n == Cardinality({i \in opens : i <= j})
             IN  list[n] = ExpectedIssue(t, trail, j, n)
=============================================================================
