---------------------------- MODULE ContractProofs ----------------------------
(***************************************************************************)
(* The evaluator keeps its contract: the issue table is the one the whole  *)
(* history of samples calls for (IssuesMeetContract), and the readings     *)
(* stored in it justify it (EvidenceSpeaksForItself).  IssueContract looks *)
(* at the whole trail and remembers nothing; the proofs relate it to the   *)
(* state machine one appended sample at a time.                            *)
(***************************************************************************)
EXTENDS EvaluatorProofs, FiniteSetTheorems, WellFoundedInduction

-----------------------------------------------------------------------------
(* The inductive invariant of the contract.                                *)

(* Where a recovery comes from: a trusted sample that refutes the fault.   *)
RecoveryIsProven(t, issue) ==
    issue.recovery # None =>
        \E s \in Sample : /\ Recovers(t, s)
                          /\ issue.recovery = ExpectedRecovery(t, s)

RecoveriesAreProven ==
    \A t \in Targets : \A i \in DOMAIN issues[t] :
        RecoveryIsProven(t, issues[t][i])

(* The trail calls for an issue that nothing in it has ended.              *)
Pending(t, T) ==
    \E i \in 1..Len(T) : /\ Sustained(t, T, i)
                         /\ \A k \in (i+1)..Len(T) : ~Recovers(t, T[k])

(* What a row remembers of its trail: OPEN that an issue is pending,       *)
(* QUALIFYING the longest run up to now, NORMAL that the last sample did   *)
(* not show the fault.                                                     *)
Remembers(t, T, st) ==
    LET n      == Len(T)
        window == st.qualifying_evidence
        first  == n - Len(window) + 1
    IN  /\ st.state = "OPEN" <=> Pending(t, T)
        /\ st.state = "QUALIFYING" =>
             /\ first \in 1..n
             /\ LongestRun(t, T, first, n)
             /\ window = [k \in 1..Len(window) |->
                             SampleEvidence(t, T[first + k - 1])]
        /\ st.state = "NORMAL" => n = 0 \/ ~Faulty(t, T[n])

(* The two tables, taken together, are the trail's.                        *)
ContractInv ==
    \A t \in Targets : /\ Increasing(trail[t])
                       /\ Remembers(t, trail[t], states[t])
                       /\ MeetsContract(t, trail[t], issues[t])

-----------------------------------------------------------------------------
(* A trail U that is T and then one more sample s.                         *)

Prolongs(U, T, s) ==
    /\ Len(T) \in Nat
    /\ Len(U) = Len(T) + 1
    /\ \A i \in 1..Len(T) : U[i] = T[i]
    /\ U[Len(T) + 1] = s

(* Appending a sample prolongs a trail by it.                              *)
LEMMA AppendProlongs ==
    ASSUME NEW T \in Seq(Sample), NEW s \in Sample
    PROVE  Prolongs(Append(T, s), T, s)
BY AppendProperties, LenProperties DEF Prolongs

(* A run that ends before the new sample is the same run.                  *)
LEMMA RunOfPrefix ==
    ASSUME NEW t, NEW T, NEW s, NEW U, Prolongs(U, T, s),
           NEW i \in Nat \ {0}, NEW j \in 1..Len(T)
    PROVE  IsRun(t, U, i, j) <=> IsRun(t, T, i, j)
<1>1. \A k \in i..j : U[k] = T[k]
  BY DEF Prolongs
<1>2. \A k \in (i+1)..j : k \in i..j /\ k - 1 \in i..j
  BY DEF Prolongs
<1> QED
  BY <1>1, <1>2 DEF IsRun

(* A longest run that ends before the new sample is still the longest.     *)
LEMMA LongestOfPrefix ==
    ASSUME NEW t, NEW T, NEW s, NEW U, Prolongs(U, T, s),
           NEW j \in 1..Len(T), NEW i \in 1..j
    PROVE  LongestRun(t, U, i, j) <=> LongestRun(t, T, i, j)
<1>1. i \in Nat \ {0} /\ \A k \in 1..(i-1) : k \in Nat \ {0}
  BY DEF Prolongs
<1> QED
  BY <1>1, RunOfPrefix DEF LongestRun

(* Whether a fault was sustained at an old sample stays what it was.       *)
LEMMA SustainedOfPrefix ==
    ASSUME NEW t, NEW T, NEW s, NEW U, Prolongs(U, T, s),
           NEW j \in 1..Len(T)
    PROVE  Sustained(t, U, j) <=> Sustained(t, T, j)
<1>1. \A i \in 1..j : /\ i \in Nat \ {0} /\ U[i] = T[i]
                      /\ IsRun(t, U, i, j) <=> IsRun(t, T, i, j)
  <2> TAKE i \in 1..j
  <2>1. i \in Nat \ {0} /\ U[i] = T[i]
    BY DEF Prolongs
  <2> QED
    BY <2>1, RunOfPrefix
<1>2. U[j] = T[j]
  BY DEF Prolongs
<1> QED
  BY <1>1, <1>2 DEF Sustained

(* An issue opened at an old sample stays opened there.                    *)
LEMMA OpensAtOfPrefix ==
    ASSUME NEW t, NEW T, NEW s, NEW U, Prolongs(U, T, s),
           NEW j \in 1..Len(T)
    PROVE  OpensAt(t, U, j) <=> OpensAt(t, T, j)
<1>1. \A i \in 1..(j-1) : /\ i \in 1..Len(T)
                          /\ Sustained(t, U, i) <=> Sustained(t, T, i)
  <2> TAKE i \in 1..(j-1)
  <2>1. i \in 1..Len(T)
    BY DEF Prolongs
  <2> QED
    BY <2>1, SustainedOfPrefix
<1>2. \A i \in 1..(j-1) : \A k \in (i+1)..(j-1) : U[k] = T[k]
  BY DEF Prolongs
<1>3. Sustained(t, U, j) <=> Sustained(t, T, j)
  BY SustainedOfPrefix
<1> QED
  BY <1>1, <1>2, <1>3 DEF OpensAt

-----------------------------------------------------------------------------
(* The longest run.                                                        *)

(* There is at most one longest run to a sample.                           *)
LEMMA RunStartIs ==
    ASSUME NEW t, NEW T, NEW j \in Nat, NEW i \in 1..j, LongestRun(t, T, i, j)
    PROVE  RunStart(t, T, j) = i
<1>1. \A k \in 1..j : LongestRun(t, T, k, j) => k = i
  <2> SUFFICES ASSUME NEW k \in 1..j, LongestRun(t, T, k, j) PROVE k = i
    OBVIOUS
  <2>1. k < i => k \in 1..(i-1)
    OBVIOUS
  <2>2. i < k => i \in 1..(k-1)
    OBVIOUS
  <2>3. ~(k < i) /\ ~(i < k)
    BY <2>1, <2>2 DEF LongestRun
  <2> QED
    BY <2>3
<1> QED
  BY <1>1 DEF RunStart

(* A set of naturals has a least element.                                  *)
LEMMA LeastElement ==
    ASSUME NEW S, S \subseteq Nat, S # {}
    PROVE  \E x \in S : \A y \in S : x <= y
<1>1. \E x \in S : \A y \in S : <<y, x>> \notin OpToRel(<, Nat)
  BY NatLessThanWellFounded, WFMin
<1>2. \A x, y \in Nat : <<y, x>> \in OpToRel(<, Nat) <=> y < x
  BY DEF OpToRel
<1>3. PICK x \in S : \A y \in S : <<y, x>> \notin OpToRel(<, Nat)
  BY <1>1
<1>4. \A y \in S : ~(y < x) /\ y \in Nat /\ x \in Nat
  BY <1>2, <1>3
<1> QED
  BY <1>4

(* Where there is a run there is a longest one.                            *)
LEMMA LongestRunExists ==
    ASSUME NEW t, NEW T, NEW j \in Nat, NEW i \in 1..j, IsRun(t, T, i, j)
    PROVE  \E k \in 1..j : LongestRun(t, T, k, j)
<1> DEFINE starts == {k \in 1..j : IsRun(t, T, k, j)}
<1>1. starts \subseteq Nat /\ starts # {}
  OBVIOUS
<1>2. PICK k \in starts : \A m \in starts : k <= m
  BY <1>1, LeastElement
<1>3. \A m \in 1..(k-1) : m \in 1..j /\ ~(k <= m)
  OBVIOUS
<1>4. LongestRun(t, T, k, j)
  BY <1>2, <1>3 DEF LongestRun
<1> QED
  BY <1>4

(* The run of an opening is that of the longer trail.                      *)
LEMMA RunStartOfPrefix ==
    ASSUME NEW t, NEW T, NEW s, NEW U, Prolongs(U, T, s),
           NEW j \in 1..Len(T), Sustained(t, T, j)
    PROVE  /\ RunStart(t, U, j) = RunStart(t, T, j)
           /\ RunStart(t, T, j) \in 1..j
<1>1. j \in Nat
  BY DEF Prolongs
<1>2. \E i \in 1..j : IsRun(t, T, i, j)
  BY DEF Sustained
<1>3. PICK k \in 1..j : LongestRun(t, T, k, j)
  BY <1>1, <1>2, LongestRunExists
<1>4. LongestRun(t, U, k, j)
  BY <1>3, LongestOfPrefix
<1> QED
  BY <1>1, <1>3, <1>4, RunStartIs

-----------------------------------------------------------------------------
(* What the new sample adds.                                               *)

(* The new sample opens an issue when the fault is sustained and none is   *)
(* pending.                                                                *)
LEMMA OpensNow ==
    ASSUME NEW t, NEW T, NEW s, NEW U, Prolongs(U, T, s)
    PROVE  OpensAt(t, U, Len(U)) <=>
             Sustained(t, U, Len(U)) /\ ~Pending(t, T)
<1> DEFINE n == Len(T)
<1>1. n \in Nat /\ Len(U) = n + 1 /\ Len(U) - 1 = n
  BY DEF Prolongs
<1>2. \A i \in 1..n : Sustained(t, U, i) <=> Sustained(t, T, i)
  BY SustainedOfPrefix
<1>3. \A i \in 1..n : \A k \in (i+1)..n : U[k] = T[k]
  BY DEF Prolongs
<1> QED
  BY <1>1, <1>2, <1>3 DEF OpensAt, Pending

(* After the new sample a fault is pending when it is sustained now, or    *)
(* was pending and this sample does not recover.                           *)
LEMMA PendingNow ==
    ASSUME NEW t, NEW T, NEW s, NEW U, Prolongs(U, T, s)
    PROVE  Pending(t, U) <=> \/ Sustained(t, U, Len(U))
                             \/ Pending(t, T) /\ ~Recovers(t, s)
<1> DEFINE n == Len(T)
           Quiet(i) == \A k \in (i+1)..n : ~Recovers(t, T[k])
<1>1. n \in Nat /\ Len(U) = n + 1
  BY DEF Prolongs
<1>2. \A i \in 1..n : Sustained(t, U, i) <=> Sustained(t, T, i)
  BY SustainedOfPrefix
<1>3. ASSUME NEW i \in 1..n
      PROVE  (\A k \in (i+1)..(n+1) : ~Recovers(t, U[k]))
                <=> Quiet(i) /\ ~Recovers(t, s)
  <2>1. U[n+1] = s /\ n + 1 \in (i+1)..(n+1)
    BY <1>1 DEF Prolongs
  <2>2. \A k \in (i+1)..n : k \in (i+1)..(n+1) /\ U[k] = T[k]
    BY <1>1 DEF Prolongs
  <2>3. \A k \in (i+1)..(n+1) : k \in (i+1)..n \/ k = n + 1
    BY <1>1
  <2> HIDE DEF n
  <2> QED
    BY <2>1, <2>2, <2>3
<1>4. ASSUME Sustained(t, U, n + 1) PROVE Pending(t, U)
  <2>1. n + 1 \in 1..Len(U) /\ (n + 1 + 1)..Len(U) = {}
    BY <1>1
  <2> QED
    BY <1>4, <2>1 DEF Pending
<1>5. ASSUME Pending(t, T), ~Recovers(t, s) PROVE Pending(t, U)
  <2>1. PICK i \in 1..n : Sustained(t, T, i) /\ Quiet(i)
    BY <1>5 DEF Pending
  <2>2. i \in 1..Len(U)
    BY <1>1
  <2> QED
    BY <1>1, <1>2, <1>3, <1>5, <2>1, <2>2 DEF Pending
<1>6. ASSUME Pending(t, U), ~Sustained(t, U, n + 1)
      PROVE  Pending(t, T) /\ ~Recovers(t, s)
  <2>1. PICK i \in 1..(n+1) : /\ Sustained(t, U, i)
                              /\ \A k \in (i+1)..(n+1) : ~Recovers(t, U[k])
    BY <1>1, <1>6 DEF Pending
  <2>2. i \in 1..n
    BY <1>1, <1>6, <2>1
  <2> QED
    BY <1>2, <1>3, <2>1, <2>2 DEF Pending
<1> QED
  BY <1>1, <1>4, <1>5, <1>6

(* The openings are the old ones and perhaps the new sample.               *)
LEMMA OpeningsNow ==
    ASSUME NEW t, NEW T, NEW s, NEW U, Prolongs(U, T, s)
    PROVE  Openings(t, U) = IF OpensAt(t, U, Len(U))
                            THEN Openings(t, T) \cup {Len(U)}
                            ELSE Openings(t, T)
<1>1. \A j \in 1..Len(T) : OpensAt(t, U, j) <=> OpensAt(t, T, j)
  BY OpensAtOfPrefix
<1>2. 1..Len(U) = 1..Len(T) \cup {Len(U)}
  BY DEF Prolongs
<1> QED
  BY <1>1, <1>2 DEF Openings

(* The recoveries after an old sample are the old ones and perhaps the new *)
(* sample.                                                                 *)
LEMMA RecoveriesNow ==
    ASSUME NEW t, NEW T, NEW s, NEW U, Prolongs(U, T, s),
           NEW j \in 1..Len(T)
    PROVE  RecoveriesAfter(t, U, j) = IF Recovers(t, s)
                                      THEN RecoveriesAfter(t, T, j) \cup {Len(U)}
                                      ELSE RecoveriesAfter(t, T, j)
<1>1. (j+1)..Len(U) = (j+1)..Len(T) \cup {Len(U)} /\ U[Len(U)] = s
  BY DEF Prolongs
<1>2. \A k \in (j+1)..Len(T) : U[k] = T[k]
  BY DEF Prolongs
<1> QED
  BY <1>1, <1>2 DEF RecoveriesAfter

-----------------------------------------------------------------------------
(* The issue the trail calls for at an opening.                            *)

(* A least member is what Min chooses.                                     *)
LEMMA LeastIsMin ==
    ASSUME NEW S, S \subseteq Nat, NEW m \in S, \A x \in S : m <= x
    PROVE  Min(S) = m
<1>1. \A y \in S : (\A x \in S : y <= x) => y = m
  <2> SUFFICES ASSUME NEW y \in S, \A x \in S : y <= x PROVE y = m
    OBVIOUS
  <2>1. y <= m /\ m <= y /\ y \in Nat /\ m \in Nat
    OBVIOUS
  <2> QED
    BY <2>1
<1> QED
  BY <1>1 DEF Min

(* The recoveries after an opening lie between it and the end.             *)
LEMMA RecoveryTimes ==
    ASSUME NEW t, NEW T, Len(T) \in Nat, NEW j \in 1..Len(T)
    PROVE  /\ RecoveriesAfter(t, T, j) \subseteq Nat
           /\ \A k \in RecoveriesAfter(t, T, j) : k \in 1..Len(T) /\ Recovers(t, T[k])
BY DEF RecoveriesAfter

(* What does not depend on what follows an opening.                        *)
LEMMA SameRun ==
    ASSUME NEW t, NEW T, NEW s, NEW U, Prolongs(U, T, s),
           NEW j \in 1..Len(T), Sustained(t, T, j)
    PROVE  \E first \in 1..j : \E samples :
              /\ RunStart(t, T, j) = first /\ RunStart(t, U, j) = first
              /\ U[first] = T[first] /\ U[j] = T[j]
              /\ samples = [k \in 1..(j - first + 1) |-> SampleEvidence(t, T[first + k - 1])]
              /\ samples = [k \in 1..(j - first + 1) |-> SampleEvidence(t, U[first + k - 1])]
<1>1. PICK first \in 1..j : first = RunStart(t, T, j) /\ RunStart(t, U, j) = first
  BY RunStartOfPrefix
<1>2. U[first] = T[first] /\ U[j] = T[j]
  BY DEF Prolongs
<1>3. \A k \in 1..(j - first + 1) :
         first + k - 1 \in 1..Len(T) /\ U[first + k - 1] = T[first + k - 1]
  BY DEF Prolongs
<1>4. [k \in 1..(j - first + 1) |-> SampleEvidence(t, T[first + k - 1])]
        = [k \in 1..(j - first + 1) |-> SampleEvidence(t, U[first + k - 1])]
  BY <1>3
<1> WITNESS first \in 1..j
<1> WITNESS [k \in 1..(j - first + 1) |-> SampleEvidence(t, T[first + k - 1])]
<1> QED
  BY <1>1, <1>2, <1>4

(* An issue that has ended, and any issue at a sample that refutes         *)
(* nothing, stays what it is.                                              *)
LEMMA ExpectedStays ==
    ASSUME NEW t, NEW T, NEW s, NEW U, Prolongs(U, T, s),
           NEW j \in Openings(t, T), NEW n,
           RecoveriesAfter(t, T, j) # {} \/ ~Recovers(t, s)
    PROVE  ExpectedIssue(t, U, j, n) = ExpectedIssue(t, T, j, n)
<1> DEFINE closes == RecoveriesAfter(t, T, j)
           after  == RecoveriesAfter(t, U, j)
<1>1. /\ j \in 1..Len(T) /\ Sustained(t, T, j)
      /\ Len(T) \in Nat
  BY DEF Openings, OpensAt, Prolongs
<1>2. \/ after = closes
      \/ after = closes \cup {Len(U)} /\ closes # {}
  BY <1>1, RecoveriesNow
<1>3. closes # {} =>
        Min(after) = Min(closes) /\ U[Min(closes)] = T[Min(closes)]
  <2> SUFFICES ASSUME closes # {}
               PROVE  Min(after) = Min(closes) /\ U[Min(closes)] = T[Min(closes)]
    OBVIOUS
  <2>1. closes \subseteq Nat /\ \A k \in closes : k \in 1..Len(T)
    BY <1>1, RecoveryTimes
  <2>2. PICK m \in closes : \A x \in closes : m <= x
    BY <2>1, LeastElement
  <2>3. Len(U) = Len(T) + 1 /\ U[m] = T[m] /\ m <= Len(U) /\ Len(U) \in Nat
    BY <1>1, <2>1 DEF Prolongs
  <2> HIDE DEF closes, after
  <2>4. after \subseteq Nat /\ m \in after /\ \A x \in after : m <= x
    BY <1>2, <2>1, <2>2, <2>3
  <2>5. Min(closes) = m /\ Min(after) = m
    BY <2>1, <2>2, <2>4, LeastIsMin
  <2> QED
    BY <2>3, <2>5
<1>4. after = {} <=> closes = {}
  BY <1>2
<1>5a. PICK first \in 1..j : \E samples :
         /\ RunStart(t, T, j) = first /\ RunStart(t, U, j) = first
         /\ U[first] = T[first] /\ U[j] = T[j]
         /\ samples = [k \in 1..(j - first + 1) |-> SampleEvidence(t, T[first + k - 1])]
         /\ samples = [k \in 1..(j - first + 1) |-> SampleEvidence(t, U[first + k - 1])]
  BY <1>1, SameRun
<1>5. PICK samples :
         /\ RunStart(t, T, j) = first /\ RunStart(t, U, j) = first
         /\ U[first] = T[first] /\ U[j] = T[j]
         /\ samples = [k \in 1..(j - first + 1) |-> SampleEvidence(t, T[first + k - 1])]
         /\ samples = [k \in 1..(j - first + 1) |-> SampleEvidence(t, U[first + k - 1])]
  BY <1>5a
<1>6. CASE closes = {}
  BY <1>4, <1>5, <1>6 DEF ExpectedIssue
<1>7. CASE closes # {}
  BY <1>3, <1>4, <1>5, <1>7 DEF ExpectedIssue
<1> QED
  BY <1>6, <1>7

IssueRow(number, status, property, started, opened, closed, window, recovery) ==
    [ occurrence            |-> number,
      status                |-> status,
      property              |-> property,
      qualifying_started_at |-> started,
      opened_at             |-> opened,
      closed_at             |-> closed,
      samples               |-> window,
      recovery              |-> recovery ]

(* The evidence of the run that ends at j.                                 *)
EvidenceOf(t, T, j) ==
    [k \in 1..(j - RunStart(t, T, j) + 1) |->
        SampleEvidence(t, T[RunStart(t, T, j) + k - 1])]

(* What _close_issue makes of a row.                                       *)
LEMMA CloseRow ==
    ASSUME NEW n, NEW property, NEW started, NEW opened, NEW window,
           NEW closed, NEW recovery,
           NEW old, old = IssueRow(n, "OPEN", property, started, opened,
                                    None, window, None),
           NEW new, new = [old EXCEPT !.status    = "CLOSED",
                                      !.closed_at = closed,
                                      !.recovery  = recovery]
    PROVE  new = IssueRow(n, "CLOSED", property, started, opened, closed, window,
                          recovery)
BY DEF IssueRow

(* The issue that is pending ends at a sample that refutes the fault.      *)
LEMMA ExpectedCloses ==
    ASSUME NEW t, NEW T, NEW s, NEW U, Prolongs(U, T, s),
           NEW j \in Openings(t, T), NEW n,
           RecoveriesAfter(t, T, j) = {}, Recovers(t, s)
    PROVE  LET started == T[RunStart(t, T, j)].observed_at
               window  == EvidenceOf(t, T, j)
           IN  /\ ExpectedIssue(t, T, j, n) =
                    IssueRow(n, "OPEN", T[j].property, started, T[j].observed_at, None,
                             window, None)
               /\ ExpectedIssue(t, U, j, n) =
                    IssueRow(n, "CLOSED", T[j].property, started, T[j].observed_at,
                             s.observed_at, window, ExpectedRecovery(t, s))
<1> DEFINE after  == RecoveriesAfter(t, U, j)
<1>0. j \in 1..Len(T) /\ Sustained(t, T, j)
  BY DEF Openings, OpensAt
<1>1. Len(U) \in Nat /\ U[Len(U)] = s
  BY DEF Prolongs
<1>2. after = {Len(U)}
  BY <1>0, RecoveriesNow
<1>3. Min(after) = Len(U)
  BY <1>1, <1>2, LeastIsMin
<1> HIDE DEF after
<1>4a. PICK first \in 1..j : \E samples :
         /\ RunStart(t, T, j) = first /\ RunStart(t, U, j) = first
         /\ U[first] = T[first] /\ U[j] = T[j]
         /\ samples = [k \in 1..(j - first + 1) |-> SampleEvidence(t, T[first + k - 1])]
         /\ samples = [k \in 1..(j - first + 1) |-> SampleEvidence(t, U[first + k - 1])]
  BY <1>0, SameRun
<1>4. PICK samples :
         /\ RunStart(t, T, j) = first /\ RunStart(t, U, j) = first
         /\ U[first] = T[first] /\ U[j] = T[j]
         /\ samples = [k \in 1..(j - first + 1) |-> SampleEvidence(t, T[first + k - 1])]
         /\ samples = [k \in 1..(j - first + 1) |-> SampleEvidence(t, U[first + k - 1])]
  BY <1>4a
<1>7. samples = EvidenceOf(t, T, j) /\ first = RunStart(t, T, j)
  BY <1>4 DEF EvidenceOf
<1>5. ExpectedIssue(t, T, j, n) =
        IssueRow(n, "OPEN", T[j].property, T[first].observed_at, T[j].observed_at,
                 None, samples, None)
  BY <1>4 DEF ExpectedIssue, IssueRow
<1>6. ExpectedIssue(t, U, j, n) =
        IssueRow(n, "CLOSED", T[j].property, T[first].observed_at, T[j].observed_at,
                 s.observed_at, samples, ExpectedRecovery(t, s))
  BY <1>1, <1>2, <1>3, <1>4 DEF ExpectedIssue, after, IssueRow
<1> QED
  BY <1>5, <1>6, <1>7

(* While nothing is pending, every issue has ended.                        *)
LEMMA NothingPendingEnds ==
    ASSUME NEW t, NEW T, ~Pending(t, T), NEW j \in Openings(t, T)
    PROVE  RecoveriesAfter(t, T, j) # {}
BY DEF Pending, Openings, OpensAt, RecoveriesAfter

-----------------------------------------------------------------------------
(* The ranks of the openings.                                              *)

(* A trail has finitely many openings.                                     *)
LEMMA OpeningsFinite ==
    ASSUME NEW t, NEW T, Len(T) \in Nat
    PROVE  /\ IsFiniteSet(Openings(t, T))
           /\ Cardinality(Openings(t, T)) \in Nat
           /\ \A j \in Openings(t, T) :
                IsFiniteSet({i \in Openings(t, T) : i <= j})
<1>1. IsFiniteSet(1..Len(T))
  BY FS_Interval
<1>2. Openings(t, T) \in SUBSET (1..Len(T))
  BY DEF Openings
<1>3. \A j : {i \in Openings(t, T) : i <= j} \in SUBSET (1..Len(T))
  BY <1>2
<1> QED
  BY <1>1, <1>2, <1>3, FS_Subset, FS_CardinalityType

Rank(t, T, j) == Cardinality({i \in Openings(t, T) : i <= j})

(* Ranks number the places of a list as long as there are openings.        *)
LEMMA RankInList ==
    ASSUME NEW t, NEW T, Len(T) \in Nat, NEW j \in Openings(t, T)
    PROVE  Rank(t, T, j) \in 1..Cardinality(Openings(t, T))
<1> DEFINE upto == {i \in Openings(t, T) : i <= j}
<1>1. upto \in SUBSET Openings(t, T) /\ IsFiniteSet(Openings(t, T))
  BY OpeningsFinite
<1>2. /\ IsFiniteSet(upto) /\ Cardinality(upto) \in Nat
      /\ Cardinality(upto) <= Cardinality(Openings(t, T))
      /\ Cardinality(Openings(t, T)) \in Nat
  BY <1>1, FS_Subset, FS_CardinalityType
<1>3. j \in upto
  <2>1. j \in Nat
    BY DEF Openings
  <2> QED
    BY <2>1
<1>4. Cardinality(upto) # 0
  BY <1>2, <1>3, FS_EmptySet
<1> QED
  BY <1>2, <1>4 DEF Rank

(* A sample that opens nothing leaves every rank; one that opens an issue  *)
(* gives it the next one.                                                  *)
LEMMA RanksStay ==
    ASSUME NEW t, NEW T, NEW s, NEW U, Prolongs(U, T, s),
           NEW j \in Openings(t, T)
    PROVE  Rank(t, U, j) = Rank(t, T, j)
<1>1. j \in 1..Len(T) /\ Len(T) \in Nat /\ Len(U) = Len(T) + 1
  BY DEF Openings, Prolongs
<1>2. ~(Len(U) <= j)
  BY <1>1
<1>3. {i \in Openings(t, U) : i <= j} = {i \in Openings(t, T) : i <= j}
  BY <1>2, OpeningsNow
<1> QED
  BY <1>3 DEF Rank

(* A new opening has the rank after the last.                              *)
LEMMA NewRank ==
    ASSUME NEW t, NEW T, NEW s, NEW U, Prolongs(U, T, s),
           OpensAt(t, U, Len(U))
    PROVE  /\ Cardinality(Openings(t, U)) = Cardinality(Openings(t, T)) + 1
           /\ Rank(t, U, Len(U)) = Cardinality(Openings(t, T)) + 1
<1>1. /\ Openings(t, U) = Openings(t, T) \cup {Len(U)}
      /\ Len(T) \in Nat /\ Len(U) = Len(T) + 1
      /\ Openings(t, T) \subseteq 1..Len(T)
  BY OpeningsNow DEF Prolongs, Openings
<1>2. Len(U) \notin Openings(t, T)
  BY <1>1
<1>3. {i \in Openings(t, U) : i <= Len(U)} = Openings(t, U)
  BY <1>1
<1>4. IsFiniteSet(Openings(t, T))
  BY <1>1, OpeningsFinite
<1> QED
  BY <1>1, <1>2, <1>3, <1>4, FS_AddElement DEF Rank

-----------------------------------------------------------------------------
(* The three things a new sample does to the issue table.                  *)

(* A sample that opens and recovers nothing leaves the table as called     *)
(* for.                                                                    *)
LEMMA ContractStays ==
    ASSUME NEW t, NEW T, NEW s, NEW U, Prolongs(U, T, s),
           NEW list, MeetsContract(t, T, list),
           ~OpensAt(t, U, Len(U)), ~Recovers(t, s) \/ ~Pending(t, T)
    PROVE  MeetsContract(t, U, list)
<1>1. Openings(t, U) = Openings(t, T)
  BY OpeningsNow
<1>2. ASSUME NEW j \in Openings(t, T)
      PROVE  LET n == Rank(t, U, j)
             IN  list[n] = ExpectedIssue(t, U, j, n)
  <2>1. Rank(t, U, j) = Rank(t, T, j)
    BY RanksStay
  <2>2. RecoveriesAfter(t, T, j) # {} \/ ~Recovers(t, s)
    BY NothingPendingEnds
  <2>3. list[Rank(t, T, j)] = ExpectedIssue(t, T, j, Rank(t, T, j))
    BY DEF MeetsContract, Rank
  <2> QED
    BY <2>1, <2>2, <2>3, ExpectedStays
<1> QED
  BY <1>1, <1>2 DEF MeetsContract, Rank

(* An opening calls for the new row, and for no other change.              *)
LEMMA ContractOpens ==
    ASSUME NEW t, NEW T, NEW s, NEW U, Prolongs(U, T, s),
           NEW S, NEW list \in Seq(S), MeetsContract(t, T, list),
           OpensAt(t, U, Len(U)), ~Recovers(t, s),
           NEW new, new = ExpectedIssue(t, U, Len(U), Len(list) + 1)
    PROVE  MeetsContract(t, U, Append(list, new))
<1> DEFINE after == Append(list, new)
<1>1. Openings(t, U) = Openings(t, T) \cup {Len(U)}
  BY OpeningsNow
<1>2. /\ Len(list) = Cardinality(Openings(t, T))
      /\ Len(T) \in Nat
  BY DEF MeetsContract, Prolongs
<1>3. /\ Len(after) = Len(list) + 1 /\ Len(list) \in Nat
      /\ \A i \in 1..Len(list) : after[i] = list[i]
      /\ after[Len(list) + 1] = new
  <2>1. list \in Seq(S \cup {new})
    BY SeqMonotonic
  <2> QED
    BY <2>1, AppendProperties, LenProperties
<1>4. /\ Cardinality(Openings(t, U)) = Len(list) + 1
      /\ Rank(t, U, Len(U)) = Len(list) + 1
  BY <1>2, NewRank
<1> HIDE DEF after
<1>5. ASSUME NEW j \in Openings(t, U)
      PROVE  LET n == Rank(t, U, j)
             IN  after[n] = ExpectedIssue(t, U, j, n)
  <2>1. CASE j = Len(U)
    BY <1>3, <1>4, <2>1
  <2>2. CASE j \in Openings(t, T)
    <3>1. Rank(t, U, j) = Rank(t, T, j) /\ Rank(t, T, j) \in 1..Len(list)
      BY <1>2, <2>2, RanksStay, RankInList
    <3>2. list[Rank(t, T, j)] = ExpectedIssue(t, T, j, Rank(t, T, j))
      BY <2>2 DEF MeetsContract, Rank
    <3> QED
      BY <1>3, <2>2, <3>1, <3>2, ExpectedStays
  <2> QED
    BY <1>1, <2>1, <2>2
<1>6. Len(after) = Cardinality(Openings(t, U))
  BY <1>3, <1>4
<1>7. MeetsContract(t, U, after)
  BY <1>5, <1>6 DEF MeetsContract, Rank
<1> QED
  BY <1>7 DEF after

(* A recovery calls for closing the row that is open, and only that one.   *)
LEMMA ContractCloses ==
    ASSUME NEW t, NEW T, NEW s, NEW U, Prolongs(U, T, s),
           NEW S, NEW list \in Seq(S), MeetsContract(t, T, list),
           ~OpensAt(t, U, Len(U)), Recovers(t, s)
    PROVE  MeetsContract(t, U, CloseIssue(list, s.observed_at, RecoveryReason(s),
                                          SampleEvidence(t, s)))
<1> DEFINE after == CloseIssue(list, s.observed_at, RecoveryReason(s),
                               SampleEvidence(t, s))
           m     == Len(list)
<1>1. Openings(t, U) = Openings(t, T)
  BY OpeningsNow
<1>2. m = Cardinality(Openings(t, T)) /\ Len(T) \in Nat
  BY DEF MeetsContract, Prolongs
<1>3. m \in Nat /\ DOMAIN list = 1..m
  BY LenProperties
<1>4. /\ DOMAIN after = 1..m
      /\ \A i \in 1..m :
           /\ ~IsOpen(list[i]) => after[i] = list[i]
           /\ IsOpen(list[i]) =>
                after[i] = [list[i] EXCEPT !.status    = "CLOSED",
                                           !.closed_at = s.observed_at,
                                           !.recovery  = ExpectedRecovery(t, s)]
  BY <1>3 DEF CloseIssue, ExpectedRecovery, RecoveryReason
<1>5. Len(after) = m
  <2>1. after \in [1..m -> {after[i] : i \in 1..m}]
    BY <1>3 DEF CloseIssue
  <2> HIDE DEF after, m
  <2> QED
    BY <1>3, <2>1, IsASeq, LenProperties
<1> HIDE DEF after
<1>6. ASSUME NEW j \in Openings(t, T)
      PROVE  LET n == Rank(t, U, j)
             IN  after[n] = ExpectedIssue(t, U, j, n)
  <2>1. Rank(t, U, j) = Rank(t, T, j) /\ Rank(t, T, j) \in 1..m
    BY <1>2, RanksStay, RankInList
  <2>2. PICK n \in 1..m : n = Rank(t, T, j)
    BY <2>1
  <2>3. list[n] = ExpectedIssue(t, T, j, n)
    BY <2>2 DEF MeetsContract, Rank
  <2>4. CASE RecoveriesAfter(t, T, j) # {}
    <3>1. ~IsOpen(list[n])
      BY <2>3, <2>4 DEF ExpectedIssue, IsOpen
    <3>2. ExpectedIssue(t, U, j, n) = ExpectedIssue(t, T, j, n)
      BY <2>4, ExpectedStays
    <3> QED
      BY <1>4, <2>1, <2>2, <2>3, <3>1, <3>2
  <2>5. CASE RecoveriesAfter(t, T, j) = {}
    <3>1. PICK property, started, opened, window :
             /\ ExpectedIssue(t, T, j, n) =
                  IssueRow(n, "OPEN", property, started, opened, None, window, None)
             /\ ExpectedIssue(t, U, j, n) =
                  IssueRow(n, "CLOSED", property, started, opened, s.observed_at,
                           window, ExpectedRecovery(t, s))
      <4>1. PICK property, started, opened, window :
               /\ property = T[j].property
               /\ started = T[RunStart(t, T, j)].observed_at
               /\ opened = T[j].observed_at
               /\ window = EvidenceOf(t, T, j)
        OBVIOUS
      <4> QED
        <5>1. j \in Openings(t, T) /\ Prolongs(U, T, s) /\ Recovers(t, s)
          OBVIOUS
        <5>2. ExpectedIssue(t, T, j, n) =
                IssueRow(n, "OPEN", T[j].property, T[RunStart(t, T, j)].observed_at,
                         T[j].observed_at, None, EvidenceOf(t, T, j), None)
          BY <2>5, <5>1, ExpectedCloses
        <5>3. ExpectedIssue(t, U, j, n) =
                IssueRow(n, "CLOSED", T[j].property, T[RunStart(t, T, j)].observed_at,
                         T[j].observed_at, s.observed_at, EvidenceOf(t, T, j),
                         ExpectedRecovery(t, s))
          BY <2>5, <5>1, ExpectedCloses
        <5> QED
          BY <4>1, <5>2, <5>3
    <3>2. IsOpen(list[n])
      BY <2>3, <3>1 DEF IsOpen, IssueRow
    <3>3. after[n] = IssueRow(n, "CLOSED", property, started, opened, s.observed_at,
                              window, ExpectedRecovery(t, s))
      <4>1. PICK old : old = list[n]
        OBVIOUS
      <4>2. PICK new : new = after[n]
        OBVIOUS
      <4>3. old = IssueRow(n, "OPEN", property, started, opened, None, window, None)
        BY <2>3, <3>1, <4>1
      <4>4. new = [old EXCEPT !.status    = "CLOSED",
                              !.closed_at = s.observed_at,
                              !.recovery  = ExpectedRecovery(t, s)]
        BY <1>4, <3>2, <4>1, <4>2
      <4>5. new = IssueRow(n, "CLOSED", property, started, opened, s.observed_at,
                           window, ExpectedRecovery(t, s))
        BY <4>3, <4>4 DEF IssueRow
      <4> QED
        BY <4>2, <4>5
    <3> QED
      BY <2>1, <2>2, <3>1, <3>3
  <2> QED
    BY <2>4, <2>5
<1>7. Len(after) = Cardinality(Openings(t, U))
  BY <1>1, <1>2, <1>5
<1>8. MeetsContract(t, U, after)
  BY <1>1, <1>6, <1>7 DEF MeetsContract, Rank
<1> QED
  BY <1>8 DEF after

-----------------------------------------------------------------------------
(* Runs that reach the new sample.                                         *)

(* The last sample of a run is faulty.                                     *)
LEMMA RunIsFaulty ==
    ASSUME NEW t, NEW T, NEW j \in Nat, NEW i \in 1..j, IsRun(t, T, i, j)
    PROVE  Faulty(t, T[j])
<1>1. j \in i..j
  OBVIOUS
<1> QED
  BY <1>1 DEF IsRun

(* A run reaches the new sample when it reached the one before and the new *)
(* one is faulty and soon enough after it.                                 *)
LEMMA RunReaches ==
    ASSUME NEW t, NEW T, NEW s, NEW U, Prolongs(U, T, s),
           NEW i \in 1..Len(T)
    PROVE  IsRun(t, U, i, Len(U)) <=>
             /\ IsRun(t, T, i, Len(T))
             /\ Faulty(t, s)
             /\ s.observed_at - T[Len(T)].observed_at <= Freshness[t]
<1> DEFINE n == Len(T)
<1>1. /\ n \in Nat /\ n \in 1..n /\ Len(U) = n + 1
      /\ U[n+1] = s /\ U[n+1-1] = T[n]
  BY DEF Prolongs
<1>2. IsRun(t, U, i, n) <=> IsRun(t, T, i, n)
  BY <1>1, RunOfPrefix
<1>3. IsRun(t, U, i, n + 1) <=>
        /\ IsRun(t, U, i, n)
        /\ Faulty(t, U[n+1])
        /\ U[n+1].observed_at - U[n+1-1].observed_at <= Freshness[t]
  <2>1. i..(n+1) = i..n \cup {n+1} /\ (i+1)..(n+1) = (i+1)..n \cup {n+1}
    BY <1>1
  <2> DEFINE Close(k) == U[k].observed_at - U[k-1].observed_at <= Freshness[t]
  <2> HIDE DEF n, Close
  <2>2. (\A k \in i..(n+1) : Faulty(t, U[k]))
           <=> (\A k \in i..n : Faulty(t, U[k])) /\ Faulty(t, U[n+1])
    BY <2>1
  <2>3. (\A k \in (i+1)..(n+1) : Close(k))
           <=> (\A k \in (i+1)..n : Close(k)) /\ Close(n+1)
    BY <2>1
  <2>4. IsRun(t, U, i, n + 1)
           <=> /\ \A k \in i..(n+1) : Faulty(t, U[k])
               /\ \A k \in (i+1)..(n+1) : Close(k)
    BY DEF IsRun, Close
  <2>5. IsRun(t, U, i, n)
           <=> /\ \A k \in i..n : Faulty(t, U[k])
               /\ \A k \in (i+1)..n : Close(k)
    BY DEF IsRun, Close
  <2>6. Close(n + 1) <=> U[n+1].observed_at - U[n+1-1].observed_at <= Freshness[t]
    BY <1>1 DEF Close
  <2> QED
    BY <2>2, <2>3, <2>4, <2>5, <2>6
<1> HIDE DEF n
<1> QED
  BY <1>1, <1>2, <1>3 DEF n

(* The new sample is a run by itself when it is faulty.                    *)
LEMMA NewSampleAlone ==
    ASSUME NEW t, NEW T, NEW s, NEW U, Prolongs(U, T, s)
    PROVE  IsRun(t, U, Len(U), Len(U)) <=> Faulty(t, s)
<1>1. /\ Len(U) \in Nat /\ Len(U)..Len(U) = {Len(U)}
      /\ (Len(U)+1)..Len(U) = {} /\ U[Len(U)] = s
  BY DEF Prolongs
<1> QED
  BY <1>1 DEF IsRun

(* A sample that does not show the fault sustains nothing.                 *)
LEMMA NoFaultNotSustained ==
    ASSUME NEW t, NEW T, NEW s, NEW U, Prolongs(U, T, s), ~Faulty(t, s)
    PROVE  ~Sustained(t, U, Len(U))
<1>1. Len(U) \in Nat /\ U[Len(U)] = s
  BY DEF Prolongs
<1> QED
  BY <1>1, RunIsFaulty DEF Sustained

-----------------------------------------------------------------------------
(* One transaction, for a sample newer than its trail.                     *)

Standing(t, s, st, list, T, U) ==
    /\ Arrival(t, s, st, list)
    /\ ~IsLate(st, s)
    /\ T \in Seq(Sample)
    /\ Prolongs(U, T, s)
    /\ Increasing(T)
    /\ Remembers(t, T, st)
    /\ MeetsContract(t, T, list)
    /\ Len(T) = 0 <=> ~RowExists(st)
    /\ Len(T) # 0 => st.last_observed_at = T[Len(T)].observed_at
    /\ \A i \in 1..Len(T) : T[i].observed_at < s.observed_at

(* What has to be shown of the transaction.                                *)
Moves(t, s, st, list, U) ==
    /\ Remembers(t, U, RowAfter(t, st, s))
    /\ MeetsContract(t, U, IssuesAfter(t, st, list, s))

(* A row that is not being timed remembers whether an issue is pending.    *)
LEMMA RemembersPlain ==
    ASSUME NEW t, NEW U, NEW name \in {"NORMAL", "OPEN"}, NEW at,
           name = "OPEN" <=> Pending(t, U),
           name = "NORMAL" => Len(U) = 0 \/ ~Faulty(t, U[Len(U)])
    PROVE  Remembers(t, U, Row(name, at, None, <<>>))
BY DEF Remembers, Row

(* The arithmetic facts of a sample that meets its trail.                  *)
LEMMA StandingTimes ==
    ASSUME NEW t, NEW s, NEW st, NEW list, NEW T, NEW U,
           Standing(t, s, st, list, T, U)
    PROVE  /\ s.observed_at \in Nat
           /\ Len(T) \in Nat
           /\ Len(U) = Len(T) + 1
           /\ U[Len(U)] = s
           /\ \A i \in 1..Len(T) : T[i] \in Sample /\ T[i].observed_at \in Nat
           /\ Duration[t][s.property] \in Nat \ {0} /\ Freshness[t] \in Nat \ {0}
BY SampleAssumption, LogicAssumption, ElementOfSeq DEF Standing, Arrival, Prolongs

(* An untrusted sample leaves what is pending pending.                     *)
LEMMA UntrustedMoves ==
    ASSUME NEW t, NEW s, NEW st, NEW list, NEW T, NEW U,
           Standing(t, s, st, list, T, U), ~Trustworthy(t, s)
    PROVE  Moves(t, s, st, list, U)
<1>1. ~Faulty(t, s) /\ ~Recovers(t, s)
  BY DEF Faulty, Recovers
<1>2. Prolongs(U, T, s) /\ MeetsContract(t, T, list) /\ Remembers(t, T, st)
  BY DEF Standing
<1>3. ~Sustained(t, U, Len(U))
  BY <1>1, <1>2, NoFaultNotSustained
<1>4. Pending(t, U) <=> st.state = "OPEN"
  BY <1>1, <1>2, <1>3, PendingNow DEF Remembers
<1>5. MeetsContract(t, U, list)
  BY <1>1, <1>2, <1>3, OpensNow, ContractStays
<1>6. ~Faulty(t, U[Len(U)])
  BY <1>1, StandingTimes
<1>7. \A name \in {"NORMAL", "OPEN"} :
         name = (IF st.state = "OPEN" THEN "OPEN" ELSE "NORMAL")
           => Remembers(t, U, Row(name, s.observed_at, None, <<>>))
  BY <1>4, <1>6, RemembersPlain
<1>8. /\ RowAfter(t, st, s) = Row(IF st.state = "OPEN" THEN "OPEN" ELSE "NORMAL",
                                  s.observed_at, None, <<>>)
      /\ IssuesAfter(t, st, list, s) = list
  BY UntrustedCase DEF Standing
<1> QED
  BY <1>5, <1>7, <1>8 DEF Moves

(* A trusted sample without the fault ends what is pending.                *)
LEMMA NonFaultMoves ==
    ASSUME NEW t, NEW s, NEW st, NEW list, NEW T, NEW U,
           Standing(t, s, st, list, T, U), Recovers(t, s)
    PROVE  Moves(t, s, st, list, U)
<1>1. ~Faulty(t, s)
  BY DEF Faulty, Recovers
<1>2. /\ Prolongs(U, T, s) /\ MeetsContract(t, T, list) /\ Remembers(t, T, st)
      /\ list \in Seq(IssueType(t)) /\ ~IsLate(st, s)
  BY DEF Standing, Arrival, TargetInv
<1>3. ~Sustained(t, U, Len(U))
  BY <1>1, <1>2, NoFaultNotSustained
<1>4. ~Pending(t, U) /\ ~OpensAt(t, U, Len(U))
  BY <1>2, <1>3, PendingNow, OpensNow
<1>5. ~Faulty(t, U[Len(U)])
  BY <1>1, StandingTimes
<1>6. Remembers(t, U, Row("NORMAL", s.observed_at, None, <<>>))
  BY <1>4, <1>5, RemembersPlain
<1>7. CASE st.state = "OPEN"
  <2>1. MeetsContract(t, U, CloseIssue(list, s.observed_at, RecoveryReason(s),
                                       SampleEvidence(t, s)))
    BY <1>2, <1>4, ContractCloses
  <2> QED
    BY <1>2, <1>6, <1>7, <2>1, RecoveryCase DEF Moves
<1>8. CASE st.state # "OPEN"
  <2>1. ~Pending(t, T)
    BY <1>2, <1>8 DEF Remembers
  <2>2. MeetsContract(t, U, list)
    BY <1>2, <1>4, <2>1, ContractStays
  <2> QED
    BY <1>2, <1>6, <1>8, <2>2, NonFaultCase DEF Moves
<1> QED
  BY <1>7, <1>8

(* A faulty sample of an open row raises nothing new.                      *)
LEMMA RemainsOpenMoves ==
    ASSUME NEW t, NEW s, NEW st, NEW list, NEW T, NEW U,
           Standing(t, s, st, list, T, U), Faulty(t, s), st.state = "OPEN"
    PROVE  Moves(t, s, st, list, U)
<1>1. ~Recovers(t, s)
  BY DEF Faulty, Recovers
<1>2. /\ Prolongs(U, T, s) /\ MeetsContract(t, T, list) /\ Remembers(t, T, st)
      /\ ~IsLate(st, s)
  BY DEF Standing
<1>3. Pending(t, T)
  BY <1>2 DEF Remembers
<1>4. Pending(t, U) /\ ~OpensAt(t, U, Len(U))
  BY <1>1, <1>2, <1>3, PendingNow, OpensNow
<1>5. MeetsContract(t, U, list)
  BY <1>1, <1>2, <1>4, ContractStays
<1>6. Remembers(t, U, Row("OPEN", s.observed_at, None, <<>>))
  BY <1>4, RemembersPlain
<1> QED
  BY <1>2, <1>5, <1>6, RemainsOpenCase DEF Moves

(* A faulty sample after a row that times nothing, or after too long a     *)
(* gap, is a run of its own.                                               *)
LEMMA WindowStartsMoves ==
    ASSUME NEW t, NEW s, NEW st, NEW list, NEW T, NEW U,
           Standing(t, s, st, list, T, U), Faulty(t, s),
           st.state = "NORMAL" \/ BreaksContinuity(t, st, s)
    PROVE  Moves(t, s, st, list, U)
<1> DEFINE n == Len(T)
<1>1. /\ Prolongs(U, T, s) /\ MeetsContract(t, T, list) /\ Remembers(t, T, st)
      /\ ~IsLate(st, s) /\ Arrival(t, s, st, list)
  BY DEF Standing
<1>2. /\ n \in Nat /\ Len(U) = n + 1 /\ U[n+1] = s
      /\ s.observed_at \in Nat /\ Duration[t][s.property] \in Nat \ {0}
  BY StandingTimes
<1>3. ~Recovers(t, s) /\ st.state # "OPEN"
  BY DEF Faulty, Recovers, BreaksContinuity
<1>4. ASSUME NEW i \in 1..n PROVE ~IsRun(t, U, i, n + 1)
  <2> SUFFICES ASSUME IsRun(t, T, i, n),
                      s.observed_at - T[n].observed_at <= Freshness[t]
               PROVE  FALSE
    BY <1>1, <1>2, RunReaches
  <2>1. Faulty(t, T[n]) /\ n # 0
    BY <1>2, RunIsFaulty
  <2>2. st.state # "NORMAL"
    BY <1>1, <2>1 DEF Remembers
  <2>3. s.observed_at - st.last_observed_at > Freshness[t]
    BY <2>2 DEF BreaksContinuity
  <2>4. st.last_observed_at = T[n].observed_at
    BY <2>1 DEF Standing
  <2>5. T[n].observed_at \in Nat /\ Freshness[t] \in Nat
    <3>1. n \in 1..n
      BY <1>2, <2>1
    <3> QED
      BY <3>1, StandingTimes
  <2> QED
    BY <1>2, <2>3, <2>4, <2>5
<1>5. LongestRun(t, U, n + 1, n + 1)
  <2>1. IsRun(t, U, n + 1, n + 1)
    BY <1>1, <1>2, NewSampleAlone
  <2>2. \A k \in 1..(n + 1 - 1) : k \in 1..n
    BY <1>2
  <2>3. \A k \in 1..(n + 1 - 1) : ~IsRun(t, U, k, n + 1)
    BY <1>4, <2>2
  <2> QED
    BY <2>1, <2>3 DEF LongestRun
<1>6. ~Sustained(t, U, n + 1)
  <2>1. \A i \in 1..(n+1) : i \in 1..n \/ i = n + 1
    BY <1>2
  <2>2. ~(s.observed_at - s.observed_at >= Duration[t][s.property])
    BY <1>2
  <2> HIDE DEF n
  <2> QED
    BY <1>2, <1>4, <2>1, <2>2 DEF Sustained
<1>7. ~Pending(t, U) /\ ~OpensAt(t, U, Len(U))
  <2>1. ~Pending(t, T)
    BY <1>1, <1>3 DEF Remembers
  <2> QED
    BY <1>1, <1>2, <1>6, <2>1, PendingNow, OpensNow
<1>8. MeetsContract(t, U, list)
  BY <1>1, <1>3, <1>7, ContractStays
<1> DEFINE ev     == SampleEvidence(t, s)
           window == <<ev>>
           r      == Row("QUALIFYING", s.observed_at, s.observed_at, window)
<1>9. Remembers(t, U, r)
  <2>1. Len(window) = 1 /\ window = [k \in 1..1 |-> ev]
    OBVIOUS
  <2>2. /\ r.state = "QUALIFYING" /\ r.qualifying_evidence = window
    BY DEF Row
  <2>3. Len(U) - Len(window) + 1 = n + 1 /\ n + 1 \in 1..(n + 1)
    BY <1>2, <2>1
  <2>4. \A k \in 1..1 : SampleEvidence(t, U[n + 1 + k - 1]) = ev
    BY <1>2
  <2>5. window = [k \in 1..Len(window) |-> SampleEvidence(t, U[n + 1 + k - 1])]
    BY <2>1, <2>4
  <2> HIDE DEF n, window, r
  <2> QED
    BY <1>2, <1>5, <1>7, <2>2, <2>3, <2>5 DEF Remembers
<1> QED
  BY <1>1, <1>8, <1>9, WindowStartsCase DEF Moves

(* What is known of a window that a fresh faulty sample extends.           *)
Extended(t, s, st, T, U, first) ==
    /\ first \in 1..Len(T)
    /\ Len(T) \in Nat /\ Len(U) = Len(T) + 1
    /\ first = Len(T) - Len(st.qualifying_evidence) + 1
    /\ T[first].observed_at = st.qualifying_started_at
    /\ U[first] = T[first]
    /\ LongestRun(t, U, first, Len(U))
    /\ Append(st.qualifying_evidence, SampleEvidence(t, s))
         = [k \in 1..(Len(U) - first + 1) |-> SampleEvidence(t, U[first + k - 1])]
    /\ Len(Append(st.qualifying_evidence, SampleEvidence(t, s))) = Len(U) - first + 1

(* A faulty sample without a gap extends the stored window; the first      *)
(* sample of the run stays the same.                                       *)
LEMMA WindowExtends ==
    ASSUME NEW t, NEW s, NEW st, NEW list, NEW T, NEW U,
           Standing(t, s, st, list, T, U), Faulty(t, s),
           st.state = "QUALIFYING", ~BreaksContinuity(t, st, s)
    PROVE  \E first : Extended(t, s, st, T, U, first)
<1> DEFINE n == Len(T)
           window == st.qualifying_evidence
           m == Len(window)
           ev == SampleEvidence(t, s)
           longer == Append(window, ev)
<1>1. /\ Prolongs(U, T, s) /\ Remembers(t, T, st) /\ Arrival(t, s, st, list)
  BY DEF Standing
<1>2. /\ n \in Nat /\ Len(U) = n + 1 /\ U[n+1] = s
      /\ s.observed_at \in Nat /\ Freshness[t] \in Nat
      /\ \A i \in 1..n : U[i] = T[i] /\ T[i].observed_at \in Nat
  BY <1>1, StandingTimes DEF Prolongs
<1>3. PICK first \in 1..n :
         /\ first = n - m + 1
         /\ LongestRun(t, T, first, n)
         /\ window = [k \in 1..m |-> SampleEvidence(t, T[first + k - 1])]
  BY <1>1 DEF Remembers
<1>4. window \in Seq(Evidence(t)) /\ ev \in Evidence(t)
  BY <1>1 DEF Arrival, TargetInv, RowType, Evidence
<1>5. /\ m \in Nat /\ Len(longer) = m + 1 /\ DOMAIN longer = 1..(m+1)
      /\ \A k \in 1..m : longer[k] = window[k]
      /\ longer[m+1] = ev
  BY <1>4, AppendProperties, LenProperties
<1>6. /\ m > 0 /\ window[1].observed_at = st.qualifying_started_at
  BY <1>1 DEF Arrival, TargetInv, HonestWindow
<1>7. T[first].observed_at = st.qualifying_started_at
  <2>1. 1 \in 1..m /\ first + 1 - 1 = first
    BY <1>2, <1>5, <1>6
  <2>2. window[1] = SampleEvidence(t, T[first])
    BY <1>3, <2>1
  <2> QED
    BY <1>6, <2>2, EvidenceTime
<1>8. st.last_observed_at = T[n].observed_at /\ n \in 1..n
  BY <1>2 DEF Standing
<1>9. s.observed_at - T[n].observed_at <= Freshness[t]
  BY <1>1, <1>2, <1>8, QualifyingHasStart DEF BreaksContinuity
<1>10. LongestRun(t, U, first, n + 1)
  <2>1. \A k \in 1..n : IsRun(t, U, k, n + 1) <=> IsRun(t, T, k, n)
    BY <1>1, <1>2, <1>9, RunReaches
  <2>2. \A k \in 1..(first-1) : k \in 1..n
    BY <1>2
  <2> HIDE DEF n
  <2> QED
    BY <1>3, <2>1, <2>2 DEF LongestRun
<1>11. longer = [k \in 1..(m+1) |-> SampleEvidence(t, U[first + k - 1])]
  <2>1. longer = [k \in 1..(m+1) |-> longer[k]]
    <3>1. longer \in Seq(Evidence(t))
      BY <1>4, AppendProperties
    <3> QED
      BY <1>5, <3>1, LenProperties
  <2>2. ASSUME NEW k \in 1..(m+1)
        PROVE  longer[k] = SampleEvidence(t, U[first + k - 1])
    <3>1. CASE k = m + 1
      <4>1. first + k - 1 = n + 1
        BY <1>2, <1>3, <1>5, <3>1
      <4> QED
        BY <1>2, <1>5, <3>1, <4>1
    <3>2. CASE k \in 1..m
      <4>1. first + k - 1 \in 1..n
        BY <1>2, <1>3, <1>5, <3>2
      <4>2. window[k] = SampleEvidence(t, T[first + k - 1])
        BY <1>3, <3>2
      <4> QED
        BY <1>2, <1>5, <3>2, <4>1, <4>2
    <3> QED
      BY <1>5, <3>1, <3>2
  <2> HIDE DEF longer, m
  <2> QED
    BY <2>1, <2>2
<1>12. m + 1 = Len(U) - first + 1
  BY <1>2, <1>3, <1>5
<1>13. Extended(t, s, st, T, U, first)
  BY <1>2, <1>3, <1>5, <1>7, <1>10, <1>11, <1>12 DEF Extended
<1> QED
  BY <1>13

(* An extension shorter than the duration sustains nothing: its longest    *)
(* run starts where the window does, and no sample is older than that.     *)
LEMMA WindowGrowsMoves ==
    ASSUME NEW t, NEW s, NEW st, NEW list, NEW T, NEW U,
           Standing(t, s, st, list, T, U), Faulty(t, s),
           st.state = "QUALIFYING", ~BreaksContinuity(t, st, s),
           s.observed_at - st.qualifying_started_at < Duration[t][s.property]
    PROVE  Moves(t, s, st, list, U)
<1> DEFINE n == Len(T)
           longer == Append(st.qualifying_evidence, SampleEvidence(t, s))
           r == Row("QUALIFYING", s.observed_at, st.qualifying_started_at, longer)
<1>1. /\ Prolongs(U, T, s) /\ MeetsContract(t, T, list) /\ Remembers(t, T, st)
      /\ ~IsLate(st, s) /\ Arrival(t, s, st, list) /\ Increasing(T)
  BY DEF Standing
<1>2. /\ n \in Nat /\ Len(U) = n + 1 /\ U[n+1] = s
      /\ s.observed_at \in Nat /\ Duration[t][s.property] \in Nat \ {0}
      /\ \A i \in 1..n : T[i].observed_at \in Nat /\ U[i] = T[i]
  BY <1>1, StandingTimes DEF Prolongs
<1>3. ~Recovers(t, s) /\ ~Pending(t, T)
  BY <1>1 DEF Faulty, Recovers, Remembers
<1>4. PICK first : Extended(t, s, st, T, U, first)
  BY WindowExtends
<1>5. /\ first \in 1..n
      /\ T[first].observed_at = st.qualifying_started_at
      /\ LongestRun(t, U, first, n + 1)
      /\ longer = [k \in 1..(n + 1 - first + 1) |-> SampleEvidence(t, U[first + k - 1])]
      /\ Len(longer) = n + 1 - first + 1
  <2>1. /\ first \in 1..n
        /\ T[first].observed_at = st.qualifying_started_at
        /\ U[first] = T[first]
        /\ LongestRun(t, U, first, Len(U))
        /\ longer = [k \in 1..(Len(U) - first + 1) |-> SampleEvidence(t, U[first + k - 1])]
        /\ Len(longer) = Len(U) - first + 1
    BY <1>4 DEF Extended
  <2> HIDE DEF longer
  <2> QED
    BY <1>2, <2>1
<1>6. ~Sustained(t, U, n + 1)
  <2> SUFFICES ASSUME NEW i \in 1..(n+1), IsRun(t, U, i, n + 1)
               PROVE  ~(U[n+1].observed_at - U[i].observed_at >= Duration[t][s.property])
    BY <1>2 DEF Sustained
  <2>1. i = n + 1 \/ i \in 1..n
    BY <1>2
  <2>2. i >= first
    <3>1. i \in 1..(first-1) => FALSE
      BY <1>5 DEF LongestRun
    <3> QED
      BY <1>2, <1>5, <3>1
  <2>3. CASE i = n + 1
    BY <1>2, <2>3
  <2>4. CASE i \in 1..n
    <3>1. T[first].observed_at <= T[i].observed_at
      <4>1. CASE i = first
        BY <1>2, <2>4, <4>1
      <4>2. CASE i > first
        BY <1>1, <1>2, <1>5, <2>4, <4>2 DEF Increasing
      <4> QED
        BY <1>2, <1>5, <2>2, <2>4, <4>1, <4>2
    <3>2. /\ T[i].observed_at \in Nat /\ T[first].observed_at \in Nat
          /\ U[i] = T[i] /\ U[n+1] = s
      BY <1>2, <1>5, <2>4
    <3> QED
      BY <1>2, <1>5, <3>1, <3>2
  <2> QED
    BY <2>1, <2>3, <2>4
<1>7. ~Pending(t, U) /\ ~OpensAt(t, U, Len(U))
  BY <1>1, <1>2, <1>3, <1>6, PendingNow, OpensNow
<1>8. MeetsContract(t, U, list)
  BY <1>1, <1>3, <1>7, ContractStays
<1>9. Remembers(t, U, r)
  <2>1. r.state = "QUALIFYING" /\ r.qualifying_evidence = longer
    BY DEF Row
  <2>2. /\ Len(U) - Len(longer) + 1 = first /\ first \in 1..Len(U)
        /\ 1..(n + 1 - first + 1) = 1..Len(longer)
    BY <1>2, <1>5
  <2>3. longer = [k \in 1..Len(longer) |-> SampleEvidence(t, U[first + k - 1])]
    BY <1>5, <2>2
  <2> HIDE DEF n, longer, r
  <2> QED
    BY <1>2, <1>5, <1>7, <2>1, <2>2, <2>3 DEF Remembers
<1> QED
  BY <1>1, <1>8, <1>9, WindowGrowsCase DEF Moves

(* An extension that lasts the duration is the issue the trail calls for   *)
(* at this sample.                                                         *)
LEMMA IssueOpensMoves ==
    ASSUME NEW t, NEW s, NEW st, NEW list, NEW T, NEW U,
           Standing(t, s, st, list, T, U), Faulty(t, s),
           st.state = "QUALIFYING", ~BreaksContinuity(t, st, s),
           s.observed_at - st.qualifying_started_at >= Duration[t][s.property]
    PROVE  Moves(t, s, st, list, U)
<1> DEFINE n == Len(T)
           longer == Append(st.qualifying_evidence, SampleEvidence(t, s))
           new == IssueRow(Len(list) + 1, "OPEN", s.property, st.qualifying_started_at,
                           s.observed_at, None, longer, None)
<1>1. /\ Prolongs(U, T, s) /\ MeetsContract(t, T, list) /\ Remembers(t, T, st)
      /\ ~IsLate(st, s) /\ Arrival(t, s, st, list)
  BY DEF Standing
<1>2. /\ n \in Nat /\ Len(U) = n + 1 /\ U[n+1] = s
  BY StandingTimes
<1>3. ~Recovers(t, s) /\ ~Pending(t, T)
  BY <1>1 DEF Faulty, Recovers, Remembers
<1>4. PICK first : Extended(t, s, st, T, U, first)
  BY WindowExtends
<1>5. /\ first \in 1..n
      /\ U[first].observed_at = st.qualifying_started_at
      /\ LongestRun(t, U, first, n + 1)
      /\ longer = [k \in 1..(n + 1 - first + 1) |-> SampleEvidence(t, U[first + k - 1])]
  <2>1. /\ first \in 1..n
        /\ T[first].observed_at = st.qualifying_started_at
        /\ U[first] = T[first]
        /\ LongestRun(t, U, first, Len(U))
        /\ longer = [k \in 1..(Len(U) - first + 1) |-> SampleEvidence(t, U[first + k - 1])]
        /\ Len(longer) = Len(U) - first + 1
    BY <1>4 DEF Extended
  <2> HIDE DEF longer
  <2> QED
    BY <1>2, <2>1
<1>6. Sustained(t, U, n + 1)
  <2>1. first \in 1..(n+1) /\ IsRun(t, U, first, n + 1)
    BY <1>2, <1>5 DEF LongestRun
  <2> QED
    BY <1>2, <1>5, <2>1 DEF Sustained
<1>7. Pending(t, U) /\ OpensAt(t, U, Len(U))
  BY <1>1, <1>2, <1>3, <1>6, PendingNow, OpensNow
<1>8. ExpectedIssue(t, U, Len(U), Len(list) + 1) = new
  <2>1. RunStart(t, U, n + 1) = first
    <3>1. first \in 1..(n+1) /\ n + 1 \in Nat
      BY <1>2, <1>5
    <3> QED
      BY <1>5, <3>1, RunStartIs
  <2>2. RecoveriesAfter(t, U, n + 1) = {}
    BY <1>2 DEF RecoveriesAfter
  <2> HIDE DEF n, longer
  <2>3. RunStart(t, U, Len(U)) = first /\ RecoveriesAfter(t, U, Len(U)) = {}
    BY <1>2, <2>1, <2>2
  <2>4. longer = [k \in 1..(Len(U) - first + 1) |-> SampleEvidence(t, U[first + k - 1])]
    BY <1>2, <1>5
  <2>5. U[first].observed_at = st.qualifying_started_at /\ U[Len(U)] = s
    BY <1>2, <1>5
  <2> QED
    BY <2>3, <2>4, <2>5 DEF ExpectedIssue, IssueRow
<1>9. list \in Seq(IssueType(t)) /\ \A i \in DOMAIN list : list[i].occurrence = i
  BY <1>1 DEF Arrival, TargetInv, Disjoint
<1>10. IssuesAfter(t, st, list, s) = Append(list, new)
  <2>1. NextOccurrence(list) = Len(list) + 1
    BY <1>9, NextOccurrenceOfDense
  <2> HIDE DEF longer
  <2> QED
    BY <1>1, <2>1, IssueOpensCase DEF OpenIssue, IssueRow, longer
<1>11. MeetsContract(t, U, Append(list, new))
  <2> HIDE DEF new
  <2> QED
    BY <1>1, <1>3, <1>7, <1>8, <1>9, ContractOpens
<1>12. Remembers(t, U, Row("OPEN", s.observed_at, None, <<>>))
  BY <1>7, RemembersPlain
<1> QED
  BY <1>1, <1>10, <1>11, <1>12, IssueOpensCase DEF Moves

(* Whatever the sample is, the row remembers the longer trail and the      *)
(* table is the one it calls for: one case per transition of the code.     *)
LEMMA SampleMoves ==
    ASSUME NEW t, NEW s, NEW st, NEW list, NEW T, NEW U,
           Standing(t, s, st, list, T, U)
    PROVE  Moves(t, s, st, list, U)
<1>1. Arrival(t, s, st, list)
  BY DEF Standing
<1>2. st.state \in {"NORMAL", "QUALIFYING", "OPEN"}
  BY <1>1 DEF Arrival, TargetInv, RowType
<1>3. CASE ~Trustworthy(t, s)
  BY <1>3, UntrustedMoves
<1>4. CASE Recovers(t, s)
  BY <1>4, NonFaultMoves
<1>5. CASE Faulty(t, s)
  <2>1. CASE st.state = "OPEN"
    BY <1>5, <2>1, RemainsOpenMoves
  <2>2. CASE st.state = "NORMAL" \/ BreaksContinuity(t, st, s)
    BY <1>5, <2>2, WindowStartsMoves
  <2>3. CASE st.state = "QUALIFYING" /\ ~BreaksContinuity(t, st, s)
    <3>1. \/ s.observed_at - st.qualifying_started_at < Duration[t][s.property]
          \/ s.observed_at - st.qualifying_started_at >= Duration[t][s.property]
      BY <1>1, <2>3, QualifyingHasStart, SampleAssumption, LogicAssumption DEF Arrival
    <3> QED
      BY <1>5, <2>3, <3>1, WindowGrowsMoves, IssueOpensMoves
  <2> QED
    BY <1>2, <2>1, <2>2, <2>3
<1> QED
  BY <1>3, <1>4, <1>5 DEF Faulty, Recovers

-----------------------------------------------------------------------------
(* The contract holds of every behaviour.                                  *)

(* The empty trail calls for an empty table, which the default row         *)
(* remembers.                                                              *)
LEMMA EmptyContract ==
    ASSUME NEW t
    PROVE  /\ Increasing(<<>>)
           /\ Remembers(t, <<>>, DefaultState)
           /\ MeetsContract(t, <<>>, <<>>)
<1>1. Len(<<>>) = 0 /\ 1..0 = {}
  OBVIOUS
<1>2. Openings(t, <<>>) = {} /\ ~Pending(t, <<>>)
  BY <1>1 DEF Openings, Pending
<1>3. Cardinality({}) = 0
  BY FS_EmptySet
<1> QED
  BY <1>1, <1>2, <1>3
     DEF Increasing, Remembers, MeetsContract, DefaultState, Row

(* Empty tables with an empty history meet the contract: at the start and  *)
(* after a reset.                                                          *)
LEMMA EmptyTablesMeet ==
    ASSUME states = Empty.states, issues = Empty.issues, trail = Empty.issues
    PROVE  ContractInv
<1>1. \A t \in Targets : states[t] = DefaultState /\ issues[t] = <<>> /\ trail[t] = <<>>
  BY DEF Empty
<1> QED
  BY <1>1, EmptyContract DEF ContractInv

(* A sample newer than its trail finds the row and the issues as the trail *)
(* left them.                                                              *)
LEMMA NewSampleStands ==
    ASSUME EvaluatorInv, CheckpointIsNewest, ContractInv,
           NEW t \in Targets, NEW s \in Sample, ~IsLate(states[t], s)
    PROVE  Standing(t, s, states[t], issues[t], trail[t], Append(trail[t], s))
<1>1. trail[t] \in Seq(Sample)
  BY DEF EvaluatorInv, TypeOK
<1>2. Len(trail[t]) = 0 <=> trail[t] = <<>>
  BY <1>1, EmptySeq, LenProperties
<1>3. \A i \in 1..Len(trail[t]) : trail[t][i].observed_at < s.observed_at
  BY <1>1, NewestIsNotLate, LenProperties DEF IsNewest
<1>4. Arrival(t, s, states[t], issues[t])
  BY DEF Arrival, EvaluatorInv
<1>5. Prolongs(Append(trail[t], s), trail[t], s)
  BY <1>1, AppendProlongs
<1>6. /\ Len(trail[t]) = 0 <=> ~RowExists(states[t])
      /\ Len(trail[t]) # 0 =>
           states[t].last_observed_at = trail[t][Len(trail[t])].observed_at
  BY <1>2 DEF CheckpointIsNewest
<1> QED
  BY <1>1, <1>3, <1>4, <1>5, <1>6 DEF Standing, ContractInv

(* A later sample keeps the times of a trail increasing.                   *)
LEMMA LongerTrailIncreases ==
    ASSUME NEW T \in Seq(Sample), NEW s \in Sample, NEW U, Prolongs(U, T, s),
           Increasing(T), \A i \in 1..Len(T) : T[i].observed_at < s.observed_at
    PROVE  Increasing(U)
<1> SUFFICES ASSUME NEW i \in 1..Len(U), NEW k \in 1..Len(U), i < k
             PROVE  U[i].observed_at < U[k].observed_at
  BY DEF Increasing
<1>1. i \in 1..Len(T) /\ U[i] = T[i]
  BY DEF Prolongs
<1>2. CASE k \in 1..Len(T)
  BY <1>1, <1>2 DEF Increasing, Prolongs
<1>3. CASE k = Len(U)
  BY <1>1, <1>3 DEF Prolongs
<1> QED
  BY <1>2, <1>3 DEF Prolongs

(* Evaluating a sample keeps the contract: it is late and changes nothing, *)
(* or moves the target of the sample.                                      *)
LEMMA SampleKeepsContract ==
    ASSUME EvaluatorInv, CheckpointIsNewest, ContractInv,
           NEW t \in Targets, NEW s \in Sample, EvaluateSample(t, s)
    PROVE  ContractInv'
<1> DEFINE Good(u) == /\ Increasing(trail'[u])
                      /\ Remembers(u, trail'[u], states'[u])
                      /\ MeetsContract(u, trail'[u], issues'[u])
<1> SUFFICES ASSUME NEW u \in Targets PROVE Good(u)
  BY DEF ContractInv
<1>1. CASE \/ u # t
           \/ /\ u = t /\ trail'[t] = trail[t]
              /\ states'[t] = states[t] /\ issues'[t] = issues[t]
  <2>1. trail'[u] = trail[u] /\ states'[u] = states[u] /\ issues'[u] = issues[u]
    BY <1>1 DEF EvaluatorInv, TypeOK, EvaluateSample
  <2> QED
    BY <2>1 DEF ContractInv
<1>2. CASE u = t /\ ~IsLate(states[t], s) /\ trail'[t] = Append(trail[t], s)
  <2> DEFINE U == Append(trail[t], s)
  <2>1. Standing(t, s, states[t], issues[t], trail[t], U)
    BY <1>2, NewSampleStands
  <2>2. Moves(t, s, states[t], issues[t], U)
    BY <2>1, SampleMoves
  <2>3. /\ states'[t] = RowAfter(t, states[t], s)
        /\ issues'[t] = IssuesAfter(t, states[t], issues[t], s)
    BY DEF EvaluatorInv, TypeOK, EvaluateSample
  <2>4. Increasing(U)
    BY <2>1, LongerTrailIncreases DEF Standing
  <2> QED
    BY <1>2, <2>2, <2>3, <2>4 DEF Moves
<1> QED
  BY <1>1, <1>2, StepCheckpoint

-----------------------------------------------------------------------------
(* A trail is determined by its samples: their times put them in order.    *)

(* The samples of an increasing sequence are all different.                *)
LEMMA IncreasingIsInjective ==
    ASSUME NEW S, \A s \in S : s.observed_at \in Nat,
           NEW n \in Nat, NEW T \in [1..n -> S], Increasing(T)
    PROVE  /\ Len(T) = n
           /\ \A i, k \in 1..n : T[i].observed_at < T[k].observed_at <=> i < k
           /\ T \in Injection(1..n, S)
<1>1. T \in Seq(S) /\ Len(T) = n
  BY IsASeq, LenProperties
<1>2. \A i \in 1..n : T[i].observed_at \in Nat
  OBVIOUS
<1>3. \A i, k \in 1..n : i < k => T[i].observed_at < T[k].observed_at
  BY <1>1 DEF Increasing
<1>4. \A i, k \in 1..n : T[i].observed_at < T[k].observed_at <=> i < k
  <2> TAKE i, k \in 1..n
  <2>1. i < k \/ i = k \/ k < i
    OBVIOUS
  <2> QED
    BY <1>2, <1>3, <2>1
<1>5. \A i, k \in 1..n : T[i] = T[k] => i = k
  <2> TAKE i, k \in 1..n
  <2>1. i < k \/ i = k \/ k < i
    OBVIOUS
  <2> QED
    BY <1>2, <1>3, <2>1
<1> QED
  BY <1>1, <1>4, <1>5 DEF Injection, IsInjective

(* T holds the samples of S, oldest first.                                 *)
Orders(S, n, T) ==
    /\ n \in Nat /\ T \in [1..n -> S] /\ Increasing(T)
    /\ \A s \in S : s.observed_at \in Nat /\ \E k \in 1..n : T[k] = s

(* Two increasing sequences of the same samples are equal: neither can     *)
(* differ from the other for the first time, since the sample it has there *)
(* would come later in the other one and be older than what is before it.  *)
LEMMA OneOrder ==
    ASSUME NEW S, NEW n, NEW T, NEW U, Orders(S, n, T), Orders(S, n, U)
    PROVE  T = U
<1> SUFFICES ASSUME T # U PROVE FALSE
  OBVIOUS
<1>1. /\ n \in Nat /\ T \in [1..n -> S] /\ U \in [1..n -> S]
      /\ \A s \in S : s.observed_at \in Nat
      /\ \A s \in S : \E k \in 1..n : T[k] = s
      /\ \A s \in S : \E k \in 1..n : U[k] = s
  BY DEF Orders
<1>2. /\ \A i, k \in 1..n : T[i].observed_at < T[k].observed_at <=> i < k
      /\ \A i, k \in 1..n : U[i].observed_at < U[k].observed_at <=> i < k
  BY <1>1, IncreasingIsInjective DEF Orders
<1> DEFINE D == {i \in 1..n : T[i] # U[i]}
<1>3. D \subseteq Nat /\ D # {}
  <2>1. D # {}
    <3>1. CASE \A i \in 1..n : T[i] = U[i]
      BY <1>1, <3>1
    <3> QED
      BY <3>1
  <2>2. D \subseteq 1..n
    OBVIOUS
  <2> HIDE DEF D
  <2>3. \A x \in 1..n : x \in Nat
    BY <1>1
  <2>4. D \subseteq Nat
    BY <2>2, <2>3
  <2> QED
    BY <2>1, <2>4
<1>4. PICK i \in D : \A k \in D : i <= k
  BY <1>3, LeastElement
<1>5. \A k \in 1..n : k < i => T[k] = U[k]
  BY <1>4
<1>6. PICK j \in 1..n : U[j] = T[i]
  BY <1>1, <1>4
<1>7. PICK m \in 1..n : T[m] = U[i]
  BY <1>1, <1>4
<1>8. i \in 1..n /\ T[i] # U[i] /\ i \in Nat /\ j \in Nat /\ m \in Nat
  BY <1>1, <1>4
<1> HIDE DEF D
<1>9. i < j
  <2>1. CASE j < i
    BY <1>2, <1>5, <1>6, <1>8, <2>1
  <2>2. CASE j = i
    BY <1>6, <1>8, <2>2
  <2> QED
    BY <1>8, <2>1, <2>2
<1>10. i < m
  <2>1. CASE m < i
    BY <1>2, <1>5, <1>7, <1>8, <2>1
  <2>2. CASE m = i
    BY <1>7, <1>8, <2>2
  <2> QED
    BY <1>8, <2>1, <2>2
<1>11. U[i].observed_at < U[j].observed_at /\ T[i].observed_at < T[m].observed_at
  BY <1>2, <1>8, <1>9, <1>10
<1>12. T[i].observed_at \in Nat /\ U[i].observed_at \in Nat
  BY <1>1, <1>8
<1>13. U[i].observed_at < T[i].observed_at
  BY <1>6, <1>11
<1>14. T[i].observed_at < U[i].observed_at
  BY <1>7, <1>11
<1> QED
  <2>1. PICK x \in Nat, y \in Nat :
          x = T[i].observed_at /\ y = U[i].observed_at
    BY <1>12
  <2>2. x < y /\ y < x
    BY <1>13, <1>14, <2>1
  <2> QED
    BY <2>2

(* So a trail is its samples in order.                                     *)
LEMMA OldestFirst ==
    ASSUME NEW S, NEW n, NEW T, Orders(S, n, T)
    PROVE  InOrder(S) = T
<1>1. T \in Injection(1..n, S) /\ T \in Surjection(1..n, S)
  BY IncreasingIsInjective DEF Surjection, Orders
<1>2. IsFiniteSet(1..n) /\ Cardinality(1..n) = n
  BY FS_Interval DEF Orders
<1>3. IsFiniteSet(S) /\ Cardinality(S) = n
  BY <1>1, <1>2, FS_Surjection
<1>4. ASSUME NEW U \in [1..n -> S], Increasing(U)
      PROVE  U = T
  <2>1. U \in Injection(1..n, S)
    BY <1>4, IncreasingIsInjective DEF Orders
  <2>2. U \in Surjection(1..n, S)
    BY <1>2, <1>3, <2>1, FS_Injection
  <2>3. Orders(S, n, U)
    BY <1>4, <2>2 DEF Surjection, Orders
  <2> QED
    BY <2>3, OneOrder
<1> QED
  BY <1>3, <1>4 DEF InOrder, Orders

(* A trail and the set of its samples.                                     *)
LEMMA TrailInOrder ==
    ASSUME NEW T \in Seq(Sample), Increasing(T),
           NEW S, {T[k] : k \in DOMAIN T} = S
    PROVE  InOrder(S) = T
<1>1. PICK n \in Nat : n = Len(T) /\ DOMAIN T = 1..n
  BY LenProperties
<1>2. \A k \in 1..n : T[k] \in Sample /\ T[k] \in S
  BY <1>1, ElementOfSeq
<1>3. T = [k \in 1..n |-> T[k]]
  BY <1>1, LenProperties
<1>4. T \in [1..n -> S]
  BY <1>2, <1>3
<1>5. \A s \in S : s.observed_at \in Nat /\ \E k \in 1..n : T[k] = s
  BY <1>1, <1>2, SampleAssumption
<1>6. Orders(S, n, T)
  BY <1>4, <1>5 DEF Orders
<1> QED
  BY <1>6, OldestFirst

-----------------------------------------------------------------------------
(* The two tables are at every moment those the samples call for.          *)
THEOREM TablesAreTheTrails == EvaluatorSpec => []ContractInv
<1>1. EvaluatorInit => ContractInv
  BY EmptyTablesMeet DEF EvaluatorInit
<1>2. EvaluatorInv /\ CheckpointIsNewest /\ ContractInv /\ [EvaluatorNext]_vars
        => ContractInv'
  <2> SUFFICES ASSUME EvaluatorInv, CheckpointIsNewest, ContractInv,
                      [EvaluatorNext]_vars
               PROVE  ContractInv'
    OBVIOUS
  <2>1. ASSUME NEW t \in Targets, NEW s \in Sample, EvaluateSample(t, s)
        PROVE  ContractInv'
    BY <2>1, SampleKeepsContract
  <2>2. CASE ResetEvaluation
    <3>1. \A t \in Targets : /\ states'[t] = DefaultState
                             /\ issues'[t] = <<>> /\ trail'[t] = <<>>
      BY <2>2 DEF ResetEvaluation, Empty
    <3> QED
      BY <3>1, EmptyContract DEF ContractInv
  <2>3. CASE UNCHANGED vars
    BY <2>3 DEF vars, ContractInv
  <2> QED
    BY <2>1, <2>2, <2>3 DEF EvaluatorNext
<1> QED
  BY <1>1, <1>2, InvariantHolds, CheckpointNewest, PTL DEF EvaluatorSpec

(* Whatever samples come in whatever order, the issue table has exactly    *)
(* the occurrences, boundaries, evidence and recoveries the samples call   *)
(* for: evaluate_sample meets its contract.                                *)
THEOREM ContractHolds == EvaluatorSpec => []IssuesMeetContract
<1>1. ContractInv => IssuesMeetContract
  BY DEF ContractInv, IssuesMeetContract
<1> QED
  BY <1>1, TablesAreTheTrails, PTL

-----------------------------------------------------------------------------
(* The readings that are stored.                                           *)

(* The evidence of a trusted sample shows what evaluate_transition saw.    *)
LEMMA TrustedEvidence ==
    ASSUME NEW t \in Targets, NEW s \in Sample, Trustworthy(t, s),
           NEW e, e = SampleEvidence(t, s)
    PROVE  /\ GoodReadings(t, e)
           /\ IsOn(e) <=> RunOn(s)
           /\ \A p \in Properties :
                Deviates(t, p, e) <=> AbsoluteDifference(s) > Threshold[t][p]
<1>1. e.readings = s.readings /\ e.observed_at = s.observed_at
  BY DEF SampleEvidence
<1>2. \A p \in Points :
        /\ s.readings[p] # None
        /\ s.readings[p].quality = "GOOD"
        /\ IsFresh(t, s, s.readings[p])
        /\ s.readings[p].observed_at \in Int
        /\ p # "RUN" => s.readings[p].value \in Int \cup {NonNumeric}
  BY ReadingAssumption DEF Trustworthy
<1>3. \A p \in Points :
        e.observed_at - e.readings[p].observed_at \in 0..Freshness[t]
  <2> TAKE p \in Points
  <2>1. /\ s.observed_at \in Int /\ s.readings[p].observed_at \in Int
        /\ Freshness[t] \in Int
    BY <1>2, SampleAssumption, LogicAssumption
  <2> QED
    BY <1>1, <1>2, <2>1 DEF IsFresh
<1>4. /\ e.readings["SAT"].value \in Int /\ e.readings["SAT_SP"].value \in Int
      /\ \A p \in Properties : Threshold[t][p] \in Nat
  BY <1>1, <1>2, LogicAssumption DEF Points, Trustworthy
<1>5. GoodReadings(t, e)
  BY <1>1, <1>2, <1>3, <1>4 DEF GoodReadings
<1>6. IsOn(e) <=> RunOn(s)
  BY <1>1 DEF IsOn, RunOn
<1>7. \A p \in Properties :
        Deviates(t, p, e) <=> AbsoluteDifference(s) > Threshold[t][p]
  BY <1>1, <1>4 DEF Deviates, AbsoluteDifference
<1> QED
  BY <1>5, <1>6, <1>7

(* A faulty sample that starts a window leaves the issues alone.           *)
LEMMA WindowStartsKeepsList ==
    ASSUME NEW t, NEW s, NEW st, NEW list, Arrival(t, s, st, list),
           ~IsLate(st, s), Faulty(t, s),
           st.state = "NORMAL" \/ BreaksContinuity(t, st, s)
    PROVE  IssuesAfter(t, st, list, s) = list
<1>1. /\ RowAfter(t, st, s) = Row("QUALIFYING", s.observed_at, s.observed_at,
                                  <<SampleEvidence(t, s)>>)
      /\ IssuesAfter(t, st, list, s) = list
  BY WindowStartsCase
<1> QED
  BY <1>1

(* A recovery is the record of the sample that ended the issue.            *)
LEMMA SampleKeepsRecoveries ==
    ASSUME NEW t, NEW s, NEW st, NEW list, Arrival(t, s, st, list),
           \A i \in DOMAIN list : RecoveryIsProven(t, list[i]),
           NEW after, after = IssuesAfter(t, st, list, s)
    PROVE  \A i \in DOMAIN after : RecoveryIsProven(t, after[i])
<1>1. st.state \in {"NORMAL", "QUALIFYING", "OPEN"} /\ s \in Sample
  BY DEF Arrival, TargetInv, RowType
<1>2. CASE IsLate(st, s)
  BY <1>2, LateCase
<1>3. CASE ~IsLate(st, s) /\ ~Trustworthy(t, s)
  BY <1>3, UntrustedCase
<1>4. CASE ~IsLate(st, s) /\ Recovers(t, s)
  <2>1. CASE st.state # "OPEN"
    BY <1>4, <2>1, NonFaultCase
  <2>2. CASE st.state = "OPEN"
    <3>1. PICK n : n = Len(list)
      OBVIOUS
    <3>2. /\ n \in Nat \ {0} /\ DOMAIN list = 1..n
          /\ list[n] \in IssueType(t)
          /\ after \in Seq(IssueType(t)) /\ Len(after) = n
          /\ \A i \in 1..(n-1) : after[i] = list[i]
          /\ after[n] = Closed(list[n], s, SampleEvidence(t, s))
      BY <1>4, <2>2, <3>1, RecoveryClosesNewest
    <3>3. DOMAIN after = 1..n /\ \A i \in 1..n : i = n \/ i \in 1..(n-1)
      BY <3>2, LenProperties
    <3>4. after[n].recovery = ExpectedRecovery(t, s)
      BY <3>2 DEF Closed, IssueType, ExpectedRecovery, RecoveryReason
    <3>5. RecoveryIsProven(t, after[n])
      BY <1>1, <1>4, <3>4 DEF RecoveryIsProven
    <3> QED
      BY <3>2, <3>3, <3>5
  <2> QED
    BY <2>1, <2>2
<1>5. CASE ~IsLate(st, s) /\ Faulty(t, s)
  <2>1. CASE st.state = "OPEN"
    BY <1>5, <2>1, RemainsOpenCase
  <2>2. CASE st.state = "NORMAL" \/ BreaksContinuity(t, st, s)
    <3>1. IssuesAfter(t, st, list, s) = list
      BY <1>5, <2>2, WindowStartsKeepsList
    <3> QED
      BY <3>1
  <2>3. CASE st.state = "QUALIFYING" /\ ~BreaksContinuity(t, st, s)
    <3>1. \/ s.observed_at - st.qualifying_started_at < Duration[t][s.property]
          \/ s.observed_at - st.qualifying_started_at >= Duration[t][s.property]
      BY <2>3, QualifyingHasStart, SampleAssumption, LogicAssumption DEF Arrival
    <3>2. CASE s.observed_at - st.qualifying_started_at < Duration[t][s.property]
      BY <1>5, <2>3, <3>2, WindowGrowsCase
    <3>3. CASE s.observed_at - st.qualifying_started_at >= Duration[t][s.property]
      <4>1. PICK longer : longer = Append(st.qualifying_evidence, SampleEvidence(t, s))
        OBVIOUS
      <4>2. after = OpenIssue(list, s.property, st.qualifying_started_at,
                               s.observed_at, longer)
        BY <1>5, <2>3, <3>3, <4>1, IssueOpensCase
      <4>3. PICK new : after = Append(list, new) /\ new.recovery = None
        BY <4>2 DEF OpenIssue
      <4>4. list \in Seq(IssueType(t) \cup {new})
        BY SeqMonotonic DEF Arrival, TargetInv
      <4>5. /\ DOMAIN after = 1..(Len(list) + 1)
            /\ \A i \in 1..Len(list) : after[i] = list[i]
            /\ after[Len(list) + 1] = new
            /\ Len(list) \in Nat /\ DOMAIN list = 1..Len(list)
        BY <4>3, <4>4, AppendProperties, LenProperties
      <4>6. RecoveryIsProven(t, new)
        BY <4>3 DEF RecoveryIsProven
      <4>7. \A i \in 1..(Len(list) + 1) : i = Len(list) + 1 \/ i \in 1..Len(list)
        BY <4>5
      <4> QED
        BY <4>5, <4>6, <4>7
    <3> QED
      BY <3>1, <3>2, <3>3
  <2> QED
    BY <1>1, <2>1, <2>2, <2>3
<1> QED
  BY <1>2, <1>3, <1>4, <1>5 DEF Faulty, Recovers

(* Every recovery on record is that of a trusted sample that refutes the   *)
(* fault.                                                                  *)
THEOREM RecoveriesProven == EvaluatorSpec => []RecoveriesAreProven
<1>1. EvaluatorInit => RecoveriesAreProven
  BY DEF EvaluatorInit, Empty, RecoveriesAreProven
<1>2. EvaluatorInv /\ RecoveriesAreProven /\ [EvaluatorNext]_vars
        => RecoveriesAreProven'
  <2> SUFFICES ASSUME EvaluatorInv, RecoveriesAreProven, [EvaluatorNext]_vars
               PROVE  RecoveriesAreProven'
    OBVIOUS
  <2>1. ASSUME NEW t \in Targets, NEW s \in Sample, EvaluateSample(t, s)
        PROVE  RecoveriesAreProven'
    <3>1. /\ issues'[t] = IssuesAfter(t, states[t], issues[t], s)
          /\ \A u \in Targets \ {t} : issues'[u] = issues[u]
      BY <2>1 DEF EvaluatorInv, TypeOK, EvaluateSample
    <3>2. Arrival(t, s, states[t], issues[t])
      BY DEF Arrival, EvaluatorInv
    <3>3. \A i \in DOMAIN issues[t] : RecoveryIsProven(t, issues[t][i])
      BY DEF RecoveriesAreProven
    <3>4. \A i \in DOMAIN issues'[t] : RecoveryIsProven(t, issues'[t][i])
      BY <3>1, <3>2, <3>3, SampleKeepsRecoveries
    <3> QED
      BY <3>1, <3>4 DEF RecoveriesAreProven
  <2>2. CASE ResetEvaluation
    BY <2>2 DEF ResetEvaluation, Empty, RecoveriesAreProven
  <2>3. CASE UNCHANGED vars
    BY <2>3 DEF vars, RecoveriesAreProven
  <2> QED
    BY <2>1, <2>2, <2>3 DEF EvaluatorNext
<1> QED
  BY <1>1, <1>2, InvariantHolds, PTL DEF EvaluatorSpec

(* What is proven of an issue can be read off its stored readings alone.   *)
LEMMA ReadingsJustify ==
    ASSUME EvaluatorInv, RecoveriesAreProven
    PROVE  EvidenceSpeaksForItself
<1> SUFFICES ASSUME NEW t \in Targets, NEW i \in DOMAIN issues[t],
                    NEW issue, issue = issues[t][i]
             PROVE  /\ \A k \in DOMAIN issue.samples :
                          /\ GoodReadings(t, issue.samples[k])
                          /\ IsOn(issue.samples[k])
                          /\ \E p \in Properties : Deviates(t, p, issue.samples[k])
                    /\ Deviates(t, issue.property,
                                issue.samples[Len(issue.samples)])
                    /\ issue.recovery # None =>
                          LET e == issue.recovery.sample
                          IN  /\ GoodReadings(t, e)
                              /\ IF issue.recovery.reason = "AHU_OFF" THEN ~IsOn(e)
                                 ELSE /\ IsOn(e)
                                      /\ \E p \in Properties : ~Deviates(t, p, e)
  BY DEF EvidenceSpeaksForItself
<1>1. ASSUME NEW k \in DOMAIN issue.samples
      PROVE  /\ GoodReadings(t, issue.samples[k])
             /\ IsOn(issue.samples[k])
             /\ \E p \in Properties : Deviates(t, p, issue.samples[k])
  <2>1. issue.samples \in Seq(FaultEvidence(t))
    BY DEF EvaluatorInv, TargetInv, Proven, Continuous
  <2>2. issue.samples[k] \in FaultEvidence(t)
    BY <2>1, ElementOfSeq, LenProperties
  <2>3. PICK s \in Sample : Faulty(t, s) /\ issue.samples[k] = SampleEvidence(t, s)
    BY <2>2 DEF FaultEvidence
  <2> QED
    BY <2>3, SampleAssumption, TrustedEvidence DEF Faulty, Qualifies
<1>2. Deviates(t, issue.property, issue.samples[Len(issue.samples)])
  <2>1. issue.samples[Len(issue.samples)] \in FaultEvidenceIn(t, issue.property)
    BY DEF EvaluatorInv, TargetInv, Proven
  <2>2. PICK s \in Sample : /\ Faulty(t, s) /\ s.property = issue.property
                            /\ issue.samples[Len(issue.samples)] = SampleEvidence(t, s)
    BY <2>1 DEF FaultEvidenceIn
  <2> QED
    BY <2>2, SampleAssumption, TrustedEvidence DEF Faulty, Qualifies
<1>3. ASSUME issue.recovery # None
      PROVE  LET e == issue.recovery.sample
             IN  /\ GoodReadings(t, e)
                 /\ IF issue.recovery.reason = "AHU_OFF" THEN ~IsOn(e)
                    ELSE IsOn(e) /\ \E p \in Properties : ~Deviates(t, p, e)
  <2>1. PICK s \in Sample : Recovers(t, s) /\ issue.recovery = ExpectedRecovery(t, s)
    BY <1>3 DEF RecoveriesAreProven, RecoveryIsProven
  <2>2. PICK e : e = SampleEvidence(t, s)
    OBVIOUS
  <2>3. /\ issue.recovery.sample = e
        /\ issue.recovery.reason = "AHU_OFF" <=> ~RunOn(s)
    BY <2>1, <2>2 DEF ExpectedRecovery
  <2>4. /\ GoodReadings(t, e)
        /\ IsOn(e) <=> RunOn(s)
        /\ RunOn(s) => ~Deviates(t, s.property, e)
        /\ s.property \in Properties
    BY <2>1, <2>2, SampleAssumption, TrustedEvidence DEF Recovers, Qualifies
  <2> QED
    BY <2>3, <2>4
<1> QED
  BY <1>1, <1>2, <1>3

(* The readings stored with an issue justify its opening and its closing,  *)
(* whatever samples came: none that is missing, stale, from the future or  *)
(* invalid ever opened, extended or closed one.                            *)
THEOREM EvidenceSpeaks == EvaluatorSpec => []EvidenceSpeaksForItself
BY InvariantHolds, RecoveriesProven, ReadingsJustify, PTL
=============================================================================
