---------------------------- MODULE BacktestProofs ----------------------------
(***************************************************************************)
(* Proofs about Backtest for any target, samples and window, the samples   *)
(* received in any order: a run from nothing finds the issues that the     *)
(* evaluator's tables have grown to, unless it takes a sample that was     *)
(* late for the evaluator, and when it finds none the reason it gives is   *)
(* true.                                                                   *)
(***************************************************************************)
EXTENDS Backtest, ContractProofs

-----------------------------------------------------------------------------
(* The inductive invariant.                                                *)

RunTypeOK(run) ==
    /\ run.row.last_observed_at \in Nat \cup {None}
    /\ run.row.qualifying_started_at \in Nat \cup {None}
    /\ run.occurrences \in Seq([ start  : Nat,
                                 raised : Nat,
                                 ended  : Nat \cup {None} ])

(* The counters of a run speak of the samples it has seen.                 *)
CountersSpeak(t, run, seen) ==
    /\ run.outcomes = {} <=> seen = {}
    /\ "AHU_OFF" \in run.reasons <=>
         \E s \in seen : Trustworthy(t, s) /\ ~RunOn(s)
    /\ "UNTRUSTWORTHY_INPUT" \in run.outcomes <=> \E s \in seen : ~Trustworthy(t, s)
    /\ run.occurrences = <<>> =>
         /\ run.row.state # "OPEN"
         /\ "QUALIFYING" \in run.outcomes <=> \E s \in seen : Faulty(t, s)

(* A run over the samples that were newer than all before goes on, while   *)
(* the window lasts, from the very row that the evaluator has saved, when  *)
(* the window began quietly.                                               *)
RunInv(t, samples, st, list, run, start, end) ==
    LET now == st.last_observed_at
    IN  /\ RunTypeOK(run)
        /\ now = None \/ now < start => run = Begun
        /\ RowExists(run.row) => now # None /\ run.row.last_observed_at <= now
        /\ QuietBefore(t, samples, start) =>
             /\ now # None /\ start <= now /\ now <= end => run.row = st
             /\ FindsThose(run.occurrences, FaultsOf(list), start, end)

TrailRunsInv ==
    \A t \in Targets : \A w \in Windows :
        RunInv(t, trail[t], states[t], issues[t],
               Simulate(t, trail[t], w[1], w[2]), w[1], w[2])

(* The row of a run over all samples received is that of the newest one in *)
(* the window, and its counters speak of those that moved it on.           *)
ReceiptInv(t, samples, run, start, end) ==
    /\ RunTypeOK(run)
    /\ \A i \in 1..Len(samples) :
         InWindow(samples[i], start, end) =>
             /\ RowExists(run.row)
             /\ samples[i].observed_at <= run.row.last_observed_at
    /\ RowExists(run.row) =>
         /\ run.outcomes # {}
         /\ \E i \in 1..Len(samples) :
              /\ InWindow(samples[i], start, end)
              /\ samples[i].observed_at = run.row.last_observed_at
    /\ CountersSpeak(t, run, Seen(samples, start, end))

SameFindings(run, other) ==
    run.row = other.row /\ run.occurrences = other.occurrences

(* The checkpoint of the evaluator is the newest time received.            *)
ReachesCheckpoint(samples, st) ==
    /\ samples \in Seq(Sample)
    /\ \A i \in 1..Len(samples) :
         RowExists(st) /\ samples[i].observed_at <= st.last_observed_at
    /\ RowExists(st) =>
         \E i \in 1..Len(samples) : samples[i].observed_at = st.last_observed_at

BacktestInv ==
    /\ DOMAIN received = Targets
    /\ \A t \in Targets : ReachesCheckpoint(received[t], states[t])
    /\ \A t \in Targets : \A w \in Windows :
         LET run == Simulate(t, received[t], w[1], w[2])
         IN  /\ ReceiptInv(t, received[t], run, w[1], w[2])
             /\ Comparable(received[t], w[1], w[2]) =>
                  SameFindings(run, Simulate(t, trail[t], w[1], w[2]))

-----------------------------------------------------------------------------
(* A run over a longer trail is the run over the trail and one more step.  *)

(* What happens to a run at a sample, which may lie outside its window.    *)
Onward(t, run, s, start, end) ==
    IF InWindow(s, start, end) THEN Advance(t, run, s) ELSE run

(* f holds the run after each of the first n samples of T.                 *)
IsRunOver(t, T, start, end, n, f) ==
    f = [i \in 0..n |-> IF i = 0 THEN Begun
                        ELSE Onward(t, f[i-1], T[i], start, end)]

(* The runs after the first samples exist: a first number of samples for   *)
(* which they did not would not be 0, and the one before would give them.  *)
LEMMA RunsExist ==
    ASSUME NEW t, NEW T, NEW start, NEW end, NEW n \in Nat
    PROVE  \E f : IsRunOver(t, T, start, end, n, f)
<1> DEFINE Runs(k) == \E f : IsRunOver(t, T, start, end, k, f)
           none    == {k \in Nat : ~Runs(k)}
<1> SUFFICES ASSUME none # {} PROVE FALSE
  OBVIOUS
<1>1. PICK k \in none : \A m \in none : k <= m
  BY LeastElement
<1>2. CASE k = 0
  <2>1. IsRunOver(t, T, start, end, 0, [i \in 0..0 |-> Begun])
    BY DEF IsRunOver
  <2> QED
    BY <1>2, <2>1
<1>3. CASE k # 0
  <2>1. k \in Nat /\ k - 1 \in Nat /\ k - 1 \notin none
    BY <1>1, <1>3
  <2>2. PICK f : IsRunOver(t, T, start, end, k - 1, f)
    BY <2>1
  <2> DEFINE g == [i \in 0..k |-> IF i = k THEN Onward(t, f[k-1], T[k], start, end)
                                  ELSE f[i]]
  <2>3. \A i \in 0..k : g[i] = IF i = 0 THEN Begun
                               ELSE Onward(t, g[i-1], T[i], start, end)
    <3> TAKE i \in 0..k
    <3>1. /\ i # k => i \in 0..(k-1)
          /\ i # 0 => i - 1 \in 0..k /\ i - 1 # k
      BY <2>1
    <3>2. \A j \in 0..(k-1) : f[j] = IF j = 0 THEN Begun
                                     ELSE Onward(t, f[j-1], T[j], start, end)
      BY <2>2 DEF IsRunOver
    <3>3. \A j \in 0..k : j # k => g[j] = f[j]
      BY <2>1
    <3>4. CASE i = k
      BY <1>3, <3>1, <3>3, <3>4
    <3>5. CASE i # k
      BY <3>1, <3>2, <3>3, <3>5
    <3> QED
      BY <3>4, <3>5
  <2>4. IsRunOver(t, T, start, end, k, g)
    <3>1. g = [i \in 0..k |-> g[i]]
      OBVIOUS
    <3> HIDE DEF g
    <3> QED
      BY <2>3, <3>1 DEF IsRunOver
  <2> QED
    BY <1>1, <2>4
<1> QED
  BY <1>2, <1>3

(* What a run is at the end of a trail is the last of such runs.           *)
LEMMA SimulateIsLast ==
    ASSUME NEW t, NEW T, NEW start, NEW end, Len(T) \in Nat
    PROVE  \E f : /\ IsRunOver(t, T, start, end, Len(T), f)
                  /\ Simulate(t, T, start, end) = f[Len(T)]
<1> DEFINE after == CHOOSE f : IsRunOver(t, T, start, end, Len(T), f)
<1>1. IsRunOver(t, T, start, end, Len(T), after)
  BY RunsExist
<1>2. Simulate(t, T, start, end) = after[Len(T)]
  BY DEF Simulate, IsRunOver, Onward
<1> QED
  BY <1>1, <1>2

(* A run over no samples is the beginning.                                 *)
LEMMA RunOfNothing ==
    ASSUME NEW t, NEW start, NEW end
    PROVE  Simulate(t, <<>>, start, end) = Begun
<1>1. Len(<<>>) = 0
  OBVIOUS
<1>2. PICK f : /\ IsRunOver(t, <<>>, start, end, 0, f)
               /\ Simulate(t, <<>>, start, end) = f[0]
  BY <1>1, SimulateIsLast
<1> QED
  BY <1>2 DEF IsRunOver

(* Appending a sample moves the run on by it: a first place where the runs *)
(* over the two trails differed would come after one where they agree.     *)
LEMMA RunMovesOn ==
    ASSUME NEW t, NEW T, NEW s, NEW U, Prolongs(U, T, s), NEW start, NEW end
    PROVE  Simulate(t, U, start, end) =
             Onward(t, Simulate(t, T, start, end), s, start, end)
<1>1. Len(T) \in Nat /\ Len(U) = Len(T) + 1 /\ U[Len(U)] = s
  BY DEF Prolongs
<1>2. PICK f : /\ IsRunOver(t, T, start, end, Len(T), f)
               /\ Simulate(t, T, start, end) = f[Len(T)]
  BY <1>1, SimulateIsLast
<1>3. PICK g : /\ IsRunOver(t, U, start, end, Len(U), g)
               /\ Simulate(t, U, start, end) = g[Len(U)]
  BY <1>1, SimulateIsLast
<1>4. /\ \A i \in 0..Len(T) : f[i] = IF i = 0 THEN Begun
                                     ELSE Onward(t, f[i-1], T[i], start, end)
      /\ \A i \in 0..Len(U) : g[i] = IF i = 0 THEN Begun
                                     ELSE Onward(t, g[i-1], U[i], start, end)
  BY <1>2, <1>3 DEF IsRunOver
<1>5. \A i \in 0..Len(T) : f[i] = g[i]
  <2> DEFINE differ == {i \in 0..Len(T) : f[i] # g[i]}
  <2> SUFFICES ASSUME differ # {} PROVE FALSE
    OBVIOUS
  <2>1. differ \subseteq Nat
    BY <1>1
  <2>2. PICK k \in differ : \A m \in differ : k <= m
    BY <2>1, LeastElement
  <2>3. k # 0
    BY <1>1, <1>4, <2>2
  <2>4. /\ k \in 1..Len(T) /\ k - 1 \in 0..Len(T) /\ k \in 0..Len(U)
        /\ k - 1 \notin differ
    BY <1>1, <2>2, <2>3
  <2>5. f[k-1] = g[k-1] /\ T[k] = U[k]
    BY <2>4 DEF Prolongs
  <2> QED
    BY <1>4, <2>2, <2>3, <2>4, <2>5
<1>6. g[Len(U)] = Onward(t, g[Len(T)], s, start, end)
  BY <1>1, <1>4
<1> QED
  BY <1>1, <1>2, <1>3, <1>5, <1>6
-----------------------------------------------------------------------------
(* What one sample adds to a run.                                          *)

(* The transitions of a sample that is not late, as far as the run counts  *)
(* them.                                                                   *)
Refused(t, st, s, tr) ==
    /\ ~Trustworthy(t, s)
    /\ tr.outcome = "UNTRUSTWORTHY_INPUT" /\ tr.issue_action = "NONE"
    /\ tr.issue_reason = "UNTRUSTWORTHY_INPUT"
    /\ tr.row = Row(IF st.state = "OPEN" THEN "OPEN" ELSE "NORMAL", s.observed_at, None, <<>>)

Refuted(t, st, s, tr) ==
    /\ Trustworthy(t, s) /\ ~Qualifies(t, s)
    /\ tr.outcome = IF st.state = "OPEN" THEN "CLOSED" ELSE "NORMAL"
    /\ tr.issue_action = IF st.state = "OPEN" THEN "CLOSE" ELSE "NONE"
    /\ tr.issue_reason = IF RunOn(s) THEN "CONDITION_CLEARED" ELSE "AHU_OFF"
    /\ tr.row = Row("NORMAL", s.observed_at, None, <<>>)

Stays(t, st, s, tr) ==
    /\ Trustworthy(t, s) /\ Qualifies(t, s) /\ st.state = "OPEN"
    /\ tr.outcome = "REMAINS_OPEN" /\ tr.issue_action = "NONE" /\ tr.issue_reason = None
    /\ tr.row = Row("OPEN", s.observed_at, None, <<>>)

Qualified(t, st, s, tr) ==
    /\ Trustworthy(t, s) /\ Qualifies(t, s) /\ st.state # "OPEN"
    /\ tr.outcome = "QUALIFYING" /\ tr.issue_action = "NONE" /\ tr.issue_reason = None
    /\ \E started \in Nat : \E window :
         tr.row = Row("QUALIFYING", s.observed_at, started, window)

Raises(t, st, s, tr) ==
    /\ Trustworthy(t, s) /\ Qualifies(t, s) /\ st.state # "OPEN"
    /\ tr.outcome = "OPENED" /\ tr.issue_action = "OPEN" /\ tr.issue_reason = None
    /\ tr.issue_started_at \in Nat
    /\ tr.row = Row("OPEN", s.observed_at, None, <<>>)

(* There is no other.                                                      *)
LEMMA TransitionKinds ==
    ASSUME NEW t, NEW st, NEW s, ~IsLate(st, s), s.observed_at \in Nat,
           st.qualifying_started_at \in Nat \cup {None},
           NEW tr, tr = EvaluateTransition(t, st, s)
    PROVE  \/ Refused(t, st, s, tr)
           \/ Refuted(t, st, s, tr)
           \/ Stays(t, st, s, tr)
           \/ Qualified(t, st, s, tr)
           \/ Raises(t, st, s, tr)
<1> DEFINE cur == AfterGap(t, st, s)
<1>1. /\ cur.state = "OPEN" <=> st.state = "OPEN"
      /\ cur.qualifying_started_at \in Nat \cup {None}
  BY DEF AfterGap, BreaksContinuity, Row
<1>2. CASE ~Trustworthy(t, s)
  BY <1>1, <1>2 DEF EvaluateTransition, UntrustedTransition, Transition, Refused
<1>3. CASE Trustworthy(t, s) /\ ~Qualifies(t, s)
  BY <1>1, <1>3 DEF EvaluateTransition, NonFaultTransition, Transition, Refuted
<1>4. CASE Trustworthy(t, s) /\ Qualifies(t, s) /\ st.state = "OPEN"
  BY <1>1, <1>4 DEF EvaluateTransition, RemainsOpenTransition, Transition, Stays
<1>5. CASE Trustworthy(t, s) /\ Qualifies(t, s) /\ st.state # "OPEN"
  <2> HIDE DEF cur
  <2> DEFINE fresh   == cur.state = "NORMAL" \/ cur.qualifying_started_at = None
             started == IF fresh THEN s.observed_at ELSE cur.qualifying_started_at
             window  == IF fresh THEN <<SampleEvidence(t, s)>>
                        ELSE Append(cur.qualifying_evidence, SampleEvidence(t, s))
  <2>1. started \in Nat
    BY <1>1
  <2>2. tr = IF s.observed_at - started >= Duration[t][s.property]
             THEN Transition("OPENED", Row("OPEN", s.observed_at, None, <<>>),
                             "OPEN", started, None)
             ELSE Transition("QUALIFYING",
                             Row("QUALIFYING", s.observed_at, started, window),
                             "NONE", None, None)
    BY <1>1, <1>5 DEF EvaluateTransition, QualifyingTransition, cur
  <2> HIDE DEF started, window
  <2>3. CASE s.observed_at - started >= Duration[t][s.property]
    BY <1>5, <2>1, <2>2, <2>3 DEF Transition, Raises
  <2>4. CASE ~(s.observed_at - started >= Duration[t][s.property])
    BY <1>5, <2>1, <2>2, <2>4 DEF Transition, Qualified
  <2> QED
    BY <2>3, <2>4
<1> QED
  BY <1>2, <1>3, <1>4, <1>5

(* Each moves the row to the time of the sample.                           *)
LEMMA TransitionMovesOn ==
    ASSUME NEW t, NEW st, NEW s, ~IsLate(st, s), s.observed_at \in Nat,
           st.qualifying_started_at \in Nat \cup {None},
           NEW tr, tr = EvaluateTransition(t, st, s)
    PROVE  Persists(tr) /\ tr.row.last_observed_at = s.observed_at
<1>1. \A name, last, started, window :
        Row(name, last, started, window).last_observed_at = last
  BY DEF Row
<1>2. CASE Refused(t, st, s, tr)
  BY <1>1, <1>2 DEF Refused, Persists
<1>3. CASE Refuted(t, st, s, tr)
  BY <1>1, <1>3 DEF Refuted, Persists
<1>4. CASE Stays(t, st, s, tr)
  BY <1>1, <1>4 DEF Stays, Persists
<1>5. CASE Qualified(t, st, s, tr)
  BY <1>1, <1>5 DEF Qualified, Persists
<1>6. CASE Raises(t, st, s, tr)
  BY <1>1, <1>6 DEF Raises, Persists
<1> QED
  BY <1>2, <1>3, <1>4, <1>5, <1>6, TransitionKinds

(* The columns of a run after a sample.                                    *)
LEMMA AdvanceFields ==
    ASSUME NEW t, NEW run, NEW s, ~IsLate(run.row, s), s.observed_at \in Nat,
           RunTypeOK(run), NEW tr, tr = EvaluateTransition(t, run.row, s)
    PROVE  LET on == Advance(t, run, s)
           IN  /\ on.row = tr.row
               /\ on.occurrences = WithOccurrence(run.occurrences, tr)
               /\ on.outcomes = run.outcomes \cup {tr.outcome}
               /\ on.reasons = run.reasons \cup ({tr.issue_reason} \ {None})
<1>1. Persists(tr)
  BY TransitionMovesOn DEF RunTypeOK
<1> QED
  BY <1>1 DEF Advance

(* The list of occurrences is empty after a sample if it was before and    *)
(* the sample opens nothing.                                               *)
LEMMA OccurrencesGrow ==
    ASSUME NEW S, NEW found \in Seq(S), NEW tr
    PROVE  WithOccurrence(found, tr) = <<>> <=>
             found = <<>> /\ tr.issue_action # "OPEN"
<1>1. \A x : Append(found, x) # <<>>
  BY AppendProperties, EmptySeq
<1>2. found # <<>> => \A x : [found EXCEPT ![Len(found)].ended = x] # <<>>
  <2> SUFFICES ASSUME found # <<>>, NEW x
               PROVE  [found EXCEPT ![Len(found)].ended = x] # <<>>
    OBVIOUS
  <2>1. DOMAIN [found EXCEPT ![Len(found)].ended = x] = DOMAIN found
    OBVIOUS
  <2>2. Len(found) \in Nat /\ Len(found) # 0 /\ DOMAIN found = 1..Len(found)
    BY EmptySeq, LenProperties
  <2>3. 1 \in DOMAIN found /\ DOMAIN <<>> = {}
    BY <2>2
  <2> QED
    BY <2>1, <2>3
<1> QED
  BY <1>1, <1>2 DEF WithOccurrence

(* The counters go on speaking of the samples seen: one case per kind of   *)
(* transition.                                                             *)
LEMMA CountersGoOn ==
    ASSUME NEW t, NEW run, NEW s, NEW seen, CountersSpeak(t, run, seen),
           RunTypeOK(run), s.observed_at \in Nat, ~IsLate(run.row, s)
    PROVE  CountersSpeak(t, Advance(t, run, s), seen \cup {s})
<1> DEFINE tr == EvaluateTransition(t, run.row, s)
           on == Advance(t, run, s)
<1>1. /\ on.row = tr.row
      /\ on.occurrences = WithOccurrence(run.occurrences, tr)
      /\ on.outcomes = run.outcomes \cup {tr.outcome}
      /\ on.reasons = run.reasons \cup ({tr.issue_reason} \ {None})
  BY AdvanceFields
<1>0. on.occurrences = <<>> <=> run.occurrences = <<>> /\ tr.issue_action # "OPEN"
  BY <1>1, OccurrencesGrow DEF RunTypeOK
<1>2. \/ Refused(t, run.row, s, tr)
      \/ Refuted(t, run.row, s, tr)
      \/ Stays(t, run.row, s, tr)
      \/ Qualified(t, run.row, s, tr)
      \/ Raises(t, run.row, s, tr)
  BY TransitionKinds DEF RunTypeOK
<1> HIDE DEF tr, on
<1>3. on.outcomes # {} /\ seen \cup {s} # {}
  BY <1>1
<1>4. "AHU_OFF" \in on.reasons <=>
        \E x \in seen \cup {s} : Trustworthy(t, x) /\ ~RunOn(x)
  BY <1>1, <1>2, ReasonAssumption
     DEF CountersSpeak, Refused, Refuted, Stays, Qualified, Raises, Qualifies
<1>5. "UNTRUSTWORTHY_INPUT" \in on.outcomes <=> \E x \in seen \cup {s} : ~Trustworthy(t, x)
  BY <1>1, <1>2 DEF CountersSpeak, Refused, Refuted, Stays, Qualified, Raises
<1>6. ASSUME on.occurrences = <<>>
      PROVE  /\ on.row.state # "OPEN"
             /\ "QUALIFYING" \in on.outcomes <=> \E x \in seen \cup {s} : Faulty(t, x)
  <2>1. /\ run.row.state # "OPEN" /\ ~Raises(t, run.row, s, tr)
        /\ "QUALIFYING" \in run.outcomes <=> \E x \in seen : Faulty(t, x)
    BY <1>0, <1>6 DEF CountersSpeak, Raises
  <2>2. CASE Refused(t, run.row, s, tr)
    BY <1>1, <2>1, <2>2 DEF Refused, Faulty, Row
  <2>3. CASE Refuted(t, run.row, s, tr)
    BY <1>1, <2>1, <2>3 DEF Refuted, Faulty, Row
  <2>4. CASE Qualified(t, run.row, s, tr)
    BY <1>1, <2>1, <2>4 DEF Qualified, Faulty, Row
  <2> QED
    BY <1>2, <2>1, <2>2, <2>3, <2>4 DEF Stays
<1> QED
  BY <1>3, <1>4, <1>5, <1>6 DEF CountersSpeak, on

(* The types of a run stay.                                                *)
LEMMA RunKeepsTypes ==
    ASSUME NEW t, NEW run, NEW s, RunTypeOK(run), s.observed_at \in Nat,
           ~IsLate(run.row, s)
    PROVE  RunTypeOK(Advance(t, run, s))
<1> DEFINE tr    == EvaluateTransition(t, run.row, s)
           on    == Advance(t, run, s)
           found == run.occurrences
           Fault == [ start : Nat, raised : Nat, ended : Nat \cup {None} ]
<1>1. on.row = tr.row /\ on.occurrences = WithOccurrence(found, tr)
  BY AdvanceFields
<1>0. found \in Seq(Fault)
  BY DEF RunTypeOK
<1>2. \/ Refused(t, run.row, s, tr)
      \/ Refuted(t, run.row, s, tr)
      \/ Stays(t, run.row, s, tr)
      \/ Qualified(t, run.row, s, tr)
      \/ Raises(t, run.row, s, tr)
  BY TransitionKinds DEF RunTypeOK
<1> HIDE DEF tr, on, found
<1>3. /\ tr.row.qualifying_started_at \in Nat \cup {None}
      /\ tr.row.last_observed_at = s.observed_at
      /\ tr.row.last_observed_at \in Nat \cup {None}
      /\ tr.issue_action = "OPEN" => tr.issue_started_at \in Nat
  <2>1. CASE Qualified(t, run.row, s, tr)
    BY <2>1 DEF Qualified, Row
  <2>2. CASE ~Qualified(t, run.row, s, tr)
    BY <1>2, <2>2 DEF Refused, Refuted, Stays, Raises, Row
  <2> QED
    BY <2>1, <2>2
<1>4. CASE tr.issue_action = "OPEN"
  <2>1. [ start |-> tr.issue_started_at, raised |-> tr.row.last_observed_at,
          ended |-> None ] \in Fault
    BY <1>3, <1>4
  <2> HIDE DEF Fault
  <2>2. on.occurrences \in Seq(Fault)
    BY <1>0, <1>1, <1>4, <2>1, AppendProperties DEF WithOccurrence
  <2> QED
    BY <1>1, <1>3, <2>2 DEF RunTypeOK, Fault, on
<1>5. CASE tr.issue_action = "CLOSE" /\ found # <<>>
  <2> DEFINE n == Len(found)
  <2>1. n \in 1..n /\ DOMAIN found = 1..n /\ found[n] \in Fault
    <3>1. n \in Nat /\ n # 0 /\ DOMAIN found = 1..n
      BY <1>0, <1>5, EmptySeq, LenProperties
    <3> HIDE DEF n, Fault
    <3>2. n \in 1..n
      BY <3>1
    <3> QED
      BY <1>0, <3>1, <3>2, ElementOfSeq DEF n
  <2>2. [found[n] EXCEPT !.ended = s.observed_at] \in Fault
    BY <2>1
  <2>3. on.occurrences = [found EXCEPT ![n] = [found[n] EXCEPT !.ended = s.observed_at]]
    BY <1>1, <1>3, <1>5, <2>1 DEF WithOccurrence
  <2> HIDE DEF Fault, n
  <2>4. on.occurrences \in Seq(Fault)
    BY <1>0, <2>1, <2>2, <2>3, ExceptSeq DEF n
  <2> QED
    BY <1>1, <1>3, <2>4 DEF RunTypeOK, Fault, on
<1>6. CASE tr.issue_action # "OPEN" /\ ~(tr.issue_action = "CLOSE" /\ found # <<>>)
  BY <1>0, <1>1, <1>3, <1>6 DEF WithOccurrence, RunTypeOK, on
<1> QED
  BY <1>4, <1>5, <1>6
-----------------------------------------------------------------------------
(* What one sample adds to what a run has to find.                         *)

FaultOf(issue) ==
    [ start  |-> issue.qualifying_started_at,
      raised |-> issue.opened_at,
      ended  |-> issue.closed_at ]

(* The faults of a list, one for each issue.                               *)
LEMMA FaultsOfList ==
    ASSUME NEW S, NEW list \in Seq(S)
    PROVE  /\ Len(list) \in Nat
           /\ Len(FaultsOf(list)) = Len(list)
           /\ \A i \in 1..Len(list) : FaultsOf(list)[i] = FaultOf(list[i])
<1> DEFINE n == Len(list)
           F == [i \in 1..n |-> FaultOf(list[i])]
<1>1. n \in Nat /\ DOMAIN list = 1..n
  BY LenProperties
<1>2. FaultsOf(list) = F
  BY <1>1 DEF FaultsOf, FaultOf
<1>3. F \in [1..n -> {FaultOf(list[i]) : i \in 1..n}]
  OBVIOUS
<1>4. F \in Seq({FaultOf(list[i]) : i \in 1..n}) /\ Len(F) = n
  BY <1>1, <1>3, IsASeq, LenProperties
<1> QED
  BY <1>1, <1>2, <1>4

(* The same for two numbers: k faults before the window and m in all up to *)
(* its end.                                                                *)
FindsBetween(found, list, start, end, k, m) ==
    /\ k \in 0..Len(list) /\ m \in 0..Len(list) /\ k <= m
    /\ \A i \in 1..k : list[i].opened_at < start
    /\ \A i \in (k+1)..m : start <= list[i].opened_at /\ list[i].opened_at <= end
    /\ \A i \in (m+1)..Len(list) : end < list[i].opened_at
    /\ found = [i \in 1..(m - k) |-> AsOf(FaultOf(list[k + i]), end)]

(* Finding those is finding them for some two such numbers.                *)
LEMMA FindsIsBetween ==
    ASSUME NEW S, NEW list \in Seq(S), NEW found, NEW start, NEW end
    PROVE  FindsThose(found, FaultsOf(list), start, end) <=>
             \E k \in Nat : \E m \in Nat : FindsBetween(found, list, start, end, k, m)
<1> DEFINE n == Len(list)
           F == FaultsOf(list)
           Finds(k, m) == 
             /\ k <= m
             /\ \A i \in 1..k : F[i].raised < start
             /\ \A i \in (k+1)..m : start <= F[i].raised /\ F[i].raised <= end
             /\ \A i \in (m+1)..n : end < F[i].raised
             /\ found = [i \in 1..(m - k) |-> AsOf(F[k + i], end)]
<1>1. n \in Nat /\ Len(F) = n /\ \A i \in 1..n : F[i] = FaultOf(list[i])
  BY FaultsOfList
<1>2. FindsThose(found, F, start, end) <=> \E k, m \in 0..n : Finds(k, m)
  BY <1>1 DEF FindsThose
<1>3. \A i \in 1..n : F[i].raised = list[i].opened_at
  <2>1. \A x : FaultOf(x).raised = x.opened_at
    BY DEF FaultOf
  <2> HIDE DEF F
  <2> QED
    BY <1>1, <2>1
<1>4. ASSUME NEW k \in 0..n, NEW m \in 0..n, k <= m
      PROVE  Finds(k, m) <=> FindsBetween(found, list, start, end, k, m)
  <2>1. /\ \A i \in 1..k : i \in 1..n
        /\ \A i \in (k+1)..m : i \in 1..n
        /\ \A i \in (m+1)..n : i \in 1..n
        /\ \A i \in 1..(m - k) : k + i \in 1..n
    BY <1>1, <1>4
  <2>2. [i \in 1..(m - k) |-> AsOf(F[k + i], end)]
          = [i \in 1..(m - k) |-> AsOf(FaultOf(list[k + i]), end)]
    BY <1>1, <2>1
  <2> HIDE DEF F
  <2>3. /\ \A i \in 1..k : F[i].raised = list[i].opened_at
        /\ \A i \in (k+1)..m : F[i].raised = list[i].opened_at
        /\ \A i \in (m+1)..n : F[i].raised = list[i].opened_at
    BY <1>3, <2>1
  <2> QED
    BY <1>4, <2>2, <2>3 DEF FindsBetween
<1>5. \A k, m : FindsBetween(found, list, start, end, k, m) =>
                  k \in 0..n /\ m \in 0..n /\ k <= m
  BY DEF FindsBetween
<1>6. \A k, m : Finds(k, m) => k <= m
  OBVIOUS
<1>7. \A k \in 0..n : k \in Nat
  OBVIOUS
<1> HIDE DEF Finds, F, n
<1>8. ASSUME NEW k \in 0..n, NEW m \in 0..n, Finds(k, m)
      PROVE  FindsBetween(found, list, start, end, k, m)
  BY <1>4, <1>6, <1>8
<1>9. ASSUME NEW k \in 0..n, NEW m \in 0..n,
             FindsBetween(found, list, start, end, k, m)
      PROVE  Finds(k, m)
  BY <1>4, <1>5, <1>9
<1> QED
  BY <1>2, <1>5, <1>7, <1>8, <1>9 DEF F

(* No issue was raised before the window: nothing is to be found yet.      *)
LEMMA NothingToFindYet ==
    ASSUME NEW S, NEW list \in Seq(S), NEW start, NEW end,
           \A i \in 1..Len(list) : list[i].opened_at < start
    PROVE  FindsThose(<<>>, FaultsOf(list), start, end)
<1> DEFINE n == Len(list)
<1>1. n \in Nat
  BY LenProperties
<1> HIDE DEF n
<1>2. n \in 0..n /\ n <= n /\ (n+1)..n = {} /\ n - n = 0
  BY <1>1
<1>3. [i \in 1..0 |-> AsOf(FaultOf(list[n + i]), end)] = <<>>
  OBVIOUS
<1>4. FindsBetween(<<>>, list, start, end, n, n)
  BY <1>2, <1>3 DEF FindsBetween, n
<1> QED
  BY <1>1, <1>4, FindsIsBetween
(* What a transaction does to the issues, with the transition it makes.    *)
Leaves(tr, list, after) ==
    tr.issue_action = "NONE" /\ after = list

Adds(tr, s, list, after) ==
    /\ tr.issue_action = "OPEN" /\ tr.row.last_observed_at = s.observed_at
    /\ \E new : /\ after = Append(list, new)
                /\ FaultOf(new) = [ start  |-> tr.issue_started_at,
                                    raised |-> s.observed_at,
                                    ended  |-> None ]

Ends(tr, s, list, after) ==
    LET n == Len(list)
    IN  /\ tr.issue_action = "CLOSE" /\ tr.row.last_observed_at = s.observed_at
        /\ n \in Nat \ {0} /\ Len(after) = n
        /\ \A i \in 1..(n-1) : after[i] = list[i]
        /\ list[n].closed_at = None
        /\ after[n].opened_at = list[n].opened_at
        /\ FaultOf(after[n]) = [FaultOf(list[n]) EXCEPT !.ended = s.observed_at]

(* It does one of the three.                                               *)
LEMMA IssuesMove ==
    ASSUME NEW t, NEW s, NEW st, NEW list, Arrival(t, s, st, list), ~IsLate(st, s),
           NEW tr, tr = EvaluateTransition(t, st, s)
    PROVE  LET after == IssuesAfter(t, st, list, s)
           IN  Leaves(tr, list, after) \/ Adds(tr, s, list, after) \/ Ends(tr, s, list, after)
<1> DEFINE after == IssuesAfter(t, st, list, s)
           n     == Len(list)
<1>1. s.observed_at \in Nat /\ st.qualifying_started_at \in Nat \cup {None}
  BY SampleAssumption DEF Arrival, TargetInv, RowType
<1>2. \/ Refused(t, st, s, tr)
      \/ Refuted(t, st, s, tr)
      \/ Stays(t, st, s, tr)
      \/ Qualified(t, st, s, tr)
      \/ Raises(t, st, s, tr)
  BY <1>1, TransitionKinds
<1>3. CASE tr.issue_action = "NONE"
  BY <1>3 DEF IssuesAfter, Leaves
<1>4. CASE Raises(t, st, s, tr)
  <2> DEFINE new == [ occurrence            |-> NextOccurrence(list),
                      status                |-> "OPEN",
                      property              |-> s.property,
                      qualifying_started_at |-> tr.issue_started_at,
                      opened_at             |-> tr.row.last_observed_at,
                      closed_at             |-> None,
                      samples               |-> Append(st.qualifying_evidence,
                                                       SampleEvidence(t, s)),
                      recovery              |-> None ]
  <2>1. tr.issue_action = "OPEN" /\ tr.row.last_observed_at = s.observed_at
    BY <1>4 DEF Raises, Row
  <2>2. after = Append(list, new)
    BY <2>1 DEF IssuesAfter, OpenIssue
  <2>3. FaultOf(new) = [ start |-> tr.issue_started_at, raised |-> s.observed_at, ended |-> None ]
    BY <2>1 DEF FaultOf
  <2> HIDE DEF new, after
  <2> QED
    BY <2>1, <2>2, <2>3 DEF Adds, after
<1>5. CASE Refuted(t, st, s, tr) /\ st.state = "OPEN"
  <2>1. tr.issue_action = "CLOSE" /\ tr.row.last_observed_at = s.observed_at /\ Recovers(t, s)
    BY <1>5 DEF Refuted, Row, Recovers
  <2>2. /\ n \in Nat \ {0} /\ DOMAIN list = 1..n
        /\ IsOpen(list[n])
        /\ list[n] \in IssueType(t)
        /\ Len(after) = n
        /\ \A i \in 1..(n-1) : after[i] = list[i]
        /\ after[n] = Closed(list[n], s, SampleEvidence(t, s))
    BY <1>5, <2>1, RecoveryClosesNewest
  <2>3. list[n].closed_at = None
    BY <2>2 DEF Arrival, TargetInv, Disjoint
  <2>4. \A issue \in IssueType(t) :
          LET closed == Closed(issue, s, SampleEvidence(t, s))
          IN  /\ closed.opened_at = issue.opened_at
              /\ FaultOf(closed) = [FaultOf(issue) EXCEPT !.ended = s.observed_at]
    BY DEF Closed, FaultOf, IssueType
  <2> HIDE DEF after, n
  <2> QED
    BY <2>1, <2>2, <2>3, <2>4 DEF Ends, n, after
<1> QED
  BY <1>2, <1>3, <1>4, <1>5 DEF Refused, Refuted, Stays, Qualified

(* Every issue lies before a sample that is not late.                      *)
LEMMA IssuesAreBefore ==
    ASSUME NEW t, NEW s, NEW st, NEW list, Arrival(t, s, st, list), ~IsLate(st, s)
    PROVE  /\ list \in Seq(IssueType(t))
           /\ s.observed_at \in Nat /\ s.observed_at # None
           /\ \A i \in 1..Len(list) :
                /\ list[i].opened_at \in Nat /\ list[i].opened_at < s.observed_at
                /\ \/ list[i].closed_at = None
                   \/ list[i].closed_at \in Nat /\ list[i].closed_at < s.observed_at
<1>1. list \in Seq(IssueType(t)) /\ BehindCheckpoint(st, list)
  BY DEF Arrival, TargetInv
<1>2. /\ s.observed_at \in Nat /\ s.observed_at # None
      /\ RowExists(st) => /\ st.last_observed_at \in Nat
                          /\ st.last_observed_at < s.observed_at
  BY NewerThanCheckpoint
<1>3. ASSUME NEW i \in 1..Len(list)
      PROVE  /\ list[i].opened_at \in Nat /\ list[i].opened_at < s.observed_at
             /\ \/ list[i].closed_at = None
                \/ list[i].closed_at \in Nat /\ list[i].closed_at < s.observed_at
  <2>1. i \in DOMAIN list /\ list[i] \in IssueType(t)
    BY <1>1, LenProperties, ElementOfSeq
  <2>2. list[i].opened_at \in Nat /\ list[i].closed_at \in Nat \cup {None}
    BY <2>1 DEF IssueType
  <2> QED
    BY <1>1, <1>2, <2>1, <2>2 DEF BehindCheckpoint
<1> QED
  BY <1>1, <1>2, <1>3

(* A fault that ended within the window, or not at all, is what it was at  *)
(* the window's end.                                                       *)
LEMMA EndedByThen ==
    ASSUME NEW issue, NEW end \in Nat,
           issue.closed_at = None \/ (issue.closed_at \in Nat /\ issue.closed_at <= end)
    PROVE  AsOf(FaultOf(issue), end) = FaultOf(issue)
BY DEF AsOf, FaultOf
(* In the window, what a run has to find grows as its occurrences do.      *)
LEMMA FindsInWindow ==
    ASSUME NEW t, NEW s, NEW st, NEW list, Arrival(t, s, st, list), ~IsLate(st, s),
           NEW tr, tr = EvaluateTransition(t, st, s),
           NEW start \in Nat, NEW end \in Nat, InWindow(s, start, end),
           NEW found, FindsThose(found, FaultsOf(list), start, end)
    PROVE  FindsThose(WithOccurrence(found, tr),
                      FaultsOf(IssuesAfter(t, st, list, s)), start, end)
<1> DEFINE after == IssuesAfter(t, st, list, s)
           now   == s.observed_at
           n     == Len(list)
<1>1. /\ list \in Seq(IssueType(t)) /\ n \in Nat
      /\ now \in Nat /\ now # None /\ start <= now /\ now <= end
      /\ \A i \in 1..n :
           /\ list[i].opened_at \in Nat /\ list[i].opened_at < now
           /\ \/ list[i].closed_at = None
              \/ list[i].closed_at \in Nat /\ list[i].closed_at < now
  BY IssuesAreBefore, LenProperties DEF InWindow
<1>2. PICK k \in Nat, m \in Nat : FindsBetween(found, list, start, end, k, m)
  BY <1>1, FindsIsBetween
<1>0. after \in Seq(IssueType(t))
  BY SampleKeepsInv DEF Arrival, TargetInv
<1>3. Leaves(tr, list, after) \/ Adds(tr, s, list, after) \/ Ends(tr, s, list, after)
  BY IssuesMove
<1> HIDE DEF after, n, now
<1>4. /\ m = n /\ k \in 0..n
      /\ \A i \in 1..k : list[i].opened_at < start
      /\ \A i \in (k+1)..n : start <= list[i].opened_at /\ list[i].opened_at <= end
  <2>1. /\ m \in 0..n /\ k \in 0..n
        /\ \A i \in (m+1)..n : end < list[i].opened_at
        /\ \A i \in 1..k : list[i].opened_at < start
        /\ \A i \in (k+1)..m : start <= list[i].opened_at /\ list[i].opened_at <= end
    BY <1>2 DEF FindsBetween, n
  <2>2. m # n => n \in (m+1)..n /\ n \in 1..n
    BY <1>1, <2>1
  <2>3. m = n
    BY <1>1, <2>1, <2>2
  <2> QED
    BY <2>1, <2>3
<1>5. found = [i \in 1..(n - k) |-> FaultOf(list[k + i])]
  <2>1. \A i \in 1..(n - k) : k + i \in 1..n
    BY <1>1, <1>4
  <2>2. \A i \in 1..n : AsOf(FaultOf(list[i]), end) = FaultOf(list[i])
    <3> TAKE i \in 1..n
    <3>1. list[i].closed_at = None \/ (list[i].closed_at \in Nat /\ list[i].closed_at <= end)
      BY <1>1
    <3> QED
      BY <3>1, EndedByThen
  <2> QED
    BY <1>2, <1>4, <2>1, <2>2 DEF FindsBetween
<1>6. CASE Leaves(tr, list, after)
  BY <1>6 DEF Leaves, WithOccurrence, after
<1>7. CASE Adds(tr, s, list, after)
  <2>1. PICK new : /\ after = Append(list, new)
                   /\ FaultOf(new) = [ start  |-> tr.issue_started_at,
                                       raised |-> now,
                                       ended  |-> None ]
    BY <1>7 DEF Adds, now
  <2>2. new.opened_at = now /\ new.closed_at = None
    BY <2>1 DEF FaultOf
  <2>3. list \in Seq(IssueType(t) \cup {new})
    BY <1>1, SeqMonotonic
  <2>4. /\ after \in Seq(IssueType(t) \cup {new}) /\ Len(after) = n + 1
        /\ \A i \in 1..n : after[i] = list[i]
        /\ after[n+1] = new
    BY <2>1, <2>3, AppendProperties DEF n
  <2> DEFINE f == FaultOf(new)
             g == [i \in 1..(n - k) |-> FaultOf(list[k + i])]
             h == [i \in 1..((n + 1) - k) |-> FaultOf(after[k + i])]
             S == {g[i] : i \in 1..(n - k)} \cup {f}
  <2>5. WithOccurrence(found, tr) = Append(g, f)
    BY <1>5, <1>7, <2>1 DEF Adds, WithOccurrence, now
  <2>6. n - k \in Nat
    BY <1>1, <1>4
  <2>7. g \in Seq(S) /\ Len(g) = n - k /\ f \in S
    <3>1. g \in [1..(n-k) -> S]
      OBVIOUS
    <3> HIDE DEF g, S
    <3> QED
      BY <2>6, <3>1, IsASeq, LenProperties DEF S
  <2>8. /\ Append(g, f) \in [1..((n - k) + 1) -> S]
        /\ \A i \in 1..(n - k) : Append(g, f)[i] = g[i]
        /\ Append(g, f)[(n - k) + 1] = f
    <3> HIDE DEF g, f, S
    <3>1. /\ Append(g, f) \in Seq(S) /\ Len(Append(g, f)) = Len(g) + 1
          /\ \A i \in 1..Len(g) : Append(g, f)[i] = g[i]
          /\ Append(g, f)[Len(g) + 1] = f
      BY <2>7, AppendProperties
    <3>2. Append(g, f) \in [1..Len(Append(g, f)) -> S]
      BY <3>1, LenProperties
    <3> QED
      BY <2>7, <3>1, <3>2
  <2>9. \A i \in 1..((n + 1) - k) : Append(g, f)[i] = h[i]
    <3> TAKE i \in 1..((n + 1) - k)
    <3>1. CASE i = (n + 1) - k
      BY <1>1, <1>4, <2>4, <2>6, <2>8, <3>1
    <3>2. CASE i # (n + 1) - k
      <4>1. i \in 1..(n - k) /\ k + i \in 1..n
        BY <1>1, <1>4, <2>6, <3>2
      <4> QED
        BY <2>4, <2>8, <4>1
    <3> QED
      BY <3>1, <3>2
  <2>10. Append(g, f) = h
    <3>1. (n - k) + 1 = (n + 1) - k
      BY <1>1, <1>4
    <3> DEFINE a == Append(g, f)
    <3>2. a \in [1..((n + 1) - k) -> S]
      BY <2>8, <3>1
    <3> HIDE DEF a, S
    <3> QED
      BY <2>9, <3>2 DEF a
  <2>11. h = [i \in 1..((n + 1) - k) |-> AsOf(FaultOf(after[k + i]), end)]
    <3>1. \A i \in 1..(n + 1) : AsOf(FaultOf(after[i]), end) = FaultOf(after[i])
      <4> TAKE i \in 1..(n + 1)
      <4>1. i \in 1..n \/ i = n + 1
        BY <1>1
      <4>2. \/ after[i].closed_at = None
            \/ after[i].closed_at \in Nat /\ after[i].closed_at <= end
        BY <1>1, <2>2, <2>4, <4>1
      <4> QED
        BY <4>2, EndedByThen
    <3>2. \A i \in 1..((n + 1) - k) : k + i \in 1..(n + 1)
      BY <1>1, <1>4
    <3> QED
      BY <3>1, <3>2
  <2> HIDE DEF h, f, g
  <2>12. /\ \A i \in 1..k : after[i].opened_at < start
         /\ \A i \in (k+1)..(n+1) : start <= after[i].opened_at /\ after[i].opened_at <= end
    <3>1. \A i \in 1..k : i \in 1..n
      BY <1>1, <1>4
    <3>2. \A i \in (k+1)..(n+1) : i = n + 1 \/ (i \in (k+1)..n /\ i \in 1..n)
      BY <1>1, <1>4
    <3> QED
      BY <1>1, <1>4, <2>2, <2>4, <3>1, <3>2
  <2>13. (n + 1 + 1)..(n + 1) = {} /\ k \in 0..(n+1) /\ n + 1 \in 0..(n+1) /\ k <= n + 1
    BY <1>1, <1>4
  <2>14. FindsBetween(WithOccurrence(found, tr), after, start, end, k, n + 1)
    <3>1. WithOccurrence(found, tr)
            = [i \in 1..((n + 1) - k) |-> AsOf(FaultOf(after[k + i]), end)]
      BY <2>5, <2>10, <2>11
    <3>2. /\ k \in 0..Len(after) /\ n + 1 \in 0..Len(after) /\ k <= n + 1
          /\ \A i \in (n + 1 + 1)..Len(after) : end < after[i].opened_at
      BY <2>4, <2>13
    <3> QED
      BY <2>12, <3>1, <3>2 DEF FindsBetween
  <2> QED
    BY <1>0, <1>1, <2>14, FindsIsBetween DEF after
<1>8. CASE Ends(tr, s, list, after)
  <2>1. /\ tr.issue_action = "CLOSE" /\ tr.row.last_observed_at = now
        /\ n # 0 /\ Len(after) = n
        /\ \A i \in 1..(n-1) : after[i] = list[i]
        /\ list[n].closed_at = None
        /\ after[n].opened_at = list[n].opened_at
        /\ FaultOf(after[n]) = [FaultOf(list[n]) EXCEPT !.ended = now]
    BY <1>8 DEF Ends, now, n
  <2>2. after[n].closed_at = now
    BY <2>1 DEF FaultOf
  <2>3. \A i \in 1..n : i \in 1..(n-1) \/ i = n
    BY <1>1
  <2>4. \A i \in 1..n : after[i].opened_at = list[i].opened_at
    BY <2>1, <2>3
  <2>5. \A i \in 1..n : AsOf(FaultOf(after[i]), end) = FaultOf(after[i])
    <3> TAKE i \in 1..n
    <3>1. \/ after[i].closed_at = None
          \/ after[i].closed_at \in Nat /\ after[i].closed_at <= end
      BY <1>1, <2>1, <2>2, <2>3
    <3> QED
      BY <3>1, EndedByThen
  <2> DEFINE g == [i \in 1..(n - k) |-> FaultOf(list[k + i])]
             h == [i \in 1..(n - k) |-> FaultOf(after[k + i])]
  <2>6. WithOccurrence(found, tr) = h
    <3>1. CASE n = k
      <4>1. g = <<>> /\ h = <<>>
        BY <1>1, <3>1
      <4> QED
        BY <1>5, <2>1, <4>1 DEF WithOccurrence
    <3>2. CASE n # k
      <4>1. n - k \in Nat /\ n - k \in 1..(n - k) /\ k + (n - k) = n
        BY <1>1, <1>4, <3>2
      <4>2. Len(g) = n - k /\ g # <<>>
        <5>1. g \in [1..(n-k) -> {g[i] : i \in 1..(n-k)}] /\ DOMAIN g = 1..(n-k)
          OBVIOUS
        <5> HIDE DEF g
        <5>2. Len(g) = n - k
          BY <4>1, <5>1, IsASeq, LenProperties
        <5> QED
          BY <4>1, <5>1, <5>2
      <4>3. WithOccurrence(found, tr) = [g EXCEPT ![n - k].ended = now]
        BY <1>5, <2>1, <4>2 DEF WithOccurrence
      <4>4. \A i \in 1..(n - k) : [g EXCEPT ![n - k].ended = now][i] = h[i]
        <5> TAKE i \in 1..(n - k)
        <5>1. CASE i = n - k
          BY <2>1, <4>1, <5>1
        <5>2. CASE i # n - k
          <6>1. k + i \in 1..(n-1)
            BY <1>1, <1>4, <5>2
          <6> QED
            BY <2>1, <5>2, <6>1
        <5> QED
          BY <5>1, <5>2
      <4> QED
        BY <4>3, <4>4
    <3> QED
      BY <3>1, <3>2
  <2>7. h = [i \in 1..(n - k) |-> AsOf(FaultOf(after[k + i]), end)]
    <3>1. \A i \in 1..(n - k) : k + i \in 1..n
      BY <1>1, <1>4
    <3> QED
      BY <2>5, <3>1
  <2> HIDE DEF h, g
  <2>8. /\ \A i \in 1..k : after[i].opened_at < start
        /\ \A i \in (k+1)..n : start <= after[i].opened_at /\ after[i].opened_at <= end
    <3>1. /\ \A i \in 1..k : i \in 1..n
          /\ \A i \in (k+1)..n : i \in 1..n
      BY <1>1, <1>4
    <3> QED
      BY <1>4, <2>4, <3>1
  <2>9. (n + 1)..n = {} /\ n \in 0..n /\ k <= n
    BY <1>1, <1>4
  <2>10. FindsBetween(WithOccurrence(found, tr), after, start, end, k, n)
    BY <1>4, <2>1, <2>6, <2>7, <2>8, <2>9 DEF FindsBetween
  <2> QED
    BY <1>0, <1>1, <2>10, FindsIsBetween DEF after
<1> QED
  BY <1>3, <1>6, <1>7, <1>8
(* After the window, what a run has to find stays: an issue that is raised *)
(* now lies behind the window, and one that ends now was open at its end.  *)
LEMMA FindsAfterWindow ==
    ASSUME NEW t, NEW s, NEW st, NEW list, Arrival(t, s, st, list), ~IsLate(st, s),
           NEW start \in Nat, NEW end \in Nat, end < s.observed_at,
           NEW found, FindsThose(found, FaultsOf(list), start, end)
    PROVE  FindsThose(found, FaultsOf(IssuesAfter(t, st, list, s)), start, end)
<1> DEFINE after == IssuesAfter(t, st, list, s)
           tr    == EvaluateTransition(t, st, s)
           now   == s.observed_at
           n     == Len(list)
<1>1. /\ list \in Seq(IssueType(t)) /\ n \in Nat
      /\ now \in Nat /\ now # None /\ end < now
  BY IssuesAreBefore, LenProperties
<1>2. PICK k \in Nat, m \in Nat : FindsBetween(found, list, start, end, k, m)
  BY <1>1, FindsIsBetween
<1>3. Leaves(tr, list, after) \/ Adds(tr, s, list, after) \/ Ends(tr, s, list, after)
  BY IssuesMove
<1>4. after \in Seq(IssueType(t))
  BY SampleKeepsInv DEF Arrival, TargetInv
<1> HIDE DEF after, n, now, tr
<1>5. /\ k \in 0..n /\ m \in 0..n /\ k <= m
      /\ \A i \in 1..k : list[i].opened_at < start
      /\ \A i \in (k+1)..m : start <= list[i].opened_at /\ list[i].opened_at <= end
      /\ \A i \in (m+1)..n : end < list[i].opened_at
      /\ found = [i \in 1..(m - k) |-> AsOf(FaultOf(list[k + i]), end)]
  BY <1>2 DEF FindsBetween, n
<1>6. CASE Leaves(tr, list, after)
  BY <1>6 DEF Leaves, after
<1>7. CASE Adds(tr, s, list, after)
  <2>1. PICK new : after = Append(list, new) /\ new.opened_at = now
    BY <1>7 DEF Adds, now, FaultOf
  <2>2. list \in Seq(IssueType(t) \cup {new})
    BY <1>1, SeqMonotonic
  <2>3. /\ Len(after) = n + 1
        /\ \A i \in 1..n : after[i] = list[i]
        /\ after[n+1] = new
    BY <2>1, <2>2, AppendProperties DEF n
  <2>4. /\ \A i \in 1..k : i \in 1..n
        /\ \A i \in (k+1)..m : i \in 1..n
        /\ \A i \in (m+1)..(n+1) : i = n + 1 \/ (i \in (m+1)..n /\ i \in 1..n)
        /\ \A i \in 1..(m - k) : k + i \in 1..n
    BY <1>1, <1>5
  <2>5. /\ \A i \in 1..k : after[i].opened_at < start
        /\ \A i \in (k+1)..m : start <= after[i].opened_at /\ after[i].opened_at <= end
        /\ \A i \in (m+1)..(n+1) : end < after[i].opened_at
    BY <1>1, <1>5, <2>1, <2>3, <2>4
  <2>6. found = [i \in 1..(m - k) |-> AsOf(FaultOf(after[k + i]), end)]
    BY <1>5, <2>3, <2>4
  <2>7. k \in 0..(n+1) /\ m \in 0..(n+1)
    BY <1>1, <1>5
  <2>8. FindsBetween(found, after, start, end, k, m)
    BY <1>5, <2>3, <2>5, <2>6, <2>7 DEF FindsBetween
  <2> QED
    BY <1>4, <2>8, FindsIsBetween DEF after
<1>8. CASE Ends(tr, s, list, after)
  <2>1. /\ n # 0 /\ Len(after) = n
        /\ \A i \in 1..(n-1) : after[i] = list[i]
        /\ list[n].closed_at = None
        /\ after[n].opened_at = list[n].opened_at
        /\ FaultOf(after[n]) = [FaultOf(list[n]) EXCEPT !.ended = now]
    BY <1>8 DEF Ends, now, n
  <2>2. \A i \in 1..n : i \in 1..(n-1) \/ i = n
    BY <1>1
  <2>3. \A i \in 1..n : after[i].opened_at = list[i].opened_at
    BY <2>1, <2>2
  <2>4. AsOf(FaultOf(after[n]), end) = AsOf(FaultOf(list[n]), end)
    <3>1. FaultOf(list[n]).ended = None
      BY <2>1 DEF FaultOf
    <3>2. /\ AsOf(FaultOf(list[n]), end) = FaultOf(list[n])
          /\ AsOf(FaultOf(after[n]), end) = [FaultOf(after[n]) EXCEPT !.ended = None]
      <4>1. FaultOf(after[n]).ended = now
        BY <2>1 DEF FaultOf
      <4> QED
        BY <1>1, <3>1, <4>1 DEF AsOf, FaultOf
    <3>3. [[FaultOf(list[n]) EXCEPT !.ended = now] EXCEPT !.ended = None] = FaultOf(list[n])
      BY <3>1 DEF FaultOf
    <3> QED
      BY <2>1, <3>2, <3>3
  <2>5. \A i \in 1..n : AsOf(FaultOf(after[i]), end) = AsOf(FaultOf(list[i]), end)
    BY <2>1, <2>2, <2>4
  <2>6. /\ \A i \in 1..k : i \in 1..n
        /\ \A i \in (k+1)..m : i \in 1..n
        /\ \A i \in (m+1)..n : i \in 1..n
        /\ \A i \in 1..(m - k) : k + i \in 1..n
    BY <1>1, <1>5
  <2>7. found = [i \in 1..(m - k) |-> AsOf(FaultOf(after[k + i]), end)]
    BY <1>5, <2>5, <2>6
  <2>8. /\ \A i \in 1..k : after[i].opened_at < start
        /\ \A i \in (k+1)..m : start <= after[i].opened_at /\ after[i].opened_at <= end
        /\ \A i \in (m+1)..n : end < after[i].opened_at
    BY <1>5, <2>3, <2>6
  <2>9. FindsBetween(found, after, start, end, k, m)
    BY <1>5, <2>1, <2>7, <2>8 DEF FindsBetween
  <2> QED
    BY <1>4, <2>9, FindsIsBetween DEF after
<1> QED
  BY <1>3, <1>6, <1>7, <1>8

-----------------------------------------------------------------------------
(* A window that begins quietly.                                           *)

(* Samples in and after a window do not disturb the quiet before it.       *)
LEMMA QuietStays ==
    ASSUME NEW t, NEW T, NEW s, NEW U, Prolongs(U, T, s),
           s.observed_at \in Nat, NEW start \in Nat, start <= s.observed_at
    PROVE  QuietBefore(t, U, start) <=> QuietBefore(t, T, start)
<1> DEFINE n == Len(T)
<1>1. /\ n \in Nat /\ Len(U) = n + 1 /\ U[n+1] = s
      /\ \A i \in 1..n : U[i] = T[i]
  BY DEF Prolongs
<1> HIDE DEF n
<1>2. ~LastBefore(U, n + 1, start)
  BY <1>1 DEF LastBefore
<1>3. ASSUME NEW i \in 1..n
      PROVE  LastBefore(U, i, start) <=> LastBefore(T, i, start)
  <2>1. CASE i = n
    BY <1>1, <2>1 DEF LastBefore, n
  <2>2. CASE i # n
    <3>1. i + 1 \in 1..n /\ i < n /\ i < n + 1
      BY <1>1, <2>2
    <3> QED
      BY <1>1, <3>1 DEF LastBefore, n
  <2> QED
    BY <2>1, <2>2
<1>4. \A i \in 1..(n+1) : i \in 1..n \/ i = n + 1
  BY <1>1
<1>5. \A i \in 1..n : i \in 1..(n+1)
  BY <1>1
<1>6. QuietBefore(t, U, start) <=>
        \A i \in 1..(n+1) : LastBefore(U, i, start) => Recovers(t, U[i])
  BY <1>1 DEF QuietBefore
<1>7. QuietBefore(t, T, start) <=>
        \A i \in 1..n : LastBefore(T, i, start) => Recovers(t, T[i])
  BY DEF QuietBefore, n
<1> QED
  BY <1>1, <1>2, <1>3, <1>4, <1>5, <1>6, <1>7

(* As long as no sample of the window has come, the row holds nothing.     *)
LEMMA QuietRow ==
    ASSUME NEW t, NEW s, NEW st, NEW list, NEW T, NEW U,
           Standing(t, s, st, list, T, U), NEW start \in Nat,
           QuietBefore(t, T, start),
           st.last_observed_at = None \/ st.last_observed_at < start
    PROVE  /\ st.state = "NORMAL"
           /\ st.qualifying_started_at = None
           /\ st.qualifying_evidence = <<>>
<1> DEFINE n == Len(T)
<1>1. /\ TargetInv(t, st, list) /\ n \in Nat
      /\ st.state \in {"NORMAL", "QUALIFYING", "OPEN"}
      /\ Remembers(t, T, st)
  BY LenProperties DEF Standing, Arrival, TargetInv, RowType
<1>2. CASE n = 0
  <2>1. st = DefaultState
    BY <1>1, <1>2, NoRowIsDefault DEF Standing, Arrival
  <2> QED
    BY <2>1 DEF DefaultState, Row
<1>3. CASE n # 0
  <2>1. n \in 1..n /\ T[n].observed_at < start
    <3>1. RowExists(st) /\ st.last_observed_at = T[n].observed_at
      BY <1>3 DEF Standing
    <3> HIDE DEF n
    <3> QED
      BY <1>1, <1>3, <3>1 DEF RowExists
  <2>2. Recovers(t, T[n])
    BY <1>1, <2>1 DEF QuietBefore, LastBefore
  <2>3. ~Faulty(t, T[n])
    BY <2>2 DEF Recovers, Faulty
  <2>4. st.state # "OPEN"
    <3> SUFFICES ASSUME Pending(t, T) PROVE FALSE
      BY <1>1 DEF Remembers
    <3>1. PICK i \in 1..n : /\ Sustained(t, T, i)
                            /\ \A k \in (i+1)..n : ~Recovers(t, T[k])
      BY DEF Pending
    <3> HIDE DEF n
    <3>2. i = n
      BY <1>1, <2>1, <2>2, <3>1
    <3>3. PICK j \in 1..n : IsRun(t, T, j, n)
      BY <3>1, <3>2 DEF Sustained
    <3> QED
      BY <1>1, <2>3, <3>3, RunIsFaulty
  <2>5. st.state # "QUALIFYING"
    <3> SUFFICES ASSUME st.state = "QUALIFYING" PROVE FALSE
      OBVIOUS
    <3>1. PICK j \in 1..n : IsRun(t, T, j, n)
      BY <1>1 DEF Remembers, LongestRun
    <3> HIDE DEF n
    <3> QED
      BY <1>1, <2>3, <3>1, RunIsFaulty
  <2> QED
    BY <1>1, <2>4, <2>5 DEF TargetInv, HonestWindow
<1> QED
  BY <1>2, <1>3

(* A row that holds nothing is as good as none.                            *)
LEMMA SameTransition ==
    ASSUME NEW t, NEW s, NEW st, ~IsLate(st, s), st.state = "NORMAL"
    PROVE  EvaluateTransition(t, DefaultState, s) = EvaluateTransition(t, st, s)
<1>1. AfterGap(t, st, s) = st /\ AfterGap(t, DefaultState, s) = DefaultState
  BY DEF AfterGap, BreaksContinuity, DefaultState, Row
<1>2. DefaultState.state = "NORMAL" /\ ~IsLate(DefaultState, s)
  BY DEF DefaultState, Row, IsLate, RowExists
<1> QED
  BY <1>1, <1>2 DEF EvaluateTransition, UntrustedTransition, NonFaultTransition,
                    QualifyingTransition
-----------------------------------------------------------------------------
(* The invariant of one run.                                               *)

(* The beginning finds nothing in empty tables.                            *)
LEMMA RunBegins ==
    ASSUME NEW t, NEW start \in Nat, NEW end \in Nat
    PROVE  RunInv(t, <<>>, DefaultState, <<>>, Simulate(t, <<>>, start, end), start, end)
<1>1. Simulate(t, <<>>, start, end) = Begun
  BY RunOfNothing
<1>2. /\ Begun.row = DefaultState /\ Begun.occurrences = <<>>
      /\ Begun.outcomes = {} /\ Begun.reasons = {}
      /\ DefaultState.last_observed_at = None
      /\ DefaultState.qualifying_started_at = None
      /\ DefaultState.state = "NORMAL"
  BY DEF Begun, DefaultState, Row
<1>3. RunTypeOK(Begun)
  BY <1>2, EmptySeq DEF RunTypeOK
<1>6. FindsThose(<<>>, FaultsOf(<<>>), start, end)
  <2>1. <<>> \in Seq({}) /\ 1..Len(<<>>) = {}
    BY EmptySeq
  <2> QED
    BY <2>1, NothingToFindYet
<1> QED
  BY <1>1, <1>2, <1>3, <1>6 DEF RunInv, RowExists

(* A sample that the evaluator takes moves the run and the tables on       *)
(* together.                                                               *)
LEMMA RunGoesOn ==
    ASSUME NEW t, NEW s, NEW st, NEW list, NEW T, NEW U,
           Standing(t, s, st, list, T, U),
           NEW start \in Nat, NEW end \in Nat, start < end, NEW run,
           RunInv(t, T, st, list, run, start, end)
    PROVE  RunInv(t, U, RowAfter(t, st, s), IssuesAfter(t, st, list, s),
                  Onward(t, run, s, start, end), start, end)
<1> DEFINE now   == s.observed_at
           on    == Onward(t, run, s, start, end)
           row   == RowAfter(t, st, s)
           after == IssuesAfter(t, st, list, s)
           tr    == EvaluateTransition(t, st, s)
           ran   == EvaluateTransition(t, run.row, s)
           last  == st.last_observed_at
<1>1. /\ Arrival(t, s, st, list) /\ ~IsLate(st, s) /\ Prolongs(U, T, s)
      /\ now \in Nat /\ now # None
      /\ last = None \/ (last \in Nat /\ last < now)
  <2>1. Arrival(t, s, st, list) /\ ~IsLate(st, s) /\ Prolongs(U, T, s)
    BY DEF Standing
  <2> QED
    BY <2>1, NewerThanCheckpoint DEF RowExists
<1>2. row = tr.row /\ row.last_observed_at = now
  <2>1. st.qualifying_started_at \in Nat \cup {None}
    BY <1>1 DEF Arrival, TargetInv, RowType
  <2>2. Persists(tr) /\ tr.row.last_observed_at = now
    BY <1>1, <2>1, TransitionMovesOn
  <2> QED
    BY <2>2 DEF RowAfter
<1>3. /\ RunTypeOK(run)
      /\ last = None \/ last < start => run = Begun
      /\ RowExists(run.row) => last # None /\ run.row.last_observed_at <= last
      /\ QuietBefore(t, T, start) =>
           /\ last # None /\ start <= last /\ last <= end => run.row = st
           /\ FindsThose(run.occurrences, FaultsOf(list), start, end)
  BY DEF RunInv
<1>4. ~IsLate(run.row, s)
  BY <1>1, <1>3 DEF IsLate, RunTypeOK, RowExists
<1>5. InWindow(s, start, end) <=> start <= now /\ now <= end
  BY DEF InWindow
<1> HIDE DEF now, on, row, after, tr, ran, last
<1>6. CASE now < start
  <2>1. ~InWindow(s, start, end) /\ on = Begun
    BY <1>1, <1>3, <1>5, <1>6 DEF on, Onward
  <2>2. on = run
    BY <1>1, <2>1 DEF on, Onward
  <2>3. ~RowExists(on.row) /\ on.occurrences = <<>>
    BY <2>1 DEF Begun, RowExists, DefaultState, Row
  <2>4. FindsThose(<<>>, FaultsOf(after), start, end)
    <3>1. after \in Seq(IssueType(t)) /\ BehindCheckpoint(row, after)
      BY <1>1, SampleKeepsInv DEF Arrival, TargetInv, row, after
    <3>2. ASSUME NEW i \in 1..Len(after) PROVE after[i].opened_at < start
      <4>1. i \in DOMAIN after /\ after[i] \in IssueType(t)
        BY <3>1, LenProperties, ElementOfSeq
      <4>2. after[i].opened_at <= now /\ after[i].opened_at \in Nat
        BY <1>2, <3>1, <4>1 DEF BehindCheckpoint, IssueType
      <4> QED
        BY <1>1, <1>6, <4>2
    <3> QED
      BY <3>1, <3>2, NothingToFindYet
  <2> QED
    BY <1>1, <1>2, <1>3, <1>6, <2>1, <2>2, <2>3, <2>4
       DEF RunInv, row, after, on, now
<1>7. CASE start <= now /\ now <= end
  <2>1. on = Advance(t, run, s)
    BY <1>5, <1>7 DEF on, Onward
  <2>2. /\ on.row = ran.row
        /\ on.occurrences = WithOccurrence(run.occurrences, ran)
    BY <1>1, <1>3, <1>4, <2>1, AdvanceFields DEF ran, now
  <2>3. RunTypeOK(on)
    BY <1>1, <1>3, <1>4, <2>1, RunKeepsTypes DEF now
  <2>5. on.row.last_observed_at = now
    BY <1>1, <1>3, <1>4, <2>2, TransitionMovesOn DEF RunTypeOK, ran, now
  <2>6. ASSUME QuietBefore(t, U, start)
        PROVE  on.row = row /\ FindsThose(on.occurrences, FaultsOf(after), start, end)
    <3>1. QuietBefore(t, T, start)
      BY <1>1, <1>7, <2>6, QuietStays DEF now
    <3>2. ran = tr
      <4>1. CASE last = None \/ last < start
        <5>1. run.row = DefaultState
          BY <1>3, <4>1 DEF Begun
        <5>2. st.state = "NORMAL"
          BY <3>1, <4>1, QuietRow DEF last
        <5> QED
          BY <1>1, <5>1, <5>2, SameTransition DEF ran, tr
      <4>2. CASE ~(last = None \/ last < start)
        <5>1. run.row = st
          BY <1>1, <1>3, <1>7, <3>1, <4>2
        <5> QED
          BY <5>1 DEF ran, tr
      <4> QED
        BY <4>1, <4>2
    <3>3. FindsThose(WithOccurrence(run.occurrences, tr), FaultsOf(after), start, end)
      BY <1>1, <1>3, <1>5, <1>7, <3>1, FindsInWindow DEF tr, after
    <3> QED
      BY <1>2, <2>2, <3>2, <3>3
  <2> QED
    BY <1>1, <1>2, <1>7, <2>3, <2>5, <2>6 DEF RunInv, row, after, on, now
<1>8. CASE end < now
  <2>1. ~InWindow(s, start, end) /\ on = run
    BY <1>1, <1>5, <1>8 DEF on, Onward
  <2>3. ASSUME QuietBefore(t, U, start)
        PROVE  FindsThose(run.occurrences, FaultsOf(after), start, end)
    <3>1. start <= now
      BY <1>1, <1>8
    <3>2. QuietBefore(t, T, start)
      BY <1>1, <2>3, <3>1, QuietStays DEF now
    <3> QED
      BY <1>1, <1>3, <1>8, <3>2, FindsAfterWindow DEF after, now
  <2>4. RowExists(run.row) => run.row.last_observed_at <= now
    BY <1>1, <1>3 DEF RunTypeOK, RowExists
  <2>5. /\ ~(now = None \/ now < start)
        /\ ~(now <= end)
    BY <1>1, <1>8
  <2> QED
    BY <1>1, <1>2, <1>3, <2>1, <2>3, <2>4, <2>5
       DEF RunInv, row, after, on, now
<1> QED
  BY <1>1, <1>6, <1>7, <1>8
-----------------------------------------------------------------------------
(* The invariant of every run.                                             *)

(* The bounds of a window are times, and it lasts.                         *)
LEMMA WindowBounds ==
    ASSUME NEW w \in Windows
    PROVE  w[1] \in Nat /\ w[2] \in Nat /\ w[1] < w[2]
BY SampleAssumption DEF Windows, Times

(* Nothing has run and nothing was found: at the start and after a reset.  *)
LEMMA EmptyRuns ==
    ASSUME states = Empty.states, issues = Empty.issues, trail = Empty.issues
    PROVE  TrailRunsInv
<1>1. \A t \in Targets : states[t] = DefaultState /\ issues[t] = <<>> /\ trail[t] = <<>>
  BY DEF Empty
<1>2. ASSUME NEW t \in Targets, NEW w \in Windows
      PROVE  RunInv(t, trail[t], states[t], issues[t],
                    Simulate(t, trail[t], w[1], w[2]), w[1], w[2])
  <2>1. RunInv(t, <<>>, DefaultState, <<>>, Simulate(t, <<>>, w[1], w[2]), w[1], w[2])
    BY WindowBounds, RunBegins
  <2> QED
    BY <1>1, <2>1
<1> QED
  BY <1>2 DEF TrailRunsInv

(* evaluate_sample keeps every run in step with the tables.                *)
LEMMA SampleKeepsRuns ==
    ASSUME EvaluatorInv, CheckpointIsNewest, ContractInv, TrailRunsInv,
           NEW t \in Targets, NEW s \in Sample, EvaluateSample(t, s)
    PROVE  TrailRunsInv'
<1> SUFFICES ASSUME NEW u \in Targets, NEW w \in Windows
             PROVE  RunInv(u, trail'[u], states'[u], issues'[u],
                           Simulate(u, trail'[u], w[1], w[2]), w[1], w[2])
  BY DEF TrailRunsInv, Windows, Times
<1>1. CASE \/ u # t
           \/ /\ u = t /\ trail'[t] = trail[t]
              /\ states'[t] = states[t] /\ issues'[t] = issues[t]
  <2>1. trail'[u] = trail[u] /\ states'[u] = states[u] /\ issues'[u] = issues[u]
    BY <1>1 DEF EvaluatorInv, TypeOK, EvaluateSample
  <2> QED
    BY <2>1 DEF TrailRunsInv
<1>2. CASE u = t /\ ~IsLate(states[t], s) /\ trail'[t] = Append(trail[t], s)
  <2> DEFINE U   == Append(trail[t], s)
             run == Simulate(t, trail[t], w[1], w[2])
  <2>1. Standing(t, s, states[t], issues[t], trail[t], U)
    BY <1>2, NewSampleStands
  <2>2. RunInv(t, trail[t], states[t], issues[t], run, w[1], w[2])
    BY DEF TrailRunsInv
  <2>3. w[1] \in Nat /\ w[2] \in Nat /\ w[1] < w[2]
    BY WindowBounds
  <2>4. /\ states'[t] = RowAfter(t, states[t], s)
        /\ issues'[t] = IssuesAfter(t, states[t], issues[t], s)
    BY DEF EvaluatorInv, TypeOK, EvaluateSample
  <2> HIDE DEF U, run
  <2>5. RunInv(t, U, RowAfter(t, states[t], s), IssuesAfter(t, states[t], issues[t], s),
               Onward(t, run, s, w[1], w[2]), w[1], w[2])
    BY <2>1, <2>2, <2>3, RunGoesOn
  <2>6. Simulate(t, U, w[1], w[2]) = Onward(t, run, s, w[1], w[2])
    <3>1. Prolongs(U, trail[t], s)
      BY <2>1 DEF Standing
    <3> QED
      BY <3>1, RunMovesOn DEF run
  <2>7. trail'[t] = U
    BY <1>2 DEF U
  <2> QED
    BY <1>2, <2>4, <2>5, <2>6, <2>7
<1> QED
  BY <1>1, <1>2, StepCheckpoint

(* Every step does.                                                        *)
LEMMA RunsStep ==
    EvaluatorInv /\ CheckpointIsNewest /\ ContractInv /\ TrailRunsInv
      /\ [EvaluatorNext]_vars => TrailRunsInv'
<1> SUFFICES ASSUME EvaluatorInv, CheckpointIsNewest, ContractInv, TrailRunsInv,
                    [EvaluatorNext]_vars
             PROVE  TrailRunsInv'
  OBVIOUS
<1>1. ASSUME NEW t \in Targets, NEW s \in Sample, EvaluateSample(t, s)
      PROVE  TrailRunsInv'
  BY <1>1, SampleKeepsRuns
<1>2. CASE ResetEvaluation
  <2> SUFFICES ASSUME NEW t \in Targets, NEW w \in Windows
               PROVE  RunInv(t, trail'[t], states'[t], issues'[t],
                             Simulate(t, trail'[t], w[1], w[2]), w[1], w[2])
    BY DEF TrailRunsInv, Windows, Times
  <2>1. states'[t] = DefaultState /\ issues'[t] = <<>> /\ trail'[t] = <<>>
    BY <1>2 DEF ResetEvaluation, Empty
  <2>2. RunInv(t, <<>>, DefaultState, <<>>, Simulate(t, <<>>, w[1], w[2]), w[1], w[2])
    BY WindowBounds, RunBegins
  <2> QED
    BY <2>1, <2>2
<1>3. CASE UNCHANGED vars
  BY <1>3 DEF vars, TrailRunsInv
<1> QED
  BY <1>1, <1>2, <1>3 DEF EvaluatorNext

(* Every run over the samples that were newer than all before is, at every *)
(* moment, in step with the rows and the issues the evaluator has saved    *)
(* (evaluate_sample, _simulate).                                           *)
THEOREM RunsKeepStep == EvaluatorSpec => []TrailRunsInv
<1>1. EvaluatorInit => TrailRunsInv
  BY EmptyRuns DEF EvaluatorInit
<1> QED
  BY <1>1, RunsStep, InvariantHolds, CheckpointNewest, TablesAreTheTrails, PTL
     DEF EvaluatorSpec

-----------------------------------------------------------------------------
(* Runs over everything received.                                          *)

(* Whether a received sample was new when it came does not change.         *)
LEMMA NewOfPrefix ==
    ASSUME NEW H, NEW s, NEW J, Prolongs(J, H, s), NEW start, NEW end,
           NEW i \in 1..Len(H)
    PROVE  NewInWindow(J, i, start, end) <=> NewInWindow(H, i, start, end)
<1>1. J[i] = H[i] /\ \A j \in 1..(i-1) : J[j] = H[j]
  BY DEF Prolongs
<1> QED
  BY <1>1 DEF NewInWindow

(* The samples seen of a longer list.                                      *)
LEMMA SeenNow ==
    ASSUME NEW H, NEW s, NEW J, Prolongs(J, H, s), NEW start, NEW end
    PROVE  Seen(J, start, end) = IF NewInWindow(J, Len(J), start, end)
                                 THEN Seen(H, start, end) \cup {s}
                                 ELSE Seen(H, start, end)
<1> DEFINE n == Len(H)
           New(L, i) == NewInWindow(L, i, start, end)
<1>1. /\ n \in Nat /\ Len(J) = n + 1 /\ J[n+1] = s
      /\ \A i \in 1..n : J[i] = H[i] /\ (New(J, i) <=> New(H, i))
  BY NewOfPrefix DEF Prolongs
<1>2. /\ Seen(J, start, end) = {J[i] : i \in {k \in 1..Len(J) : New(J, k)}}
      /\ Seen(H, start, end) = {H[i] : i \in {k \in 1..n : New(H, k)}}
  BY DEF Seen
<1> HIDE DEF n, New
<1>3. 1..(n+1) = 1..n \cup {n+1}
  BY <1>1
<1>4. {i \in 1..(n+1) : New(J, i)}
        = {i \in 1..n : New(H, i)} \cup {i \in {n+1} : New(J, i)}
  BY <1>1, <1>3
<1> QED
  BY <1>1, <1>2, <1>4 DEF New

(* A run takes a sample of its window exactly when it is new in it.        *)
LEMMA NewIsNotLate ==
    ASSUME NEW t, NEW H \in Seq(Sample), NEW s \in Sample, NEW J, Prolongs(J, H, s),
           NEW start, NEW end, NEW run, ReceiptInv(t, H, run, start, end),
           InWindow(s, start, end)
    PROVE  NewInWindow(J, Len(J), start, end) <=> ~IsLate(run.row, s)
<1> DEFINE n    == Len(H)
           last == run.row.last_observed_at
           In(i) == InWindow(H[i], start, end)
<1>1. /\ n \in Nat /\ Len(J) = n + 1 /\ J[n+1] = s
      /\ s.observed_at \in Nat
      /\ \A i \in 1..n : J[i] = H[i] /\ H[i].observed_at \in Nat
  BY SampleAssumption, ElementOfSeq, LenProperties DEF Prolongs
<1>2. NewInWindow(J, Len(J), start, end) <=>
        \A i \in 1..n : In(i) => H[i].observed_at < s.observed_at
  <2>1. (n + 1) - 1 = n
    BY <1>1
  <2> QED
    BY <1>1, <2>1 DEF NewInWindow
<1>3. /\ last \in Nat \cup {None}
      /\ \A i \in 1..n : In(i) => RowExists(run.row) /\ H[i].observed_at <= last
      /\ RowExists(run.row) => \E i \in 1..n : In(i) /\ H[i].observed_at = last
  BY DEF ReceiptInv, RunTypeOK
<1> HIDE DEF n, last, In
<1>4. IsLate(run.row, s) <=> RowExists(run.row) /\ s.observed_at <= last
  BY DEF IsLate, last
<1>5. RowExists(run.row) => last \in Nat
  BY <1>3 DEF RowExists, last
<1>6. CASE RowExists(run.row)
  <2>1. PICK i \in 1..n : In(i) /\ H[i].observed_at = last
    BY <1>3, <1>6
  <2> QED
    BY <1>1, <1>2, <1>3, <1>4, <1>5, <1>6, <2>1
<1>7. CASE ~RowExists(run.row)
  BY <1>2, <1>3, <1>4, <1>7
<1> QED
  BY <1>6, <1>7

(* What a sample that is late for a run does to it: it is counted.         *)
LEMMA LateAdvance ==
    ASSUME NEW t, NEW run, NEW s, IsLate(run.row, s), RunTypeOK(run)
    PROVE  LET on == Advance(t, run, s)
           IN  /\ on.row = run.row
               /\ on.occurrences = run.occurrences
               /\ on.outcomes = run.outcomes \cup {"IGNORED_LATE_OR_EQUAL"}
               /\ on.reasons = run.reasons
<1>1. EvaluateTransition(t, run.row, s) = LateTransition(run.row)
  BY DEF EvaluateTransition
<1> QED
  BY <1>1 DEF Advance, LateTransition, Transition, Persists, WithOccurrence

(* The row of a run over no samples is none.                               *)
LEMMA ReceiptBegins ==
    ASSUME NEW t, NEW start, NEW end
    PROVE  ReceiptInv(t, <<>>, Begun, start, end)
<1>1. /\ Begun.row = DefaultState /\ Begun.occurrences = <<>>
      /\ Begun.outcomes = {} /\ Begun.reasons = {}
      /\ DefaultState.last_observed_at = None
      /\ DefaultState.qualifying_started_at = None
      /\ DefaultState.state = "NORMAL"
  BY DEF Begun, DefaultState, Row
<1>2. RunTypeOK(Begun)
  BY <1>1, EmptySeq DEF RunTypeOK
<1>3. Seen(<<>>, start, end) = {}
  BY DEF Seen
<1>4. CountersSpeak(t, Begun, {})
  BY <1>1 DEF CountersSpeak
<1> QED
  BY <1>1, <1>2, <1>3, <1>4 DEF ReceiptInv, RowExists

(* Every sample received keeps it: one case for a sample out of the        *)
(* window, for a late one and for one that moves the run on.               *)
LEMMA ReceiptGoesOn ==
    ASSUME NEW t, NEW H \in Seq(Sample), NEW s \in Sample, NEW J, Prolongs(J, H, s),
           NEW start, NEW end, NEW run, ReceiptInv(t, H, run, start, end)
    PROVE  ReceiptInv(t, J, Onward(t, run, s, start, end), start, end)
<1> DEFINE n  == Len(H)
           on == Onward(t, run, s, start, end)
           In(i) == InWindow(H[i], start, end)
           last == run.row.last_observed_at
<1>1. /\ n \in Nat /\ Len(J) = n + 1 /\ J[n+1] = s
      /\ s.observed_at \in Nat /\ s.observed_at # None
      /\ \A i \in 1..n : J[i] = H[i] /\ H[i].observed_at \in Nat
      /\ \A i \in 1..(n+1) : i \in 1..n \/ i = n + 1
      /\ \A i \in 1..n : i \in 1..(n+1)
      /\ n + 1 \in 1..(n+1)
  BY SampleAssumption, NoneAssumption, ElementOfSeq, LenProperties DEF Prolongs
<1>2. /\ RunTypeOK(run)
      /\ last \in Nat \cup {None}
      /\ \A i \in 1..n : In(i) => RowExists(run.row) /\ H[i].observed_at <= last
      /\ RowExists(run.row) =>
           run.outcomes # {} /\ \E i \in 1..n : In(i) /\ H[i].observed_at = last
      /\ CountersSpeak(t, run, Seen(H, start, end))
  BY DEF ReceiptInv, RunTypeOK
<1>3. Seen(J, start, end) = IF NewInWindow(J, Len(J), start, end)
                            THEN Seen(H, start, end) \cup {s}
                            ELSE Seen(H, start, end)
  BY SeenNow
<1>4. CASE ~InWindow(s, start, end)
  <2>1. on = run
    BY <1>4 DEF Onward
  <2>2. ~NewInWindow(J, Len(J), start, end)
    BY <1>1, <1>4 DEF NewInWindow
  <2> HIDE DEF n, on
  <2> QED
    BY <1>1, <1>2, <1>3, <1>4, <2>1, <2>2 DEF ReceiptInv, on
<1>5. CASE InWindow(s, start, end) /\ IsLate(run.row, s)
  <2>1. /\ on.row = run.row
        /\ on.occurrences = run.occurrences
        /\ on.outcomes = run.outcomes \cup {"IGNORED_LATE_OR_EQUAL"}
        /\ on.reasons = run.reasons
    BY <1>2, <1>5, LateAdvance DEF Onward
  <2>2. Seen(J, start, end) = Seen(H, start, end)
    BY <1>3, <1>5, NewIsNotLate
  <2>3. RowExists(run.row) /\ s.observed_at <= last
    BY <1>5 DEF IsLate
  <2> HIDE DEF n, on
  <2>4. RunTypeOK(on)
    BY <1>2, <2>1 DEF RunTypeOK
  <2>5. CountersSpeak(t, on, Seen(J, start, end))
    <3>1. run.outcomes # {}
      BY <1>2, <2>3
    <3> QED
      BY <1>2, <2>1, <2>2, <3>1 DEF CountersSpeak
  <2> QED
    BY <1>1, <1>2, <2>1, <2>3, <2>4, <2>5 DEF ReceiptInv, on
<1>6. CASE InWindow(s, start, end) /\ ~IsLate(run.row, s)
  <2>1. on = Advance(t, run, s)
    BY <1>6 DEF Onward
  <2>2. RunTypeOK(on)
    BY <1>1, <1>2, <1>6, <2>1, RunKeepsTypes
  <2>3. CountersSpeak(t, on, Seen(J, start, end))
    <3>1. Seen(J, start, end) = Seen(H, start, end) \cup {s}
      BY <1>3, <1>6, NewIsNotLate
    <3> QED
      BY <1>1, <1>2, <1>6, <2>1, <3>1, CountersGoOn
  <2>4. on.row.last_observed_at = s.observed_at /\ on.outcomes # {}
    <3>1. PICK tr : tr = EvaluateTransition(t, run.row, s)
      OBVIOUS
    <3>2. on.row = tr.row /\ on.outcomes = run.outcomes \cup {tr.outcome}
      BY <1>1, <1>2, <1>6, <2>1, <3>1, AdvanceFields
    <3>3. tr.row.last_observed_at = s.observed_at
      BY <1>1, <1>2, <1>6, <3>1, TransitionMovesOn DEF RunTypeOK
    <3> QED
      BY <3>2, <3>3
  <2>5. RowExists(on.row)
    BY <1>1, <2>4 DEF RowExists
  <2>6. \A i \in 1..n : In(i) => H[i].observed_at <= s.observed_at
    <3>1. RowExists(run.row) => last \in Nat /\ last < s.observed_at
      BY <1>1, <1>2, <1>6 DEF IsLate, RowExists
    <3> HIDE DEF n, last, In
    <3> QED
      BY <1>1, <1>2, <3>1
  <2> HIDE DEF n, on
  <2> QED
    BY <1>1, <1>6, <2>2, <2>3, <2>4, <2>5, <2>6 DEF ReceiptInv, on
<1> QED
  BY <1>4, <1>5, <1>6

-----------------------------------------------------------------------------
(* What a comparable list has in common with the trail.                    *)

(* A list that is comparable was so before its last sample.                *)
LEMMA ComparableOfPrefix ==
    ASSUME NEW H, NEW s, NEW J, Prolongs(J, H, s), NEW start, NEW end,
           Comparable(J, start, end)
    PROVE  Comparable(H, start, end)
<1> SUFFICES ASSUME NEW i \in 1..Len(H), NewInWindow(H, i, start, end)
             PROVE  \A j \in 1..(i-1) : H[j].observed_at <= end
  BY DEF Comparable
<1>1. i \in 1..Len(J) /\ \A j \in 1..(i-1) : J[j] = H[j]
  BY DEF Prolongs
<1>2. NewInWindow(J, i, start, end)
  BY NewOfPrefix
<1> QED
  BY <1>1, <1>2 DEF Comparable

(* Two runs with the same findings have the same after one more sample.    *)
LEMMA SameOnward ==
    ASSUME NEW t, NEW run, NEW other, SameFindings(run, other),
           NEW s, NEW start, NEW end
    PROVE  SameFindings(Onward(t, run, s, start, end), Onward(t, other, s, start, end))
BY DEF SameFindings, Onward, Advance

(* A sample that is late for the evaluator does not move a comparable run: *)
(* whatever made it late lies no later than the window's end, therefore in *)
(* the window, and the run has taken that too.                             *)
LEMMA LateForBoth ==
    ASSUME NEW t, NEW H, NEW s \in Sample, NEW J, Prolongs(J, H, s),
           NEW start \in Nat, NEW end \in Nat,
           NEW run, ReceiptInv(t, H, run, start, end),
           NEW st, ReachesCheckpoint(H, st), IsLate(st, s),
           st.last_observed_at \in Nat \cup {None},
           Comparable(J, start, end)
    PROVE  SameFindings(Onward(t, run, s, start, end), run)
<1>1. CASE ~InWindow(s, start, end)
  BY <1>1 DEF Onward, SameFindings
<1>2. CASE InWindow(s, start, end) /\ IsLate(run.row, s)
  BY <1>2, LateAdvance DEF Onward, SameFindings, ReceiptInv
<1>3. CASE InWindow(s, start, end) /\ ~IsLate(run.row, s)
  <2>1. H \in Seq(Sample) /\ NewInWindow(J, Len(J), start, end)
    BY <1>3, NewIsNotLate DEF ReachesCheckpoint
  <2>2. PICK i \in 1..Len(H) : H[i].observed_at = st.last_observed_at
    BY DEF ReachesCheckpoint, IsLate
  <2>3. /\ i \in 1..(Len(J) - 1) /\ J[i] = H[i] /\ Len(J) \in 1..Len(J)
        /\ s.observed_at \in Nat /\ st.last_observed_at \in Nat
        /\ s.observed_at <= st.last_observed_at
    BY SampleAssumption DEF Prolongs, IsLate, RowExists
  <2>4. H[i].observed_at <= end
    BY <2>1, <2>3 DEF Comparable
  <2>5. InWindow(H[i], start, end)
    BY <1>3, <2>2, <2>3, <2>4 DEF InWindow
  <2>6. /\ RowExists(run.row) /\ H[i].observed_at <= run.row.last_observed_at
        /\ run.row.last_observed_at \in Nat \cup {None}
    BY <2>5 DEF ReceiptInv, RunTypeOK
  <2>7. IsLate(run.row, s)
    BY <2>2, <2>3, <2>6 DEF IsLate, RowExists
  <2> QED
    BY <1>3, <2>7
<1> QED
  BY <1>1, <1>2, <1>3

(* A sample received moves the checkpoint to the newest time received.     *)
LEMMA ReachesOnward ==
    ASSUME NEW H, NEW s \in Sample, NEW st, ReachesCheckpoint(H, st),
           st.last_observed_at \in Nat \cup {None},
           NEW after, \/ IsLate(st, s) /\ after = st
                      \/ ~IsLate(st, s) /\ after.last_observed_at = s.observed_at
    PROVE  ReachesCheckpoint(Append(H, s), after)
<1> DEFINE J == Append(H, s)
           n == Len(H)
<1>1. /\ H \in Seq(Sample) /\ J \in Seq(Sample) /\ n \in Nat /\ Len(J) = n + 1
      /\ J[n+1] = s /\ s.observed_at \in Nat /\ s.observed_at # None
      /\ \A i \in 1..n : J[i] = H[i] /\ H[i].observed_at \in Nat
      /\ \A i \in 1..(n+1) : i \in 1..n \/ i = n + 1
      /\ \A i \in 1..n : i \in 1..(n+1)
      /\ n + 1 \in 1..(n+1)
  BY AppendProperties, ElementOfSeq, LenProperties, SampleAssumption, NoneAssumption
     DEF ReachesCheckpoint
<1>2. /\ \A i \in 1..n : RowExists(st) /\ H[i].observed_at <= st.last_observed_at
      /\ RowExists(st) => \E i \in 1..n : H[i].observed_at = st.last_observed_at
  BY DEF ReachesCheckpoint
<1> HIDE DEF J, n
<1>3. CASE IsLate(st, s) /\ after = st
  <2>1. RowExists(st) /\ s.observed_at <= st.last_observed_at
    BY <1>3 DEF IsLate
  <2> QED
    BY <1>1, <1>2, <1>3, <2>1 DEF ReachesCheckpoint, J
<1>4. CASE ~IsLate(st, s) /\ after.last_observed_at = s.observed_at
  <2>1. RowExists(after)
    BY <1>1, <1>4 DEF RowExists
  <2>2. \A i \in 1..n : H[i].observed_at <= s.observed_at
    <3>1. RowExists(st) => st.last_observed_at \in Nat /\ st.last_observed_at < s.observed_at
      BY <1>1, <1>4 DEF IsLate, RowExists
    <3> QED
      BY <1>1, <1>2, <3>1
  <2> QED
    BY <1>1, <1>4, <2>1, <2>2 DEF ReachesCheckpoint, J
<1> QED
  BY <1>3, <1>4

-----------------------------------------------------------------------------
(* The invariant of every run over everything received.                    *)

(* Nothing has been received: at the start and after a reset.              *)
LEMMA NothingReceived ==
    ASSUME states = Empty.states, trail = Empty.issues, received = Empty.issues
    PROVE  BacktestInv
<1>1. /\ DOMAIN received = Targets
      /\ \A t \in Targets : /\ states[t] = DefaultState
                            /\ trail[t] = <<>> /\ received[t] = <<>>
  BY DEF Empty
<1>2. ReachesCheckpoint(<<>>, DefaultState)
  BY EmptySeq DEF ReachesCheckpoint, DefaultState, Row, RowExists
<1>3. ASSUME NEW t \in Targets, NEW w \in Windows
      PROVE  LET run == Simulate(t, received[t], w[1], w[2])
             IN  /\ ReceiptInv(t, received[t], run, w[1], w[2])
                 /\ SameFindings(run, Simulate(t, trail[t], w[1], w[2]))
  <2>1. Simulate(t, <<>>, w[1], w[2]) = Begun
    BY RunOfNothing
  <2> QED
    BY <1>1, <2>1, ReceiptBegins DEF SameFindings
<1> QED
  BY <1>1, <1>2, <1>3 DEF BacktestInv

(* Every delivery keeps it.                                                *)
LEMMA DeliveryKeepsRuns ==
    ASSUME EvaluatorInv, CheckpointIsNewest, BacktestInv,
           NEW t \in Targets, NEW s \in Sample, Deliver(t, s)
    PROVE  BacktestInv'
<1> DEFINE H == received[t]
           J == Append(H, s)
           T == trail[t]
           U == Append(T, s)
<1>1. /\ received' = [received EXCEPT ![t] = J] /\ EvaluateSample(t, s)
      /\ DOMAIN received = Targets
      /\ \A u \in Targets : ReachesCheckpoint(received[u], states[u])
  BY DEF Deliver, BacktestInv
<1>2. \/ /\ IsLate(states[t], s)
         /\ trail'[t] = T /\ states'[t] = states[t]
      \/ /\ ~IsLate(states[t], s)
         /\ trail'[t] = U /\ states'[t].last_observed_at = s.observed_at
  BY <1>1, StepCheckpoint
<1>3. /\ states[t].last_observed_at \in Nat \cup {None}
      /\ H \in Seq(Sample) /\ T \in Seq(Sample)
  BY <1>1 DEF ReachesCheckpoint, EvaluatorInv, TypeOK, RowType
<1>4. /\ DOMAIN received' = Targets /\ received'[t] = J
      /\ \A u \in Targets \ {t} : /\ received'[u] = received[u]
                                  /\ trail'[u] = trail[u] /\ states'[u] = states[u]
  BY <1>1 DEF EvaluateSample, EvaluatorInv, TypeOK
<1>5. Prolongs(J, H, s) /\ Prolongs(U, T, s)
  BY <1>3, AppendProlongs
<1> HIDE DEF H, J, T, U
<1>6. ReachesCheckpoint(J, states'[t])
  BY <1>1, <1>2, <1>3, ReachesOnward DEF H, J
<1>7. ASSUME NEW w \in Windows
      PROVE  LET run == Simulate(t, J, w[1], w[2])
             IN  /\ ReceiptInv(t, J, run, w[1], w[2])
                 /\ Comparable(J, w[1], w[2]) =>
                      SameFindings(run, Simulate(t, trail'[t], w[1], w[2]))
  <2> DEFINE start == w[1]
             end   == w[2]
             run   == Simulate(t, H, start, end)
             ideal == Simulate(t, T, start, end)
             on    == Onward(t, run, s, start, end)
  <2>1. start \in Nat /\ end \in Nat
    BY WindowBounds
  <2>2. /\ ReceiptInv(t, H, run, start, end)
        /\ Comparable(H, start, end) => SameFindings(run, ideal)
    BY DEF BacktestInv, H, T
  <2>3. Simulate(t, J, start, end) = on
    BY <1>5, RunMovesOn
  <2>4. Simulate(t, U, start, end) = Onward(t, ideal, s, start, end)
    BY <1>5, RunMovesOn
  <2> HIDE DEF start, end, run, ideal, on
  <2>5. ReceiptInv(t, J, on, start, end)
    BY <1>3, <1>5, <2>2, ReceiptGoesOn DEF on
  <2>6. ASSUME Comparable(J, start, end)
        PROVE  SameFindings(on, Simulate(t, trail'[t], start, end))
    <3>1. SameFindings(run, ideal)
      BY <1>5, <2>2, <2>6, ComparableOfPrefix
    <3>2. CASE IsLate(states[t], s) /\ trail'[t] = T
      <4>1. SameFindings(on, run)
        <5>1. ReachesCheckpoint(H, states[t])
          BY <1>1 DEF H
        <5> QED
          BY <1>3, <1>5, <2>1, <2>2, <2>6, <3>2, <5>1, LateForBoth DEF on
      <4> QED
        BY <3>1, <3>2, <4>1 DEF SameFindings, ideal
    <3>3. CASE trail'[t] = U
      BY <2>4, <3>1, <3>3, SameOnward DEF on
    <3> QED
      BY <1>2, <3>2, <3>3
  <2> QED
    BY <2>3, <2>5, <2>6 DEF start, end
<1>8. ASSUME NEW u \in Targets, NEW w \in Windows
      PROVE  LET run == Simulate(u, received'[u], w[1], w[2])
             IN  /\ ReceiptInv(u, received'[u], run, w[1], w[2])
                 /\ Comparable(received'[u], w[1], w[2]) =>
                      SameFindings(run, Simulate(u, trail'[u], w[1], w[2]))
  <2>1. CASE u = t
    BY <1>4, <1>7, <2>1
  <2>2. CASE u # t
    BY <1>4, <2>2 DEF BacktestInv
  <2> QED
    BY <2>1, <2>2
<1>9. \A u \in Targets : ReachesCheckpoint(received'[u], states'[u])
  BY <1>1, <1>4, <1>6
<1> QED
  BY <1>4, <1>8, <1>9 DEF BacktestInv, Windows, Times

(* The evaluator and the list of what it has received never do more than   *)
(* the evaluator alone.                                                    *)
THEOREM BacktestEvaluates == BacktestSpec => EvaluatorSpec
<1>1. BacktestInit => EvaluatorInit
  BY DEF BacktestInit
<1>2. [BacktestNext]_<<vars, received>> => [EvaluatorNext]_vars
  BY DEF BacktestNext, Deliver, StartOver, EvaluatorNext
<1> QED
  BY <1>1, <1>2, PTL DEF BacktestSpec, EvaluatorSpec

(* Every run over what was received is, at every moment, that of the       *)
(* newest sample in its window, and finds what a run over the trail finds  *)
(* as long as the two are comparable (_simulate).                          *)
THEOREM ReceiptsKeepStep == BacktestSpec => []BacktestInv
<1>1. BacktestInit => BacktestInv
  BY NothingReceived DEF BacktestInit, EvaluatorInit
<1>2. EvaluatorInv /\ CheckpointIsNewest /\ BacktestInv
        /\ [BacktestNext]_<<vars, received>> => BacktestInv'
  <2> SUFFICES ASSUME EvaluatorInv, CheckpointIsNewest, BacktestInv,
                      [BacktestNext]_<<vars, received>>
               PROVE  BacktestInv'
    OBVIOUS
  <2>1. ASSUME NEW t \in Targets, NEW s \in Sample, Deliver(t, s)
        PROVE  BacktestInv'
    BY <2>1, DeliveryKeepsRuns
  <2>2. CASE StartOver
    <3>1. /\ states' = Empty.states /\ trail' = Empty.issues
          /\ received' = Empty.issues
      BY <2>2 DEF StartOver, ResetEvaluation
    <3>2. /\ DOMAIN received' = Targets
          /\ \A t \in Targets : /\ states'[t] = DefaultState
                                /\ trail'[t] = <<>> /\ received'[t] = <<>>
      BY <3>1 DEF Empty
    <3>3. ReachesCheckpoint(<<>>, DefaultState)
      BY EmptySeq DEF ReachesCheckpoint, DefaultState, Row, RowExists
    <3>4. ASSUME NEW t \in Targets, NEW w \in Windows
          PROVE  LET run == Simulate(t, received'[t], w[1], w[2])
                 IN  /\ ReceiptInv(t, received'[t], run, w[1], w[2])
                     /\ SameFindings(run, Simulate(t, trail'[t], w[1], w[2]))
      <4>1. Simulate(t, <<>>, w[1], w[2]) = Begun
        BY RunOfNothing
      <4> QED
        BY <3>2, <4>1, ReceiptBegins DEF SameFindings
    <3> QED
      BY <3>2, <3>3, <3>4 DEF BacktestInv, Windows, Times
  <2>3. CASE UNCHANGED <<vars, received>>
    BY <2>3 DEF vars, BacktestInv, Windows, Times
  <2> QED
    BY <2>1, <2>2, <2>3 DEF BacktestNext
<1>3. BacktestSpec => []EvaluatorInv /\ []CheckpointIsNewest
  BY BacktestEvaluates, InvariantHolds, CheckpointNewest, PTL
<1> QED
  BY <1>1, <1>2, <1>3, PTL DEF BacktestSpec

(* A backtest over a window that begins quietly finds the issues that the  *)
(* evaluator raised in it, no more and no fewer, with their times,         *)
(* whatever late samples it reads, unless it takes one that was late for   *)
(* the evaluator because of a sample from beyond the window.               *)
THEOREM BacktestAgrees == BacktestSpec => []BacktestFindsTheIssues
<1>1. BacktestInv /\ TrailRunsInv => BacktestFindsTheIssues
  <2> SUFFICES ASSUME BacktestInv, TrailRunsInv,
                      NEW t \in Targets, NEW w \in Windows,
                      QuietBefore(t, trail[t], w[1]),
                      Comparable(received[t], w[1], w[2])
               PROVE  FindsThose(Simulate(t, received[t], w[1], w[2]).occurrences,
                                 FaultsOf(issues[t]), w[1], w[2])
    BY DEF BacktestFindsTheIssues
  <2>1. Simulate(t, received[t], w[1], w[2]).occurrences
          = Simulate(t, trail[t], w[1], w[2]).occurrences
    BY DEF BacktestInv, SameFindings
  <2>2. FindsThose(Simulate(t, trail[t], w[1], w[2]).occurrences,
                   FaultsOf(issues[t]), w[1], w[2])
    BY DEF TrailRunsInv, RunInv
  <2> QED
    BY <2>1, <2>2
<1> QED
  BY <1>1, RunsKeepStep, ReceiptsKeepStep, BacktestEvaluates, PTL

(* The reason a run gives for finding nothing is the strongest one that is *)
(* true of the samples in its window, in whatever order they were received *)
(* (NonTriggerReason).                                                     *)
THEOREM ReasonsAreTrue == BacktestSpec => []NonTriggerReasonIsTrue
<1>1. ASSUME NEW t, NEW run, NEW seen, CountersSpeak(t, run, seen),
             run.occurrences = <<>>
      PROVE  NonTriggerReason(run) = TrueReason(t, seen)
  BY <1>1 DEF CountersSpeak, NonTriggerReason, TrueReason
<1>2. BacktestInv => NonTriggerReasonIsTrue
  BY <1>1 DEF BacktestInv, NonTriggerReasonIsTrue, ReceiptInv
<1> QED
  BY <1>2, ReceiptsKeepStep, PTL
=============================================================================
