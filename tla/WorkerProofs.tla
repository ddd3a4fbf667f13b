----------------------------- MODULE WorkerProofs -----------------------------
(***************************************************************************)
(* Proofs about Worker for any events and bounds.  The first part holds    *)
(* for any number of workers that run at the same time: what is computed   *)
(* from a stale row is still an honest row and a proven issue, a row that  *)
(* is OPEN has its issue, and an orphaned issue stays.  The second         *)
(* part is about workers that run one at a time, as scripts/demo.sh makes  *)
(* them: they implement Evaluator, and a finished poll is a replay.        *)
(***************************************************************************)
EXTENDS Worker, ContractProofs

-----------------------------------------------------------------------------
(* The inductive invariants: for any number of workers, for one worker at  *)
(* a time, and for what its polls have replayed.                           *)

(* What no number of workers can break.  The rows a worker loaded, like    *)
(* those of the table, are honest windows, however stale they are; issues  *)
(* are numbered densely, prove themselves, and one at most is open.        *)
HonestRow(t, st) == st \in RowType(t) /\ HonestWindow(t, st)

SoundIssues(t, list) ==
    /\ list \in Seq(IssueType(t))
    /\ \A i \in DOMAIN list : list[i].occurrence = i /\ Proven(t, list[i])
    /\ \A i, k \in DOMAIN list : IsOpen(list[i]) /\ IsOpen(list[k]) => i = k

(* The inductive invariant of the proofs, for any number of workers.       *)
WorkerInv ==
    /\ WorkerTypeOK
    /\ DOMAIN pc = Workers /\ DOMAIN cursor = Workers
    /\ DOMAIN seen = Workers /\ DOMAIN loaded = Workers
    /\ DOMAIN states = Targets /\ DOMAIN issues = Targets
    /\ trail \in [Targets -> Seq(Sample)]
    /\ \A t \in Targets : HonestRow(t, states[t]) /\ SoundIssues(t, issues[t])
    /\ \A w \in Workers : InTransaction(w) => HonestRow(TargetOf(w), loaded[w])

(* One service, and one one-shot around which it is stopped.               *)
OneAtATime ==
    /\ StopFirst
    /\ \A v, w \in Services : v = w
    /\ \A v, w \in OneShots : v = w

(* Then a worker that runs runs alone, and the row it loaded is current.   *)
AloneInv ==
    /\ \A w \in OneShots : pc[w] # "stopped"
    /\ \A v, w \in Workers : Running(v) /\ Running(w) => v = w
    /\ \A w \in Workers : InTransaction(w) => loaded[w] = states[TargetOf(w)]

(* The first n events are behind target t: they alone moved it, and none   *)
(* of them would move it again.                                            *)
HasReplayed(t, n) ==
    /\ {trail[t][k] : k \in DOMAIN trail[t]} = NewestSamples(t, n)
    /\ \A p \in 1..n :
         events[p].target = t =>
             \E k \in DOMAIN trail[t] :
                 events[p].sample.observed_at <= trail[t][k].observed_at

(* No worker is further than that, and those a reset may meet have not     *)
(* begun.                                                                  *)
ReplayInv ==
    /\ \E n \in 0..Len(events) :
         /\ \A t \in Targets : HasReplayed(t, n)
         /\ \A w \in Workers : cursor[w] <= n + 1
    /\ \A w \in Workers :
         /\ pc[w] \in {"stopped", "unlaunched"} => cursor[w] = 1 /\ seen[w] = 0
         /\ pc[w] \in {"idle", "done"} /\ seen[w] > 0 => cursor[w] = seen[w] + 1

-----------------------------------------------------------------------------
(* One transaction on a row of any age.                                    *)

(* A row that is not OPEN goes with an empty list of issues, so the lemmas *)
(* about one evaluate_sample apply to it whatever the issue table holds.   *)
LEMMA PlainRow ==
    ASSUME NEW t \in Targets, NEW st, HonestRow(t, st), st.state # "OPEN"
    PROVE  TargetInv(t, st, <<>>)
<1>1. <<>> \in Seq(IssueType(t)) /\ DOMAIN <<>> = {}
  BY EmptySeq
<1> QED
  BY <1>1 DEF HonestRow, TargetInv, OpenTogether, Disjoint, BehindCheckpoint

(* The row evaluate_sample saves is honest if the row it loaded is.        *)
LEMMA RowStaysHonest ==
    ASSUME NEW t \in Targets, NEW s \in Sample, NEW st, HonestRow(t, st)
    PROVE  HonestRow(t, RowAfter(t, st, s))
<1>1. CASE st.state # "OPEN"
  <2>1. TargetInv(t, RowAfter(t, st, s), IssuesAfter(t, st, <<>>, s))
    BY <1>1, PlainRow, SampleKeepsInv
  <2> QED
    BY <2>1 DEF TargetInv, HonestRow
<1>2. CASE st.state = "OPEN"
  <2>1. CASE IsLate(st, s)
    BY <2>1, LateCase
  <2>2. CASE ~IsLate(st, s) /\ ~Trustworthy(t, s)
    BY <1>2, <2>2, UntrustedCase, EmptyWindowRow DEF HonestRow
  <2>3. CASE ~IsLate(st, s) /\ Recovers(t, s)
    BY <1>2, <2>3, RecoveryCase, EmptyWindowRow DEF HonestRow
  <2>4. CASE ~IsLate(st, s) /\ Faulty(t, s)
    BY <1>2, <2>4, RemainsOpenCase, EmptyWindowRow DEF HonestRow
  <2> QED
    BY <2>1, <2>2, <2>3, <2>4 DEF Faulty, Recovers
<1> QED
  BY <1>1, <1>2

(* evaluate_sample computes an issue from the row it has loaded, not from  *)
(* the issues there are.                                                   *)
OpensOn(t, s, st) ==
    /\ ~IsLate(st, s) /\ Faulty(t, s)
    /\ st.state = "QUALIFYING" /\ ~BreaksContinuity(t, st, s)
    /\ s.observed_at - st.qualifying_started_at >= Duration[t][s.property]

ClosesOn(t, s, st) == ~IsLate(st, s) /\ Recovers(t, s) /\ st.state = "OPEN"

(* Whatever else a sample does, it leaves the issues alone.                *)
LEMMA OtherwiseNoIssue ==
    ASSUME NEW t \in Targets, NEW s \in Sample, NEW st, HonestRow(t, st),
           NEW list, ~OpensOn(t, s, st), ~ClosesOn(t, s, st)
    PROVE  IssuesAfter(t, st, list, s) = list
<1>1. st.state \in {"NORMAL", "QUALIFYING", "OPEN"}
  BY DEF HonestRow, RowType
<1>2. CASE IsLate(st, s)
  BY <1>2, LateCase
<1>3. CASE ~IsLate(st, s) /\ ~Trustworthy(t, s)
  BY <1>3, UntrustedCase
<1>4. CASE ~IsLate(st, s) /\ Recovers(t, s)
  BY <1>4, NonFaultCase DEF ClosesOn
<1>5. CASE ~IsLate(st, s) /\ Faulty(t, s)
  <2>1. CASE st.state = "OPEN"
    BY <1>5, <2>1, RemainsOpenCase
  <2>2. CASE st.state # "OPEN"
    <3>1. Arrival(t, s, st, <<>>)
      BY <2>2, PlainRow DEF Arrival
    <3>2. CASE st.state = "NORMAL" \/ BreaksContinuity(t, st, s)
      <4>1. EvaluateTransition(t, st, s).issue_action = "NONE"
        <5>1. EvaluateTransition(t, st, s) =
                Transition("QUALIFYING",
                           Row("QUALIFYING", s.observed_at, s.observed_at,
                               <<SampleEvidence(t, s)>>),
                           "NONE", None, None)
          BY <1>5, <3>1, <3>2, WindowStartsTransition
        <5> QED
          BY <5>1 DEF Transition
      <4> QED
        BY <4>1 DEF IssuesAfter
    <3>3. CASE st.state = "QUALIFYING" /\ ~BreaksContinuity(t, st, s)
      <4>1. s.observed_at - st.qualifying_started_at < Duration[t][s.property]
        BY <1>5, <3>1, <3>3, QualifyingHasStart, SampleAssumption,
           LogicAssumption DEF OpensOn
      <4>2. EvaluateTransition(t, st, s).issue_action = "NONE"
        BY <1>5, <3>1, <3>3, <4>1, WindowGrowsTransition DEF Transition
      <4> QED
        BY <4>2 DEF IssuesAfter
    <3> QED
      BY <1>1, <2>2, <3>2, <3>3
  <2> QED
    BY <2>1, <2>2
<1> QED
  BY <1>2, <1>3, <1>4, <1>5 DEF Faulty, Recovers

(* The issue a transaction opens is well typed and proves itself, and its  *)
(* number is the next one.                                                 *)
LEMMA OpenedIsProven ==
    ASSUME NEW t \in Targets, NEW s \in Sample, NEW st, HonestRow(t, st),
           OpensOn(t, s, st), NEW list, SoundIssues(t, list)
    PROVE  /\ EvaluateTransition(t, st, s).issue_action = "OPEN"
           /\ \E new \in IssueType(t) :
                /\ IssuesAfter(t, st, list, s) = Append(list, new)
                /\ new.occurrence = Len(list) + 1
                /\ Proven(t, new)
<1> DEFINE longer == Append(st.qualifying_evidence, SampleEvidence(t, s))
           Opened(k) == [ occurrence            |-> k,
                          status                |-> "OPEN",
                          property              |-> s.property,
                          qualifying_started_at |-> st.qualifying_started_at,
                          opened_at             |-> s.observed_at,
                          closed_at             |-> None,
                          samples               |-> longer,
                          recovery              |-> None ]
<1>1. Arrival(t, s, st, <<>>)
  BY PlainRow DEF Arrival, OpensOn
<1>2. EvaluateTransition(t, st, s) =
        Transition("OPENED", Row("OPEN", s.observed_at, None, <<>>),
                   "OPEN", st.qualifying_started_at, None)
  BY <1>1, IssueOpensTransition DEF OpensOn
<1>3. EvaluateTransition(t, st, s).issue_action = "OPEN"
  BY <1>2 DEF Transition
<1>4. \A l : IssuesAfter(t, st, l, s) = Append(l, Opened(NextOccurrence(l)))
  <2> TAKE l
  <2> DEFINE tr == EvaluateTransition(t, st, s)
  <2>1. /\ tr.issue_action = "OPEN"
        /\ tr.issue_started_at = st.qualifying_started_at
        /\ tr.row.last_observed_at = s.observed_at
    BY <1>2 DEF Transition, Row
  <2> HIDE DEF tr
  <2>2. IssuesAfter(t, st, l, s) = OpenIssue(l, s.property, st.qualifying_started_at,
                                             s.observed_at, longer)
    BY <2>1 DEF IssuesAfter, tr
  <2> QED
    BY <2>2 DEF OpenIssue
<1>5. PICK n : Opened(n) \in IssueType(t) /\ Proven(t, Opened(n))
  <2> DEFINE n == NextOccurrence(<<>>)
  <2>1. IssuesAfter(t, st, <<>>, s) = Append(<<>>, Opened(n))
    BY <1>4
  <2>2. TargetInv(t, RowAfter(t, st, s), Append(<<>>, Opened(n)))
    BY <1>1, <2>1, SampleKeepsInv DEF Arrival
  <2> HIDE DEF Opened, n
  <2>3. /\ DOMAIN Append(<<>>, Opened(n)) = {1}
        /\ Append(<<>>, Opened(n))[1] = Opened(n)
    OBVIOUS
  <2> QED
    BY <2>2, <2>3, ElementOfSeq DEF TargetInv
<1>6. Len(list) \in Nat /\ NextOccurrence(list) = Len(list) + 1
  BY NextOccurrenceOfDense, LenProperties DEF SoundIssues
<1>7. ASSUME NEW k \in Nat \ {0}
      PROVE  Opened(k) \in IssueType(t) /\ Proven(t, Opened(k))
  <2> DEFINE i == Opened(n)
             j == Opened(k)
  <2>1. /\ i.samples = j.samples /\ i.property = j.property
        /\ i.qualifying_started_at = j.qualifying_started_at
        /\ i.opened_at = j.opened_at
    OBVIOUS
  <2>2. j \in IssueType(t)
    BY <1>5 DEF IssueType
  <2>3. Proven(t, i)
    BY <1>5
  <2> HIDE DEF i, j
  <2>4. Proven(t, j)
    BY <2>1, <2>3 DEF Proven
  <2> QED
    BY <2>2, <2>4 DEF j
<1>8. /\ IssuesAfter(t, st, list, s) = Append(list, Opened(Len(list) + 1))
      /\ Opened(Len(list) + 1).occurrence = Len(list) + 1
      /\ Opened(Len(list) + 1) \in IssueType(t)
      /\ Proven(t, Opened(Len(list) + 1))
  BY <1>4, <1>6, <1>7
<1> QED
  BY <1>3, <1>8

(* A transaction leaves the issues of its target sound, whatever it loaded,*)
(* unless it would open an issue beside an open one: the case in which the *)
(* partial unique index refuses it.                                        *)
LEMMA IssuesStaySound ==
    ASSUME NEW t \in Targets, NEW s \in Sample, NEW st, HonestRow(t, st),
           NEW list, SoundIssues(t, list),
           EvaluateTransition(t, st, s).issue_action = "OPEN" =>
               \A i \in DOMAIN list : ~IsOpen(list[i])
    PROVE  SoundIssues(t, IssuesAfter(t, st, list, s))
<1> DEFINE n == Len(list)
<1>1. /\ list \in Seq(IssueType(t)) /\ n \in Nat /\ DOMAIN list = 1..n
      /\ \A i \in 1..n : list[i] \in IssueType(t)
  BY LenProperties, ElementOfSeq DEF SoundIssues
<1>2. CASE OpensOn(t, s, st)
  <2>1. PICK new \in IssueType(t) :
          /\ IssuesAfter(t, st, list, s) = Append(list, new)
          /\ new.occurrence = n + 1
          /\ Proven(t, new)
    BY <1>2, OpenedIsProven
  <2> DEFINE after == Append(list, new)
  <2>2. \A i \in 1..n : ~IsOpen(list[i])
    BY <1>1, <1>2, OpenedIsProven
  <2>3. /\ after \in Seq(IssueType(t)) /\ DOMAIN after = 1..(n + 1)
        /\ \A i \in 1..n : after[i] = list[i]
        /\ after[n + 1] = new
    BY <1>1, AppendProperties, LenProperties
  <2> HIDE DEF after, n
  <2>4. \A i \in 1..(n + 1) : after[i].occurrence = i /\ Proven(t, after[i])
    <3> TAKE i \in 1..(n + 1)
    <3>1. CASE i = n + 1
      BY <2>1, <2>3, <3>1
    <3>2. CASE i \in 1..n
      BY <1>1, <2>3, <3>2 DEF SoundIssues
    <3> QED
      BY <1>1, <3>1, <3>2
  <2>5. \A i \in 1..(n + 1) : IsOpen(after[i]) => i = n + 1
    BY <1>1, <2>2, <2>3
  <2>6. SoundIssues(t, after)
    BY <2>3, <2>4, <2>5 DEF SoundIssues
  <2> QED
    BY <2>1, <2>6 DEF after
<1>3. CASE ClosesOn(t, s, st)
  <2> DEFINE ev    == SampleEvidence(t, s)
             after == IssuesAfter(t, st, list, s)
  <2>1. after = [i \in 1..n |-> IF IsOpen(list[i]) THEN Closed(list[i], s, ev)
                                                   ELSE list[i]]
    <3>1. after = CloseIssue(list, s.observed_at, RecoveryReason(s), ev)
      BY <1>3, RecoveryCase DEF ClosesOn
    <3> HIDE DEF after, ev
    <3> QED
      BY <1>1, <3>1 DEF CloseIssue, Closed
  <2>2. /\ s.observed_at \in Nat /\ ev \in Evidence(t)
        /\ RecoveryReason(s) \in {"AHU_OFF", "CONDITION_CLEARED"}
    BY SampleAssumption DEF Evidence, RecoveryReason
  <2> HIDE DEF after, ev
  <2>3. ASSUME NEW i \in 1..n
        PROVE  LET c == Closed(list[i], s, ev)
               IN  /\ c \in IssueType(t) /\ ~IsOpen(c)
                   /\ c.occurrence = list[i].occurrence
                   /\ Proven(t, list[i]) => Proven(t, c)
    <3>1. list[i] \in IssueType(t)
      BY <1>1
    <3>2. PICK c : c = Closed(list[i], s, ev)
      OBVIOUS
    <3>3. c \in IssueType(t) /\ ~IsOpen(c)
      BY <2>2, <3>1, <3>2 DEF Closed, IssueType, RecoveryType, IsOpen
    <3>4. /\ c.occurrence = list[i].occurrence
          /\ c.samples = list[i].samples
          /\ c.property = list[i].property
          /\ c.qualifying_started_at = list[i].qualifying_started_at
          /\ c.opened_at = list[i].opened_at
      BY <3>1, <3>2 DEF Closed, IssueType
    <3> QED
      BY <3>2, <3>3, <3>4 DEF Proven
  <2>4. after \in Seq(IssueType(t)) /\ DOMAIN after = 1..n
    <3>1. after \in [1..n -> IssueType(t)]
      BY <1>1, <2>1, <2>3
    <3> QED
      BY <1>1, <3>1, IsASeq
  <2>5. \A i \in 1..n : ~IsOpen(after[i])
    BY <2>1, <2>3
  <2>6. \A i \in 1..n : after[i].occurrence = i /\ Proven(t, after[i])
    <3> TAKE i \in 1..n
    <3>1. list[i].occurrence = i /\ Proven(t, list[i])
      BY <1>1 DEF SoundIssues
    <3> QED
      BY <2>1, <2>3, <3>1
  <2> QED
    BY <2>4, <2>5, <2>6 DEF SoundIssues, after
<1>4. CASE ~OpensOn(t, s, st) /\ ~ClosesOn(t, s, st)
  BY <1>4, OtherwiseNoIssue
<1> QED
  BY <1>2, <1>3, <1>4

-----------------------------------------------------------------------------
(* The invariant of any number of workers.                                 *)

(* What the invariant says of one worker, and of the tables.               *)
InPlace(w) ==
    /\ pc[w] \in {"idle", "polling", "loaded", "stopped",
                  "unlaunched", "done", "failed"}
    /\ seen[w] \in 0..Len(events)
    /\ cursor[w] \in 1..(seen[w] + 1)
    /\ InTransaction(w) => cursor[w] <= seen[w]
    /\ loaded[w] \in RowType(IF InTransaction(w) THEN TargetOf(w)
                             ELSE CHOOSE t \in Targets : TRUE)
    /\ InTransaction(w) => HonestRow(TargetOf(w), loaded[w])

SoundTables ==
    /\ DOMAIN states = Targets /\ DOMAIN issues = Targets
    /\ trail \in [Targets -> Seq(Sample)]
    /\ \A t \in Targets : HonestRow(t, states[t]) /\ SoundIssues(t, issues[t])

WorkerDomains ==
    /\ DOMAIN pc = Workers /\ DOMAIN cursor = Workers
    /\ DOMAIN seen = Workers /\ DOMAIN loaded = Workers

EventList == events \in Seq([target : Targets, sample : Sample])

(* The invariant, taken apart.                                             *)
LEMMA InvParts ==
    WorkerInv <=> /\ EventList /\ stops \in 0..MaxStops
                  /\ WorkerDomains /\ SoundTables
                  /\ \A w \in Workers : InPlace(w)
BY DEF WorkerInv, WorkerTypeOK, EventList, WorkerDomains, SoundTables, InPlace

(* The same after a step.                                                  *)
LEMMA InvPartsAfter ==
    ASSUME EventList', (stops \in 0..MaxStops)',
           WorkerDomains', SoundTables',
           \A w \in Workers : InPlace(w)'
    PROVE  WorkerInv'
BY DEF WorkerInv, WorkerTypeOK, EventList, WorkerDomains, SoundTables, InPlace

(* An event that has been read is one of the list.                         *)
LEMMA EventAt ==
    ASSUME EventList, NEW i \in 1..Len(events)
    PROVE  events[i].target \in Targets /\ events[i].sample \in Sample
<1>1. events[i] \in [target : Targets, sample : Sample]
  BY ElementOfSeq DEF EventList
<1> QED
  BY <1>1

(* The event a transaction is about.                                       *)
LEMMA EventInTransaction ==
    ASSUME EventList, NEW w \in Workers, InPlace(w), InTransaction(w)
    PROVE  /\ cursor[w] \in 1..Len(events)
           /\ TargetOf(w) \in Targets
           /\ events[cursor[w]].sample \in Sample
<1>1. Len(events) \in Nat
  BY LenProperties DEF EventList
<1>2. cursor[w] \in 1..Len(events)
  BY <1>1 DEF InPlace
<1> QED
  BY <1>2, EventAt DEF TargetOf

(* The default row is an honest row of every target.                       *)
LEMMA DefaultIsHonest ==
    ASSUME NEW t
    PROVE  DefaultState \in RowType(t) /\ HonestRow(t, DefaultState)
<1>1. DefaultState \in RowType(t)
  BY EmptySeq DEF DefaultState, Row, RowType
<1>2. HonestWindow(t, DefaultState)
  BY DEF DefaultState, Row, HonestWindow
<1> QED
  BY <1>1, <1>2 DEF HonestRow

(* Empty tables are sound.                                                 *)
LEMMA EmptyIsSound ==
    ASSUME states = Empty.states, issues = Empty.issues, trail = Empty.issues
    PROVE  SoundTables
<1>1. \A t \in Targets : SoundIssues(t, <<>>)
  <2>1. DOMAIN <<>> = {}
    OBVIOUS
  <2> QED
    BY <2>1, EmptySeq DEF SoundIssues
<1>2. trail \in [Targets -> Seq(Sample)]
  BY EmptySeq DEF Empty
<1> QED
  BY <1>1, <1>2, DefaultIsHonest DEF SoundTables, Empty

(* The workers start with the invariant.                                   *)
LEMMA WorkerInitInv == WorkerInit => WorkerInv
<1> SUFFICES ASSUME WorkerInit PROVE WorkerInv
  OBVIOUS
<1>1. SoundTables
  BY EmptyIsSound DEF WorkerInit, EvaluatorInit
<1>2. EventList /\ Len(events) = 0
  BY EmptySeq DEF WorkerInit, EventList
<1>3. WorkerDomains /\ stops \in 0..MaxStops
  BY WorkerAssumption DEF WorkerInit, WorkerDomains
<1>4. ASSUME NEW w \in Workers PROVE InPlace(w)
  <2>1. pc[w] \in {"idle", "unlaunched"}
    BY DEF WorkerInit
  <2>2. cursor[w] = 1 /\ seen[w] = 0 /\ loaded[w] = DefaultState
    BY DEF WorkerInit
  <2> QED
    BY <1>2, <2>1, <2>2, DefaultIsHonest DEF InPlace, InTransaction
<1> QED
  BY <1>1, <1>2, <1>3, <1>4, InvParts

(* A step that moves worker w alone, to place a of its loop, place c of a   *)
(* list of n events, and with row l in its memory.                         *)
MovesTo(w, a, c, n, l) ==
    /\ WorkerDomains'
    /\ \A v \in Workers \ {w} :
         /\ pc'[v] = pc[v] /\ cursor'[v] = cursor[v]
         /\ seen'[v] = seen[v] /\ loaded'[v] = loaded[v]
    /\ pc'[w] = a /\ cursor'[w] = c /\ seen'[w] = n /\ loaded'[w] = l

(* If it is in place afterwards, so are the others.                        *)
LEMMA OneWorkerMoves ==
    ASSUME WorkerInv, NEW w \in Workers, events' = events,
           NEW a, NEW c, NEW n, NEW l, MovesTo(w, a, c, n, l),
           a \in {"idle", "polling", "loaded", "stopped",
                  "unlaunched", "done", "failed"},
           n \in 0..Len(events), c \in 1..(n + 1),
           a = "loaded" => c <= n /\ HonestRow(events[c].target, l),
           a # "loaded" => l \in RowType(CHOOSE t \in Targets : TRUE)
    PROVE  WorkerDomains' /\ \A v \in Workers : InPlace(v)'
<1>1. ASSUME NEW v \in Workers, v # w PROVE InPlace(v)'
  <2>1. /\ pc'[v] = pc[v] /\ cursor'[v] = cursor[v]
        /\ seen'[v] = seen[v] /\ loaded'[v] = loaded[v]
    BY <1>1 DEF MovesTo
  <2>2. InPlace(v)
    BY InvParts
  <2> QED
    BY <2>1, <2>2 DEF InPlace, InTransaction, TargetOf
<1>2. InPlace(w)'
  BY DEF MovesTo, InPlace, InTransaction, TargetOf, HonestRow
<1> QED
  BY <1>1, <1>2 DEF MovesTo

(* The row in the memory of a worker that is not in a transaction.         *)
LEMMA RowInHand ==
    ASSUME WorkerInv, NEW w \in Workers, ~InTransaction(w)
    PROVE  loaded[w] \in RowType(CHOOSE t \in Targets : TRUE)
BY InvParts DEF InPlace

(* A process that is gone holds nothing.                                   *)
LEMMA EndsMoves ==
    ASSUME WorkerInv, NEW w \in Workers, NEW a, Ends(w, a)
    PROVE  MovesTo(w, a, 1, 0, DefaultState)
BY InvParts DEF Ends, MovesTo, WorkerDomains

(* Accepting an event moves no worker.                                     *)
LEMMA AcceptKeepsPlaces ==
    ASSUME WorkerInv, NEW t \in Targets, NEW s \in Sample, Accept(t, s)
    PROVE  WorkerInv'
<1>1. /\ EventList /\ SoundTables /\ WorkerDomains
      /\ stops \in 0..MaxStops
      /\ \A w \in Workers : InPlace(w)
  BY InvParts
<1>2. PICK e : e = [target |-> t, sample |-> s]
  OBVIOUS
<1>3. events' = Append(events, e) /\ e \in [target : Targets, sample : Sample]
  BY <1>2 DEF Accept
<1>4. /\ EventList'
      /\ Len(events) \in Nat /\ Len(events') = Len(events) + 1
      /\ \A i \in 1..Len(events) : events'[i] = events[i]
  BY <1>1, <1>3, AppendProperties, LenProperties DEF EventList
<1>5. /\ pc' = pc /\ cursor' = cursor /\ seen' = seen /\ loaded' = loaded
      /\ stops' = stops
      /\ states' = states /\ issues' = issues /\ trail' = trail
  BY DEF Accept, processVars, vars
<1>6. ASSUME NEW w \in Workers PROVE InPlace(w)'
  <2>1. InPlace(w)
    BY <1>1
  <2>2. InTransaction(w) => TargetOf(w)' = TargetOf(w)
    BY <1>1, <1>4, <1>5, EventInTransaction DEF TargetOf
  <2>3. InTransaction(w)' <=> InTransaction(w)
    BY <1>5 DEF InTransaction
  <2>4. seen[w] \in 0..Len(events')
    BY <1>4, <2>1 DEF InPlace
  <2> QED
    BY <1>5, <2>1, <2>2, <2>3, <2>4 DEF InPlace, HonestRow
<1>7. SoundTables' /\ WorkerDomains'
  BY <1>1, <1>5 DEF SoundTables, WorkerDomains
<1> QED
  BY <1>1, <1>4, <1>5, <1>6, <1>7, InvPartsAfter

(* A worker that moves while the tables stand still.                       *)
LEMMA PlaceStep ==
    ASSUME WorkerInv, UNCHANGED <<vars, events>>,
           (stops \in 0..MaxStops)',
           WorkerDomains' /\ \A v \in Workers : InPlace(v)'
    PROVE  WorkerInv'
<1>1. EventList' /\ SoundTables'
  BY InvParts DEF EventList, SoundTables, vars
<1> QED
  BY <1>1, InvPartsAfter

(* _load_state puts an honest row in the worker's memory.                  *)
LEMMA LoadKeepsInv ==
    ASSUME WorkerInv, NEW w \in Workers, Load(w)
    PROVE  WorkerInv'
<1>1. /\ InPlace(w) /\ EventList /\ SoundTables /\ WorkerDomains
      /\ stops \in 0..MaxStops
  BY InvParts
<1>2. /\ cursor[w] \in 1..Len(events) /\ TargetOf(w) \in Targets
  <2>1. Len(events) \in Nat
    BY <1>1, LenProperties DEF EventList
  <2>2. cursor[w] \in 1..Len(events)
    BY <1>1, <2>1 DEF Load, InPlace
  <2> QED
    BY <1>1, <2>2, EventAt DEF TargetOf
<1>3. MovesTo(w, "loaded", cursor[w], seen[w], states[TargetOf(w)])
  BY <1>1 DEF Load, MovesTo, WorkerDomains
<1>4. HonestRow(TargetOf(w), states[TargetOf(w)])
  BY <1>1, <1>2 DEF SoundTables
<1>5. events' = events /\ UNCHANGED <<vars, events>> /\ stops' = stops
  BY DEF Load
<1>6. /\ seen[w] \in 0..Len(events) /\ cursor[w] \in 1..(seen[w] + 1)
      /\ cursor[w] <= seen[w]
  BY <1>1 DEF InPlace, Load
<1>7. WorkerDomains' /\ \A v \in Workers : InPlace(v)'
  BY <1>3, <1>4, <1>5, <1>6, OneWorkerMoves DEF TargetOf
<1> QED
  BY <1>1, <1>5, <1>7, PlaceStep

(* A poll that starts or ends, and a service that is started again.        *)
LEMMA PollKeepsInv ==
    ASSUME WorkerInv, NEW w \in Workers,
           StartPoll(w) \/ FinishPoll(w) \/ StartService(w)
    PROVE  WorkerInv'
<1>1. /\ InPlace(w) /\ EventList /\ WorkerDomains /\ stops \in 0..MaxStops
      /\ Len(events) \in Nat
  BY InvParts, LenProperties DEF EventList
<1>2. ~InTransaction(w) /\ loaded[w] \in RowType(CHOOSE t \in Targets : TRUE)
  <2>1. ~InTransaction(w)
    BY DEF StartPoll, FinishPoll, StartService, InTransaction
  <2> QED
    BY <2>1, RowInHand
<1>3. UNCHANGED <<vars, events>> /\ events' = events /\ stops' = stops
  BY DEF StartPoll, FinishPoll, StartService
<1>4. CASE StartPoll(w)
  <2>1. MovesTo(w, "polling", 1, Len(events), loaded[w])
    BY <1>1, <1>4 DEF StartPoll, MovesTo, WorkerDomains
  <2>2. WorkerDomains' /\ \A v \in Workers : InPlace(v)'
    BY <1>1, <1>2, <1>3, <2>1, OneWorkerMoves
  <2> QED
    BY <1>1, <1>3, <2>2, PlaceStep
<1>5. CASE FinishPoll(w) \/ StartService(w)
  <2>1. PICK a \in {"idle", "done"} :
          MovesTo(w, a, cursor[w], seen[w], loaded[w])
    <3>1. CASE FinishPoll(w)
      <4>1. MovesTo(w, IF w \in OneShots THEN "done" ELSE "idle",
                    cursor[w], seen[w], loaded[w])
        BY <1>1, <3>1 DEF FinishPoll, MovesTo, WorkerDomains
      <4> QED
        BY <4>1
    <3>2. CASE StartService(w)
      <4>1. MovesTo(w, "idle", cursor[w], seen[w], loaded[w])
        BY <1>1, <3>2 DEF StartService, MovesTo, WorkerDomains
      <4> QED
        BY <4>1
    <3> QED
      BY <1>5, <3>1, <3>2
  <2>2. /\ seen[w] \in 0..Len(events) /\ cursor[w] \in 1..(seen[w] + 1)
    BY <1>1 DEF InPlace
  <2>3. WorkerDomains' /\ \A v \in Workers : InPlace(v)'
    BY <1>2, <1>3, <2>1, <2>2, OneWorkerMoves
  <2> QED
    BY <1>1, <1>3, <2>3, PlaceStep
<1> QED
  BY <1>4, <1>5

(* A crash, an abort and a stop.                                           *)
LEMMA EndKeepsInv ==
    ASSUME WorkerInv, NEW w \in Workers,
           Crash(w) \/ Abort(w) \/ StopService(w)
    PROVE  WorkerInv'
<1>1. EventList /\ stops \in 0..MaxStops /\ Len(events) \in Nat
  BY InvParts, LenProperties DEF EventList
<1>2. PICK a \in {"idle", "failed", "stopped"} : Ends(w, a)
  BY DEF Crash, Abort, StopService
<1>3. MovesTo(w, a, 1, 0, DefaultState)
  BY <1>2, EndsMoves
<1>4. UNCHANGED <<vars, events>> /\ events' = events
  BY <1>2 DEF Ends
<1>5. stops' \in 0..MaxStops
  BY <1>1, WorkerAssumption DEF Crash, Abort, StopService
<1>6. WorkerDomains' /\ \A v \in Workers : InPlace(v)'
  <2>1. /\ a # "loaded"
        /\ a \in {"idle", "polling", "loaded", "stopped",
                  "unlaunched", "done", "failed"}
    OBVIOUS
  <2>2. 0 \in 0..Len(events) /\ 1 \in 1..(0 + 1)
    BY <1>1
  <2>3. DefaultState \in RowType(CHOOSE t \in Targets : TRUE)
    BY DefaultIsHonest
  <2> QED
    BY <1>3, <1>4, <2>1, <2>2, <2>3, OneWorkerMoves
<1> QED
  BY <1>4, <1>5, <1>6, PlaceStep

(* A commit writes an honest row and sound issues, whatever it loaded and  *)
(* whatever has become of the row since.                                   *)
LEMMA CommitKeepsInv ==
    ASSUME WorkerInv, NEW w \in Workers, Commit(w)
    PROVE  WorkerInv'
<1>1. /\ InPlace(w) /\ EventList /\ SoundTables /\ WorkerDomains
      /\ stops \in 0..MaxStops
  BY InvParts
<1>2. InTransaction(w) /\ events' = events /\ stops' = stops
  BY DEF Commit
<1>3a. PICK t \in Targets, s \in Sample :
        t = TargetOf(w) /\ s = events[cursor[w]].sample /\ HonestRow(t, loaded[w])
  BY <1>1, <1>2, EventInTransaction DEF InPlace
<1>3. PICK st : /\ t = TargetOf(w) /\ s = events[cursor[w]].sample /\ st = loaded[w]
                /\ HonestRow(t, st)
  BY <1>3a
<1>4. /\ issues' = [issues EXCEPT ![t] = IssuesAfter(t, st, issues[t], s)]
      /\ states' = [states EXCEPT ![t] =
                       IF Persists(EvaluateTransition(t, st, s))
                       THEN EvaluateTransition(t, st, s).row ELSE states[t]]
      /\ trail'  = [trail EXCEPT ![t] =
                       IF IsNewest(t, s) THEN Append(trail[t], s) ELSE trail[t]]
  BY <1>3 DEF Commit
<1>5. HonestRow(t, states'[t])
  <2>1. CASE Persists(EvaluateTransition(t, st, s))
    BY <1>1, <1>3, <1>4, <2>1, RowStaysHonest DEF SoundTables, RowAfter
  <2>2. CASE ~Persists(EvaluateTransition(t, st, s))
    BY <1>1, <1>4, <2>2 DEF SoundTables
  <2> QED
    BY <2>1, <2>2
<1>6. SoundIssues(t, issues'[t])
  <2>1. EvaluateTransition(t, st, s).issue_action = "OPEN" =>
            \A i \in DOMAIN issues[t] : ~IsOpen(issues[t][i])
    BY <1>3 DEF Commit, Refused
  <2>2. SoundIssues(t, IssuesAfter(t, st, issues[t], s))
    BY <1>1, <1>3, <2>1, IssuesStaySound DEF SoundTables
  <2> QED
    BY <1>1, <1>4, <2>2 DEF SoundTables
<1>7. trail' \in [Targets -> Seq(Sample)]
  <2>1. Append(trail[t], s) \in Seq(Sample)
    BY <1>1, AppendProperties DEF SoundTables
  <2> QED
    BY <1>1, <1>4, <2>1 DEF SoundTables
<1>8. SoundTables'
  <2>1. DOMAIN states' = Targets /\ DOMAIN issues' = Targets
    BY <1>1, <1>4 DEF SoundTables
  <2>2. \A u \in Targets : HonestRow(u, states'[u]) /\ SoundIssues(u, issues'[u])
    <3> TAKE u \in Targets
    <3>1. CASE u = t
      BY <1>5, <1>6, <3>1
    <3>2. CASE u # t
      BY <1>1, <1>4, <3>2 DEF SoundTables
    <3> QED
      BY <3>1, <3>2
  <2> QED
    BY <1>7, <2>1, <2>2 DEF SoundTables
<1>9. MovesTo(w, "polling", cursor[w] + 1, seen[w], DefaultState)
  BY <1>1 DEF Commit, MovesTo, WorkerDomains
<1>10. /\ seen[w] \in 0..Len(events)
       /\ cursor[w] + 1 \in 1..(seen[w] + 1)
  BY <1>1, <1>2 DEF InPlace
<1>11. WorkerDomains' /\ \A v \in Workers : InPlace(v)'
  BY <1>2, <1>9, <1>10, DefaultIsHonest, OneWorkerMoves
<1>12. EventList'
  BY <1>1, <1>2 DEF EventList
<1> QED
  BY <1>1, <1>2, <1>8, <1>11, <1>12, InvPartsAfter

(* The TRUNCATE of a one-shot.                                             *)
LEMMA ResetKeepsWorkerInv ==
    ASSUME WorkerInv, NEW w \in Workers, LaunchReset(w)
    PROVE  WorkerInv'
<1>1. /\ InPlace(w) /\ EventList /\ WorkerDomains /\ stops \in 0..MaxStops
  BY InvParts
<1>2. ResetEvaluation /\ events' = events /\ stops' = stops
  BY DEF LaunchReset
<1>3. SoundTables'
  <2>1. \A t \in Targets : SoundIssues(t, <<>>)
    <3>1. DOMAIN <<>> = {}
      OBVIOUS
    <3> QED
      BY <3>1, EmptySeq DEF SoundIssues
  <2>2. trail' \in [Targets -> Seq(Sample)]
    BY <1>2, EmptySeq DEF ResetEvaluation, Empty
  <2> QED
    BY <1>2, <2>1, <2>2, DefaultIsHonest DEF SoundTables, ResetEvaluation, Empty
<1>4. MovesTo(w, "idle", cursor[w], seen[w], loaded[w])
  BY <1>1 DEF LaunchReset, MovesTo, WorkerDomains
<1>5. loaded[w] \in RowType(CHOOSE t \in Targets : TRUE)
  BY RowInHand DEF LaunchReset, InTransaction
<1>6. seen[w] \in 0..Len(events) /\ cursor[w] \in 1..(seen[w] + 1)
  BY <1>1 DEF InPlace
<1>7. WorkerDomains' /\ \A v \in Workers : InPlace(v)'
  BY <1>2, <1>4, <1>5, <1>6, OneWorkerMoves
<1>8. EventList'
  BY <1>1, <1>2 DEF EventList
<1> QED
  BY <1>1, <1>2, <1>3, <1>7, <1>8, InvPartsAfter

(* A stuttering step.                                                      *)
LEMMA StutterKeepsWorkerInv ==
    ASSUME WorkerInv, UNCHANGED workerVars
    PROVE  WorkerInv'
<1>1. /\ states' = states /\ issues' = issues /\ trail' = trail
      /\ events' = events /\ pc' = pc /\ cursor' = cursor /\ seen' = seen
      /\ loaded' = loaded /\ stops' = stops
  BY DEF workerVars, vars, processVars
<1>2. EventList' /\ SoundTables' /\ WorkerDomains' /\ stops' \in 0..MaxStops
  BY <1>1, InvParts DEF EventList, SoundTables, WorkerDomains
<1>3. \A w \in Workers : InPlace(w)'
  BY <1>1, InvParts DEF InPlace, InTransaction, TargetOf
<1> QED
  BY <1>2, <1>3, InvPartsAfter

(* Every step preserves the invariant.                                     *)
LEMMA WorkerStepInv == WorkerInv /\ [WorkerNext]_workerVars => WorkerInv'
<1> SUFFICES ASSUME WorkerInv, [WorkerNext]_workerVars PROVE WorkerInv'
  OBVIOUS
<1>1. ASSUME NEW t \in Targets, NEW s \in Sample, Accept(t, s)
      PROVE  WorkerInv'
  BY <1>1, AcceptKeepsPlaces
<1>2. ASSUME NEW w \in Workers,
             StartPoll(w) \/ FinishPoll(w) \/ StartService(w)
      PROVE  WorkerInv'
  BY <1>2, PollKeepsInv
<1>3. ASSUME NEW w \in Workers, Load(w)
      PROVE  WorkerInv'
  BY <1>3, LoadKeepsInv
<1>4. ASSUME NEW w \in Workers, Commit(w)
      PROVE  WorkerInv'
  BY <1>4, CommitKeepsInv
<1>5. ASSUME NEW w \in Workers, Crash(w) \/ Abort(w) \/ StopService(w)
      PROVE  WorkerInv'
  BY <1>5, EndKeepsInv
<1>6. ASSUME NEW w \in Workers, LaunchReset(w)
      PROVE  WorkerInv'
  BY <1>6, ResetKeepsWorkerInv
<1>7. CASE UNCHANGED workerVars
  BY <1>7, StutterKeepsWorkerInv
<1> QED
  BY <1>1, <1>2, <1>3, <1>4, <1>5, <1>6, <1>7 DEF WorkerNext

(* Any number of workers, crashing, restarting and overwriting each        *)
(* other's rows, keep the invariant.                                       *)
THEOREM WorkerInvariant == WorkerSpec => []WorkerInv
BY WorkerInitInv, WorkerStepInv, PTL DEF WorkerSpec

(* A worker is somewhere in its loop, a poll never runs past its list, and *)
(* the row it holds is one of the target of its event.                     *)
THEOREM WorkerTyped == WorkerSpec => []WorkerTypeOK
<1>1. WorkerInv => WorkerTypeOK
  BY DEF WorkerInv
<1> QED
  BY <1>1, WorkerInvariant, PTL

(* A target never has two open issues, however many workers evaluate it.   *)
THEOREM OneIssueOpen == WorkerSpec => []OneOpenIssue
<1>1. WorkerInv => OneOpenIssue
  <2> SUFFICES ASSUME WorkerInv, NEW t \in Targets
               PROVE  Cardinality({i \in DOMAIN issues[t] : IsOpen(issues[t][i])}) <= 1
    BY DEF OneOpenIssue
  <2> DEFINE open == {i \in DOMAIN issues[t] : IsOpen(issues[t][i])}
  <2>1. \A i, k \in open : i = k
    BY DEF WorkerInv, SoundIssues
  <2>2. CASE open = {}
    BY <2>2, FS_EmptySet
  <2>3. CASE open # {}
    <3>1. PICK i : open = {i}
      BY <2>1, <2>3
    <3>2. Cardinality({i}) = 1
      BY FS_Singleton
    <3> HIDE DEF open
    <3> QED
      BY <3>1, <3>2 DEF open
  <2> QED
    BY <2>2, <2>3
<1> QED
  BY <1>1, WorkerInvariant, PTL

(* Whatever row an issue was computed from, it proves its own fault.       *)
THEOREM WorkersProveIssues == WorkerSpec => []EvidenceProvesIssue
<1>1. WorkerInv => EvidenceProvesIssue
  BY DEF WorkerInv, SoundIssues, EvidenceProvesIssue
<1> QED
  BY <1>1, WorkerInvariant, PTL

-----------------------------------------------------------------------------
(* Workers that overtake each other.                                       *)

(* A row that is not there is read as the default row.                     *)
AbsentIsDefault(st) == ~RowExists(st) => st = DefaultState

RowHasItsIssue(st, list) ==
    st.state = "OPEN" =>
        \E i \in DOMAIN list : /\ IsOpen(list[i])
                               /\ list[i].opened_at <= st.last_observed_at

EndsInOrder(list) ==
    \A i \in DOMAIN list :
        IF IsOpen(list[i]) THEN list[i].closed_at = None /\ i = Len(list)
                           ELSE list[i].opened_at < list[i].closed_at

KeepsRows(list, after) ==
    \A i \in DOMAIN list :
        i \in DOMAIN after /\ RowKeepsHistory(list[i], after[i])

Orphan(st, list) == st.state # "OPEN" /\ \E i \in DOMAIN list : IsOpen(list[i])

(* What a transaction makes of a row and its issues.                       *)
WrittenWell(st, list, row, after) ==
    /\ AbsentIsDefault(row) /\ RowHasItsIssue(row, after) /\ EndsInOrder(after)
    /\ KeepsRows(list, after)
    /\ Orphan(st, list) => row.state # "OPEN" /\ after = list

(* Sample s of target t meets the row st and its issues, and the worker    *)
(* has loaded the row held, which is st or the row of an earlier time when *)
(* there was none.  It is not refused.                                     *)
Overtaken(t, s, held, st, list) ==
    /\ t \in Targets /\ s \in Sample
    /\ HonestRow(t, held) /\ HonestRow(t, st) /\ SoundIssues(t, list)
    /\ held = st \/ held = DefaultState
    /\ AbsentIsDefault(st) /\ RowHasItsIssue(st, list) /\ EndsInOrder(list)
    /\ EvaluateTransition(t, held, s).issue_action = "OPEN" =>
           \A i \in DOMAIN list : ~IsOpen(list[i])

(* The row a commit leaves, which is the one it found if it saves none.    *)
RowLeft(t, s, held, st) ==
    IF Persists(EvaluateTransition(t, held, s))
    THEN EvaluateTransition(t, held, s).row ELSE st

(* Nothing changed is well written.                                        *)
LEMMA NothingWritten ==
    ASSUME NEW t, NEW s, NEW held, NEW st, NEW list,
           Overtaken(t, s, held, st, list)
    PROVE  WrittenWell(st, list, st, list)
BY DEF Overtaken, WrittenWell, KeepsRows, RowKeepsHistory, Orphan

(* A late sample saves nothing.                                            *)
LEMMA LateLeft ==
    ASSUME NEW t, NEW s, NEW held, NEW st, NEW list, IsLate(held, s)
    PROVE  /\ RowLeft(t, s, held, st) = st
           /\ IssuesAfter(t, held, list, s) = list
<1>1. EvaluateTransition(t, held, s) = LateTransition(held)
  BY DEF EvaluateTransition
<1>2. ~Persists(EvaluateTransition(t, held, s))
  BY <1>1 DEF LateTransition, Transition, Persists
<1> QED
  BY <1>2, LateCase DEF RowLeft

(* Any other sample saves a row with its own time.                         *)
LEMMA NewLeft ==
    ASSUME NEW t, NEW s, NEW held, NEW st, ~IsLate(held, s)
    PROVE  /\ RowLeft(t, s, held, st) = RowAfter(t, held, s)
           /\ RowAfter(t, held, s).last_observed_at = s.observed_at
<1> DEFINE cur == AfterGap(t, held, s)
           tr  == EvaluateTransition(t, held, s)
<1>1. \/ tr = UntrustedTransition(cur, s) \/ tr = NonFaultTransition(cur, s)
      \/ tr = RemainsOpenTransition(s) \/ tr = QualifyingTransition(t, cur, s)
  BY DEF EvaluateTransition
<1> HIDE DEF cur, tr
<1>2. Persists(tr) /\ tr.row.last_observed_at = s.observed_at
  <2>1. CASE tr = UntrustedTransition(cur, s)
    BY <2>1 DEF UntrustedTransition, Transition, Row, Persists
  <2>2. CASE tr = NonFaultTransition(cur, s)
    BY <2>2 DEF NonFaultTransition, Transition, Row, Persists
  <2>3. CASE tr = RemainsOpenTransition(s)
    BY <2>3 DEF RemainsOpenTransition, Transition, Row, Persists
  <2>4. CASE tr = QualifyingTransition(t, cur, s)
    BY <2>4 DEF QualifyingTransition, Transition, Row, Persists
  <2> QED
    BY <1>1, <2>1, <2>2, <2>3, <2>4
<1> QED
  BY <1>2 DEF tr, RowLeft, RowAfter

(* A row becomes OPEN only by opening an issue.                            *)
LEMMA OnlyOpeningOpens ==
    ASSUME NEW t \in Targets, NEW s \in Sample, NEW held, HonestRow(t, held),
           held.state # "OPEN", ~OpensOn(t, s, held)
    PROVE  RowAfter(t, held, s).state # "OPEN"
<1>1. IssuesAfter(t, held, <<>>, s) = <<>>
  BY OtherwiseNoIssue DEF ClosesOn
<1>2. TargetInv(t, RowAfter(t, held, s), <<>>)
  BY <1>1, PlainRow, SampleKeepsInv
<1>3. Len(<<>>) = 0
  OBVIOUS
<1> QED
  BY <1>2, <1>3 DEF TargetInv, OpenTogether

(* A transaction that opens an issue.                                      *)
LEMMA OpeningWritten ==
    ASSUME NEW t, NEW s, NEW held, NEW st, NEW list,
           Overtaken(t, s, held, st, list), OpensOn(t, s, held)
    PROVE  WrittenWell(st, list, RowLeft(t, s, held, st),
                       IssuesAfter(t, held, list, s))
<1> DEFINE n     == Len(list)
           after == IssuesAfter(t, held, list, s)
           row   == RowLeft(t, s, held, st)
           tr    == EvaluateTransition(t, held, s)
<1>1. t \in Targets /\ s \in Sample /\ s.observed_at \in Nat
  BY SampleAssumption DEF Overtaken
<1>2. tr = Transition("OPENED", Row("OPEN", s.observed_at, None, <<>>),
                      "OPEN", held.qualifying_started_at, None)
  <2>1. Arrival(t, s, held, <<>>)
    BY PlainRow DEF Overtaken, Arrival, OpensOn
  <2> QED
    BY <2>1, IssueOpensTransition DEF OpensOn
<1>3. /\ tr.issue_action = "OPEN" /\ tr.row.last_observed_at = s.observed_at
      /\ tr.row = Row("OPEN", s.observed_at, None, <<>>) /\ Persists(tr)
  BY <1>2 DEF Transition, Row, Persists
<1>4. row.state = "OPEN" /\ row.last_observed_at = s.observed_at
  BY <1>3 DEF RowLeft, Row
<1>5. PICK new : /\ after = Append(list, new)
                 /\ IsOpen(new) /\ new.closed_at = None
                 /\ new.opened_at = s.observed_at
  <2>1. after = OpenIssue(list, s.property, tr.issue_started_at, s.observed_at,
                          Append(held.qualifying_evidence, SampleEvidence(t, s)))
    BY <1>3 DEF IssuesAfter
  <2> HIDE DEF tr, after
  <2> QED
    BY <2>1 DEF OpenIssue, IsOpen
<1>6. /\ list \in Seq(IssueType(t)) /\ n \in Nat /\ DOMAIN list = 1..n
  BY LenProperties DEF Overtaken, SoundIssues
<1>7. \A i \in 1..n : ~IsOpen(list[i])
  BY <1>3, <1>6 DEF Overtaken
<1> HIDE DEF tr, row, after
<1>8. /\ DOMAIN after = 1..(n + 1) /\ Len(after) = n + 1
      /\ \A i \in 1..n : after[i] = list[i]
      /\ after[n + 1] = new
  <2>1. list \in Seq(IssueType(t) \cup {new})
    BY <1>6, SeqMonotonic
  <2> QED
    BY <1>5, <1>6, <2>1, AppendProperties, LenProperties
<1> HIDE DEF n
<1>9. AbsentIsDefault(row)
  BY <1>1, <1>4, NoneAssumption DEF AbsentIsDefault, RowExists
<1>10. RowHasItsIssue(row, after)
  BY <1>1, <1>4, <1>5, <1>6, <1>8 DEF RowHasItsIssue
<1>11. EndsInOrder(after)
  <2> SUFFICES ASSUME NEW i \in 1..(n + 1)
               PROVE  IF IsOpen(after[i])
                      THEN after[i].closed_at = None /\ i = n + 1
                      ELSE after[i].opened_at < after[i].closed_at
    BY <1>8 DEF EndsInOrder
  <2>1. CASE i = n + 1
    BY <1>5, <1>8, <2>1
  <2>2. CASE i \in 1..n
    BY <1>6, <1>7, <1>8, <2>2 DEF Overtaken, EndsInOrder
  <2> QED
    BY <1>6, <2>1, <2>2
<1>12. KeepsRows(list, after)
  BY <1>6, <1>8 DEF KeepsRows, RowKeepsHistory
<1>13. ~Orphan(st, list)
  BY <1>6, <1>7 DEF Orphan
<1> QED
  BY <1>9, <1>10, <1>11, <1>12, <1>13 DEF WrittenWell, row, after

(* A transaction that closes the open issue.                               *)
LEMMA ClosingWritten ==
    ASSUME NEW t, NEW s, NEW held, NEW st, NEW list,
           Overtaken(t, s, held, st, list), ClosesOn(t, s, held)
    PROVE  WrittenWell(st, list, RowLeft(t, s, held, st),
                       IssuesAfter(t, held, list, s))
<1> DEFINE n     == Len(list)
           ev    == SampleEvidence(t, s)
           after == IssuesAfter(t, held, list, s)
           row   == RowLeft(t, s, held, st)
<1>1. t \in Targets /\ s \in Sample /\ s.observed_at \in Nat
  BY SampleAssumption DEF Overtaken
<1>2. held = st /\ st.state = "OPEN" /\ RowExists(st)
  BY DEF Overtaken, ClosesOn, AbsentIsDefault, DefaultState, Row
<1>3. /\ st.last_observed_at \in Nat /\ st.last_observed_at < s.observed_at
  <2>1. st.last_observed_at \in Nat
    BY <1>2 DEF Overtaken, HonestRow, RowType, RowExists
  <2> QED
    BY <1>1, <1>2, <2>1 DEF ClosesOn, IsLate
<1>4. row = Row("NORMAL", s.observed_at, None, <<>>)
  <2>1. /\ RowAfter(t, held, s) = Row("NORMAL", s.observed_at, None, <<>>)
        /\ after = CloseIssue(list, s.observed_at, RecoveryReason(s), ev)
    BY RecoveryCase DEF ClosesOn
  <2> QED
    BY <2>1, NewLeft DEF ClosesOn
<1>5. /\ list \in Seq(IssueType(t)) /\ n \in Nat /\ DOMAIN list = 1..n
      /\ \A i \in 1..n : list[i] \in IssueType(t)
  BY LenProperties, ElementOfSeq DEF Overtaken, SoundIssues
<1>6. after = [i \in 1..n |-> IF IsOpen(list[i]) THEN Closed(list[i], s, ev)
                                                 ELSE list[i]]
  <2>1. after = CloseIssue(list, s.observed_at, RecoveryReason(s), ev)
    BY RecoveryCase DEF ClosesOn
  <2> HIDE DEF after, ev
  <2> QED
    BY <1>5, <2>1 DEF CloseIssue, Closed
<1> HIDE DEF after, ev, row
<1>7. DOMAIN after = 1..n
  BY <1>6
<1>8. ASSUME NEW i \in 1..n
      PROVE  /\ ~IsOpen(after[i]) /\ after[i].opened_at < after[i].closed_at
             /\ RowKeepsHistory(list[i], after[i])
  <2>1. CASE ~IsOpen(list[i])
    <3>1. after[i] = list[i]
      BY <1>6, <2>1
    <3> QED
      BY <1>5, <2>1, <3>1 DEF RowKeepsHistory, Overtaken, EndsInOrder
  <2>2. CASE IsOpen(list[i])
    <3>1. PICK k \in 1..n :
            IsOpen(list[k]) /\ list[k].opened_at <= st.last_observed_at
      BY <1>2, <1>5 DEF Overtaken, RowHasItsIssue
    <3>2. k = i
      BY <1>5, <2>2, <3>1 DEF Overtaken, SoundIssues
    <3>3. list[i].opened_at \in Nat
      BY <1>5 DEF IssueType
    <3>4. list[i].opened_at < s.observed_at
      BY <1>1, <1>3, <3>1, <3>2, <3>3
    <3>5. PICK new : new = after[i]
      OBVIOUS
    <3>6. new = Closed(list[i], s, ev)
      BY <1>6, <2>2, <3>5
    <3>7. /\ new.status = "CLOSED" /\ new.closed_at = s.observed_at
          /\ new.opened_at = list[i].opened_at
          /\ new.recovery = [ closed_at |-> s.observed_at,
                              reason    |-> RecoveryReason(s),
                              sample    |-> ev ]
      BY <1>5, <3>6 DEF Closed, IssueType
    <3>8. new = [list[i] EXCEPT !.status    = "CLOSED",
                                !.closed_at = new.closed_at,
                                !.recovery  = new.recovery]
      BY <3>6, <3>7 DEF Closed
    <3>9. new.recovery.closed_at = new.closed_at
      BY <3>7
    <3>10. RowKeepsHistory(list[i], new)
      BY <2>2, <3>8, <3>9 DEF RowKeepsHistory
    <3>11. ~IsOpen(new) /\ new.opened_at < new.closed_at
      BY <3>4, <3>7 DEF IsOpen
    <3> QED
      BY <3>5, <3>10, <3>11
  <2> QED
    BY <2>1, <2>2
<1>9. row.state # "OPEN" /\ RowExists(row)
  BY <1>1, <1>4, NoneAssumption DEF Row, RowExists
<1>10. AbsentIsDefault(row) /\ RowHasItsIssue(row, after)
  BY <1>9 DEF AbsentIsDefault, RowHasItsIssue
<1>11. EndsInOrder(after) /\ KeepsRows(list, after)
  BY <1>5, <1>7, <1>8 DEF EndsInOrder, KeepsRows
<1>12. ~Orphan(st, list)
  BY <1>2 DEF Orphan
<1> QED
  BY <1>10, <1>11, <1>12 DEF WrittenWell, row, after

(* A transaction that leaves the issues alone.                             *)
LEMMA OtherWritten ==
    ASSUME NEW t, NEW s, NEW held, NEW st, NEW list,
           Overtaken(t, s, held, st, list),
           ~IsLate(held, s), ~OpensOn(t, s, held), ~ClosesOn(t, s, held)
    PROVE  WrittenWell(st, list, RowLeft(t, s, held, st),
                       IssuesAfter(t, held, list, s))
<1> DEFINE row == RowLeft(t, s, held, st)
<1>1. t \in Targets /\ s \in Sample /\ s.observed_at \in Nat
  BY SampleAssumption DEF Overtaken
<1>2. IssuesAfter(t, held, list, s) = list
  BY OtherwiseNoIssue DEF Overtaken
<1>3. row = RowAfter(t, held, s) /\ row.last_observed_at = s.observed_at
  BY NewLeft
<1>4. row.state = "OPEN" => held.state = "OPEN"
  BY <1>3, OnlyOpeningOpens DEF Overtaken
<1> HIDE DEF row
<1>5. ASSUME row.state = "OPEN"
      PROVE  /\ st.state = "OPEN" /\ st.last_observed_at \in Nat
             /\ st.last_observed_at < s.observed_at
  <2>1. held = st /\ st.state = "OPEN" /\ RowExists(st)
    BY <1>4, <1>5 DEF Overtaken, AbsentIsDefault, DefaultState, Row
  <2>2. st.last_observed_at \in Nat
    BY <2>1 DEF Overtaken, HonestRow, RowType, RowExists
  <2> QED
    BY <1>1, <2>1, <2>2 DEF IsLate
<1>6. AbsentIsDefault(row)
  BY <1>1, <1>3, NoneAssumption DEF AbsentIsDefault, RowExists
<1>7. RowHasItsIssue(row, list)
  <2> SUFFICES ASSUME row.state = "OPEN"
               PROVE  \E i \in DOMAIN list :
                        IsOpen(list[i]) /\ list[i].opened_at <= s.observed_at
    BY <1>3 DEF RowHasItsIssue
  <2>1. PICK i \in DOMAIN list :
          IsOpen(list[i]) /\ list[i].opened_at <= st.last_observed_at
    BY <1>5 DEF Overtaken, RowHasItsIssue
  <2>2. list[i].opened_at \in Nat
    <3>1. list[i] \in IssueType(t)
      BY LenProperties, ElementOfSeq DEF Overtaken, SoundIssues
    <3> QED
      BY <3>1 DEF IssueType
  <2> QED
    BY <1>1, <1>5, <2>1, <2>2
<1>8. EndsInOrder(list) /\ KeepsRows(list, list)
  BY DEF Overtaken, KeepsRows, RowKeepsHistory
<1>9. Orphan(st, list) => row.state # "OPEN"
  BY <1>5 DEF Orphan
<1> QED
  BY <1>2, <1>6, <1>7, <1>8, <1>9 DEF WrittenWell, row

(* Every transaction that is not refused.                                  *)
LEMMA CommitWritesWell ==
    ASSUME NEW t, NEW s, NEW held, NEW st, NEW list,
           Overtaken(t, s, held, st, list)
    PROVE  WrittenWell(st, list, RowLeft(t, s, held, st),
                       IssuesAfter(t, held, list, s))
<1>1. CASE IsLate(held, s)
  BY <1>1, LateLeft, NothingWritten
<1>2. CASE OpensOn(t, s, held)
  BY <1>2, OpeningWritten
<1>3. CASE ClosesOn(t, s, held)
  BY <1>3, ClosingWritten
<1> QED
  BY <1>1, <1>2, <1>3, OtherWritten

(* What the workers keep while they overtake each other: the tables are in *)
(* step, and the row in hand is the row that is there or the default row.  *)
TablesInStep ==
    \A t \in Targets : /\ AbsentIsDefault(states[t])
                       /\ RowHasItsIssue(states[t], issues[t])
                       /\ EndsInOrder(issues[t])

InHand(w) ==
    InTransaction(w) => \/ loaded[w] = states[TargetOf(w)]
                        \/ loaded[w] = DefaultState

PairInv == TablesInStep /\ \A w \in Workers : InHand(w)

(* A row that is not there and an empty list are in step.                  *)
LEMMA NothingInStep ==
    /\ AbsentIsDefault(DefaultState) /\ RowHasItsIssue(DefaultState, <<>>)
    /\ EndsInOrder(<<>>)
<1>1. DOMAIN <<>> = {}
  OBVIOUS
<1> QED
  BY <1>1 DEF AbsentIsDefault, RowHasItsIssue, EndsInOrder, DefaultState, Row

(* A commit writes its row and its issues well, and no other's.            *)
LEMMA CommitWritten ==
    ASSUME WorkerInv, PairInv, NEW w \in Workers, Commit(w)
    PROVE  \E t \in Targets :
             /\ t = TargetOf(w)
             /\ WrittenWell(states[t], issues[t], states'[t], issues'[t])
             /\ \A u \in Targets \ {t} :
                  states'[u] = states[u] /\ issues'[u] = issues[u]
<1>1. /\ InPlace(w) /\ EventList /\ SoundTables /\ InTransaction(w)
  BY InvParts DEF Commit
<1>2. PICK t \in Targets, s \in Sample :
        t = TargetOf(w) /\ s = events[cursor[w]].sample
  BY <1>1, EventInTransaction
<1>3. PICK held : held = loaded[w]
  OBVIOUS
<1>4. Overtaken(t, s, held, states[t], issues[t])
  <2>1. HonestRow(t, held) /\ HonestRow(t, states[t]) /\ SoundIssues(t, issues[t])
    BY <1>1, <1>2, <1>3 DEF InPlace, SoundTables
  <2>2. held = states[t] \/ held = DefaultState
    BY <1>1, <1>2, <1>3 DEF PairInv, InHand
  <2>3. EvaluateTransition(t, held, s).issue_action = "OPEN" =>
            \A i \in DOMAIN issues[t] : ~IsOpen(issues[t][i])
    BY <1>2, <1>3 DEF Commit, Refused
  <2> QED
    BY <2>1, <2>2, <2>3 DEF Overtaken, PairInv, TablesInStep
<1>5. /\ issues' = [issues EXCEPT ![t] = IssuesAfter(t, held, issues[t], s)]
      /\ states' = [states EXCEPT ![t] = RowLeft(t, s, held, states[t])]
  BY <1>2, <1>3 DEF Commit, RowLeft
<1>6. /\ issues'[t] = IssuesAfter(t, held, issues[t], s)
      /\ states'[t] = RowLeft(t, s, held, states[t])
      /\ \A u \in Targets \ {t} :
           states'[u] = states[u] /\ issues'[u] = issues[u]
  BY <1>1, <1>5 DEF SoundTables
<1> QED
  BY <1>2, <1>4, <1>6, CommitWritesWell

(* The others still have in hand what is there: whoever holds the row of   *)
(* this target holds its lock, and the commit has waited for that.         *)
LEMMA CommitKeepsPair ==
    ASSUME WorkerInv, PairInv, NEW w \in Workers, Commit(w)
    PROVE  PairInv'
<1>1. PICK t \in Targets :
        /\ t = TargetOf(w)
        /\ WrittenWell(states[t], issues[t], states'[t], issues'[t])
        /\ \A u \in Targets \ {t} :
             states'[u] = states[u] /\ issues'[u] = issues[u]
  BY CommitWritten
<1>2. TablesInStep'
  <2> SUFFICES ASSUME NEW u \in Targets
               PROVE  /\ AbsentIsDefault(states'[u])
                      /\ RowHasItsIssue(states'[u], issues'[u])
                      /\ EndsInOrder(issues'[u])
    BY DEF TablesInStep
  <2>1. CASE u = t
    BY <1>1, <2>1 DEF WrittenWell
  <2>2. CASE u # t
    BY <1>1, <2>2 DEF PairInv, TablesInStep
  <2> QED
    BY <2>1, <2>2
<1>3. MovesTo(w, "polling", cursor[w] + 1, seen[w], DefaultState)
  BY InvParts DEF Commit, MovesTo, WorkerDomains
<1>4. ASSUME NEW v \in Workers, InTransaction(v)' PROVE InHand(v)'
  <2>1. v # w
    BY <1>3, <1>4 DEF MovesTo, InTransaction
  <2>2. /\ InTransaction(v) /\ TargetOf(v)' = TargetOf(v)
        /\ loaded'[v] = loaded[v]
    BY <1>3, <1>4, <2>1 DEF MovesTo, InTransaction, TargetOf, Commit
  <2>3. TargetOf(v) \in Targets
    BY <2>2, InvParts, EventInTransaction
  <2>4. CASE loaded[v] = DefaultState
    BY <2>2, <2>4 DEF InHand
  <2>5. CASE loaded[v] = states[TargetOf(v)] /\ TargetOf(v) # t
    BY <1>1, <2>2, <2>3, <2>5 DEF InHand
  <2>6. CASE loaded[v] = states[TargetOf(v)] /\ TargetOf(v) = t
    <3>1. ~HoldsLock(v, t)
      BY <1>1, <2>1 DEF Commit, LockedByOther
    <3>2. ~RowExists(states[t])
      BY <2>2, <2>6, <3>1 DEF HoldsLock
    <3>3. states[t] = DefaultState
      BY <3>2 DEF PairInv, TablesInStep, AbsentIsDefault
    <3> QED
      BY <2>2, <2>6, <3>3 DEF InHand
  <2> QED
    BY <2>2, <2>4, <2>5, <2>6 DEF PairInv, InHand
<1> QED
  BY <1>2, <1>4 DEF PairInv, InHand

(* A worker that moves while the tables stand still.                       *)
LEMMA PairMoves ==
    ASSUME WorkerInv, PairInv, NEW w \in Workers,
           UNCHANGED vars, events' = events,
           NEW a, NEW c, NEW n, NEW l, MovesTo(w, a, c, n, l),
           a = "loaded" => l = states[events[c].target]
    PROVE  PairInv'
<1>1. states' = states /\ issues' = issues
  BY DEF vars
<1>2. TablesInStep'
  BY <1>1 DEF PairInv, TablesInStep
<1>3. InHand(w)'
  BY <1>1 DEF MovesTo, InHand, InTransaction, TargetOf
<1>4. \A v \in Workers \ {w} : InHand(v)'
  BY <1>1 DEF MovesTo, InHand, InTransaction, TargetOf, PairInv
<1> QED
  BY <1>2, <1>3, <1>4 DEF PairInv

(* Every step keeps the tables and the rows in hand in step.               *)
LEMMA PairStep ==
    ASSUME WorkerInv, PairInv, [WorkerNext]_workerVars
    PROVE  PairInv'
<1>0. /\ EventList /\ WorkerDomains /\ \A w \in Workers : InPlace(w)
  BY InvParts
<1>1. ASSUME NEW t \in Targets, NEW s \in Sample, Accept(t, s)
      PROVE  PairInv'
  <2>1. /\ states' = states /\ issues' = issues
        /\ pc' = pc /\ cursor' = cursor /\ loaded' = loaded
    BY <1>1 DEF Accept, vars, processVars
  <2>2. PICK e : e = [target |-> t, sample |-> s]
    OBVIOUS
  <2>3. events' = Append(events, e) /\ e \in [target : Targets, sample : Sample]
    BY <1>1, <2>2 DEF Accept
  <2>4. \A i \in 1..Len(events) : events'[i] = events[i]
    BY <1>0, <2>3, AppendProperties DEF EventList
  <2>5. \A w \in Workers : InTransaction(w) => TargetOf(w)' = TargetOf(w)
    BY <1>0, <2>1, <2>4, EventInTransaction DEF TargetOf
  <2>6. TablesInStep'
    BY <2>1 DEF PairInv, TablesInStep
  <2> QED
    BY <2>1, <2>5, <2>6 DEF PairInv, InHand, InTransaction
<1>2. ASSUME NEW w \in Workers, StartPoll(w) PROVE PairInv'
  <2>1. MovesTo(w, "polling", 1, Len(events), loaded[w])
    BY <1>0, <1>2 DEF StartPoll, MovesTo, WorkerDomains
  <2> QED
    BY <1>2, <2>1, PairMoves DEF StartPoll
<1>3. ASSUME NEW w \in Workers, Load(w) PROVE PairInv'
  <2>1. MovesTo(w, "loaded", cursor[w], seen[w], states[TargetOf(w)])
    BY <1>0, <1>3 DEF Load, MovesTo, WorkerDomains
  <2> QED
    BY <1>3, <2>1, PairMoves DEF Load, TargetOf
<1>4. ASSUME NEW w \in Workers, FinishPoll(w) PROVE PairInv'
  <2>1. MovesTo(w, IF w \in OneShots THEN "done" ELSE "idle",
                cursor[w], seen[w], loaded[w])
    BY <1>0, <1>4 DEF FinishPoll, MovesTo, WorkerDomains
  <2>2. (IF w \in OneShots THEN "done" ELSE "idle") # "loaded"
    OBVIOUS
  <2> QED
    BY <1>4, <2>1, <2>2, PairMoves DEF FinishPoll
<1>5. ASSUME NEW w \in Workers, Crash(w) \/ Abort(w) \/ StopService(w)
      PROVE  PairInv'
  <2>1. PICK a \in {"idle", "failed", "stopped"} : Ends(w, a)
    BY <1>5 DEF Crash, Abort, StopService
  <2>2. MovesTo(w, a, 1, 0, DefaultState) /\ a # "loaded"
    BY <2>1, EndsMoves
  <2> QED
    BY <2>1, <2>2, PairMoves DEF Ends
<1>6. ASSUME NEW w \in Workers, StartService(w) PROVE PairInv'
  <2>1. MovesTo(w, "idle", cursor[w], seen[w], loaded[w])
    BY <1>0, <1>6 DEF StartService, MovesTo, WorkerDomains
  <2> QED
    BY <1>6, <2>1, PairMoves DEF StartService
<1>7. ASSUME NEW w \in Workers, LaunchReset(w) PROVE PairInv'
  <2>1. TablesInStep'
    BY <1>7, NothingInStep DEF LaunchReset, ResetEvaluation, Empty, TablesInStep
  <2>2. \A v \in Workers : ~InTransaction(v)'
    BY <1>0, <1>7 DEF LaunchReset, WorkerDomains, InTransaction
  <2> QED
    BY <2>1, <2>2 DEF PairInv, InHand
<1>8. CASE UNCHANGED workerVars
  BY <1>8 DEF workerVars, processVars, vars, PairInv, TablesInStep, InHand,
              InTransaction, TargetOf
<1> QED
  BY <1>1, <1>2, <1>3, <1>4, <1>5, <1>6, <1>7, <1>8, CommitKeepsPair
     DEF WorkerNext

(* Any number of workers keep it.                                          *)
THEOREM WorkersStayInStep == WorkerSpec => []PairInv
<1>1. WorkerInit => PairInv
  <2> SUFFICES ASSUME WorkerInit PROVE PairInv
    OBVIOUS
  <2>1. TablesInStep
    BY NothingInStep DEF WorkerInit, EvaluatorInit, Empty, TablesInStep
  <2>2. \A w \in Workers : ~InTransaction(w)
    BY DEF WorkerInit, InTransaction
  <2> QED
    BY <2>1, <2>2 DEF PairInv, InHand
<1> QED
  BY <1>1, PairStep, WorkerInvariant, PTL DEF WorkerSpec

(* evaluate_sample computes from the row as it is, or from none: the row   *)
(* lock of _load_state holds what it has found, so only a transaction that *)
(* found no row can be overtaken.                                          *)
LoadedRowIsCurrent ==
    \A w \in Workers :
        InTransaction(w) => \/ loaded[w] = states[TargetOf(w)]
                            \/ ~RowExists(loaded[w])

(* That is so however many workers run and whenever they crash.            *)
THEOREM RowInHandIsCurrent == WorkerSpec => []LoadedRowIsCurrent
<1>1. PairInv => LoadedRowIsCurrent
  BY DEF PairInv, InHand, LoadedRowIsCurrent, RowExists, DefaultState, Row
<1> QED
  BY <1>1, WorkersStayInStep, PTL

(* A row that is OPEN has its open issue, whichever workers have saved it. *)
THEOREM OpenRowsHaveIssues == WorkerSpec => []OpenRowHasItsIssue
<1>1. PairInv => OpenRowHasItsIssue
  BY DEF PairInv, TablesInStep, RowHasItsIssue, OpenRowHasItsIssue
<1> QED
  BY <1>1, WorkersStayInStep, PTL

(* An issue is closed later than it was opened, and only the newest is     *)
(* open, however the workers overtake each other.                          *)
THEOREM IssuesEndInOrder == WorkerSpec => []IssuesEndAfterTheyBegin
<1>1. PairInv => IssuesEndAfterTheyBegin
  BY DEF PairInv, TablesInStep, EndsInOrder, IssuesEndAfterTheyBegin
<1> QED
  BY <1>1, WorkersStayInStep, PTL

(* What a step of the workers does to the issues and to an orphan.         *)
LEMMA StepKeepsRows ==
    ASSUME WorkerInv, PairInv, [WorkerNext]_workerVars
    PROVE  [KeepsHistory]_vars /\ KeepsOrphans
<1>1. ASSUME NEW w \in Workers, Commit(w)
      PROVE  KeepsHistory /\ KeepsOrphans
  <2>1. PICK t \in Targets :
          /\ WrittenWell(states[t], issues[t], states'[t], issues'[t])
          /\ \A u \in Targets \ {t} :
               states'[u] = states[u] /\ issues'[u] = issues[u]
    BY <1>1, CommitWritten
  <2>2. ASSUME NEW u \in Targets
        PROVE  /\ KeepsRows(issues[u], issues'[u])
               /\ Orphan(states[u], issues[u]) =>
                    states'[u].state # "OPEN" /\ issues'[u] = issues[u]
    <3>1. CASE u = t
      BY <2>1, <3>1 DEF WrittenWell
    <3>2. CASE u # t
      BY <2>1, <3>2 DEF KeepsRows, RowKeepsHistory, Orphan
    <3> QED
      BY <3>1, <3>2
  <2>3. KeepsHistory
    BY <2>2 DEF KeepsHistory, KeepsRows
  <2>4. KeepsOrphans
    BY <2>2 DEF KeepsOrphans, Orphaned, Orphan
  <2> QED
    BY <2>3, <2>4
<1>2. ASSUME NEW w \in Workers, LaunchReset(w)
      PROVE  KeepsHistory /\ KeepsOrphans
  BY <1>2 DEF LaunchReset, ResetEvaluation, KeepsHistory, KeepsOrphans
<1>3. CASE UNCHANGED vars
  BY <1>3 DEF vars, KeepsOrphans, Orphaned
<1>4. \/ \E w \in Workers : Commit(w) \/ LaunchReset(w)
      \/ UNCHANGED vars
  <2>1. CASE UNCHANGED workerVars
    BY <2>1 DEF workerVars
  <2> QED
    BY <2>1 DEF WorkerNext, Accept, StartPoll, Load, FinishPoll, Abort, Crash,
                StopService, StartService, Ends
<1> QED
  BY <1>1, <1>2, <1>3, <1>4

(* Outside a reset no worker deletes an issue or changes a closed one, not *)
(* even one whose row is not the one it has loaded.                        *)
THEOREM WorkersKeepHistory == WorkerSpec => IssueHistoryIsFinal
BY StepKeepsRows, WorkerInvariant, WorkersStayInStep, PTL
   DEF WorkerSpec, IssueHistoryIsFinal

(* An issue left open behind a row that is not OPEN stays so until a reset:*)
(* nobody closes it and the unique index refuses every other.              *)
THEOREM OnlyAResetRepairs == WorkerSpec => OrphansStay
<1>1. WorkerInv /\ PairInv /\ [WorkerNext]_workerVars
        => [KeepsOrphans]_workerVars
  BY StepKeepsRows
<1> QED
  BY <1>1, WorkerInvariant, WorkersStayInStep, PTL DEF WorkerSpec, OrphansStay

-----------------------------------------------------------------------------
(* Workers that run one at a time.                                         *)

(* Some worker enters or leaves its loop; only one that was running, or is *)
(* the only one, can be running afterwards.                                *)
LEMMA AloneMoves ==
    ASSUME WorkerInv, AloneInv, NEW w \in Workers,
           states' = states, events' = events,
           NEW a, NEW c, NEW n, NEW l, MovesTo(w, a, c, n, l),
           a = "stopped" => w \in Services,
           a \in {"idle", "polling", "loaded"} =>
               \/ Running(w)
               \/ \A v \in Workers \ {w} : ~Running(v),
           a = "loaded" => l = states[events[c].target]
    PROVE  AloneInv'
<1>1. \A w1 \in OneShots : pc'[w1] # "stopped"
  <2> TAKE w1 \in OneShots
  <2>1. w1 \in Workers /\ w1 \notin Services
    BY WorkerAssumption DEF Workers
  <2> QED
    BY <2>1 DEF MovesTo, AloneInv
<1>2. \A v \in Workers \ {w} :
        /\ Running(v)' <=> Running(v)
        /\ InTransaction(v)' <=> InTransaction(v)
        /\ TargetOf(v)' = TargetOf(v) /\ loaded'[v] = loaded[v]
  BY DEF MovesTo, Running, InTransaction, TargetOf
<1>3. Running(w)' <=> a \in {"idle", "polling", "loaded"}
  BY DEF MovesTo, Running
<1>4. \A v, u \in Workers : Running(v)' /\ Running(u)' => v = u
  BY <1>2, <1>3 DEF AloneInv
<1>5. InTransaction(w)' => loaded'[w] = states'[TargetOf(w)']
  BY DEF MovesTo, InTransaction, TargetOf
<1>6. \A v \in Workers : InTransaction(v)' => loaded'[v] = states'[TargetOf(v)']
  BY <1>2, <1>5 DEF AloneInv
<1> QED
  BY <1>1, <1>4, <1>6 DEF AloneInv

(* Every step keeps the workers apart.                                     *)
LEMMA AloneStep ==
    ASSUME OneAtATime, WorkerInv, AloneInv, WorkerNext
    PROVE  AloneInv'
<1>0. /\ EventList /\ WorkerDomains /\ SoundTables
      /\ \A w \in Workers : InPlace(w)
  BY InvParts
<1>1. ASSUME NEW t \in Targets, NEW s \in Sample, Accept(t, s)
      PROVE  AloneInv'
  <2>1. /\ states' = states /\ pc' = pc /\ cursor' = cursor /\ loaded' = loaded
    BY <1>1 DEF Accept, vars, processVars
  <2>2. PICK e : e = [target |-> t, sample |-> s]
    OBVIOUS
  <2>3. events' = Append(events, e) /\ e \in [target : Targets, sample : Sample]
    BY <1>1, <2>2 DEF Accept
  <2>4. \A i \in 1..Len(events) : events'[i] = events[i]
    BY <1>0, <2>3, AppendProperties DEF EventList
  <2>5. \A w \in Workers : InTransaction(w) => TargetOf(w)' = TargetOf(w)
    BY <1>0, <2>1, <2>4, EventInTransaction DEF TargetOf
  <2> QED
    BY <2>1, <2>5 DEF AloneInv, Running, InTransaction
<1>2. ASSUME NEW w \in Workers, StartPoll(w) PROVE AloneInv'
  <2>1. MovesTo(w, "polling", 1, Len(events), loaded[w])
    BY <1>0, <1>2 DEF StartPoll, MovesTo, WorkerDomains
  <2>2. states' = states /\ events' = events /\ Running(w)
    BY <1>2 DEF StartPoll, vars, Running
  <2> QED
    BY <2>1, <2>2, AloneMoves
<1>3. ASSUME NEW w \in Workers, Load(w) PROVE AloneInv'
  <2>1. MovesTo(w, "loaded", cursor[w], seen[w], states[TargetOf(w)])
    BY <1>0, <1>3 DEF Load, MovesTo, WorkerDomains
  <2>2. states' = states /\ events' = events /\ Running(w)
    BY <1>3 DEF Load, vars, Running
  <2> QED
    BY <2>1, <2>2, AloneMoves DEF TargetOf
<1>4. ASSUME NEW w \in Workers, FinishPoll(w) PROVE AloneInv'
  <2>1. MovesTo(w, IF w \in OneShots THEN "done" ELSE "idle",
                cursor[w], seen[w], loaded[w])
    BY <1>0, <1>4 DEF FinishPoll, MovesTo, WorkerDomains
  <2>2. states' = states /\ events' = events /\ Running(w)
    BY <1>4 DEF FinishPoll, vars, Running
  <2>3. (IF w \in OneShots THEN "done" ELSE "idle") \in {"done", "idle"}
    OBVIOUS
  <2> QED
    BY <2>1, <2>2, <2>3, AloneMoves
<1>5. ASSUME NEW w \in Workers, Crash(w) \/ Abort(w) \/ StopService(w)
      PROVE  AloneInv'
  <2>1. PICK a \in {"idle", "failed", "stopped"} :
          Ends(w, a) /\ (a = "stopped" => w \in Services)
    BY <1>5 DEF Crash, Abort, StopService
  <2>2. MovesTo(w, a, 1, 0, DefaultState)
    BY <2>1, EndsMoves
  <2>3. states' = states /\ events' = events /\ Running(w)
    BY <1>5, <2>1 DEF Crash, Abort, StopService, Ends, vars, Running, InTransaction
  <2> QED
    BY <2>1, <2>2, <2>3, AloneMoves
<1>6. ASSUME NEW w \in Workers, StartService(w) PROVE AloneInv'
  <2>1. MovesTo(w, "idle", cursor[w], seen[w], loaded[w])
    BY <1>0, <1>6 DEF StartService, MovesTo, WorkerDomains
  <2>2. states' = states /\ events' = events
    BY <1>6 DEF StartService, vars
  <2>3. w \in Services
    BY <1>6 DEF StartService, AloneInv, Workers
  <2>4. \A v \in Workers \ {w} : ~Running(v)
    BY <1>6, <2>3 DEF StartService, OneAtATime, Workers
  <2> QED
    BY <2>1, <2>2, <2>4, AloneMoves
<1>7. ASSUME NEW w \in Workers, Commit(w) PROVE AloneInv'
  <2>1. InTransaction(w) /\ Running(w)
    BY <1>7 DEF Commit, InTransaction, Running
  <2>2. \A v \in Workers \ {w} : ~Running(v) /\ ~InTransaction(v)
    BY <2>1 DEF AloneInv, Running, InTransaction
  <2>3. pc' = [pc EXCEPT ![w] = "polling"]
    BY <1>7 DEF Commit
  <2>4. /\ pc'[w] = "polling" /\ \A v \in Workers \ {w} : pc'[v] = pc[v]
    BY <1>0, <2>3 DEF WorkerDomains
  <2>5. \A v \in Workers : ~InTransaction(v)' /\ (v # w => ~Running(v)')
    BY <2>2, <2>4 DEF InTransaction, Running
  <2>6. \A v \in OneShots : pc'[v] # "stopped"
    BY <2>4 DEF AloneInv, Workers
  <2> QED
    BY <2>5, <2>6 DEF AloneInv
<1>8. ASSUME NEW w \in Workers, LaunchReset(w) PROVE AloneInv'
  <2>1. w \in OneShots /\ \A v \in Workers \ {w} : pc[v] = "stopped"
    BY <1>8 DEF LaunchReset, OneAtATime, Workers
  <2>2. pc' = [pc EXCEPT ![w] = "idle"]
    BY <1>8 DEF LaunchReset
  <2>3. /\ pc'[w] = "idle" /\ \A v \in Workers \ {w} : pc'[v] = "stopped"
    BY <1>0, <2>1, <2>2 DEF WorkerDomains
  <2>4. \A v \in Workers : ~InTransaction(v)' /\ (v # w => ~Running(v)')
    BY <2>3 DEF InTransaction, Running
  <2>5. \A v \in OneShots : pc'[v] # "stopped"
    BY <2>1, <2>3 DEF OneAtATime, Workers
  <2> QED
    BY <2>4, <2>5 DEF AloneInv
<1> QED
  BY <1>1, <1>2, <1>3, <1>4, <1>5, <1>6, <1>7, <1>8 DEF WorkerNext

(* With one service, stopped around one one-shot, a running worker is the  *)
(* only one and evaluates the row as it is.                                *)
THEOREM WorkersAlone ==
    ASSUME OneAtATime
    PROVE  WorkerSpec => []AloneInv
<1>1. WorkerInit => AloneInv
  <2> SUFFICES ASSUME WorkerInit PROVE AloneInv
    OBVIOUS
  <2>1. \A w \in Workers : pc[w] = IF w \in Services THEN "idle" ELSE "unlaunched"
    BY DEF WorkerInit
  <2>2. \A w \in Workers : ~InTransaction(w) /\ (Running(w) => w \in Services)
    BY <2>1 DEF InTransaction, Running
  <2>3. \A w \in OneShots : pc[w] # "stopped"
    BY <2>1 DEF Workers
  <2> QED
    BY <2>2, <2>3 DEF AloneInv, OneAtATime
<1>2. WorkerInv /\ AloneInv /\ [WorkerNext]_workerVars => AloneInv'
  <2>1. CASE UNCHANGED workerVars
    BY <2>1 DEF workerVars, processVars, vars, AloneInv, Running, InTransaction,
                TargetOf
  <2> QED
    BY <2>1, AloneStep
<1> QED
  BY <1>1, <1>2, WorkerInvariant, PTL DEF WorkerSpec

(* A commit is one evaluate_sample on the current row.                     *)
LEMMA CommitEvaluates ==
    ASSUME WorkerInv, AloneInv, NEW w \in Workers, Commit(w)
    PROVE  \E t \in Targets, s \in Sample :
             /\ t = TargetOf(w) /\ s = events[cursor[w]].sample
             /\ EvaluateSample(t, s)
<1>1. InTransaction(w) /\ EventList /\ InPlace(w) /\ SoundTables
  BY InvParts DEF Commit
<1>2. PICK t \in Targets, s \in Sample :
        t = TargetOf(w) /\ s = events[cursor[w]].sample
  BY <1>1, EventInTransaction
<1>3. loaded[w] = states[t]
  BY <1>1, <1>2 DEF AloneInv
<1>4. /\ issues' = [issues EXCEPT ![t] = IssuesAfter(t, states[t], issues[t], s)]
      /\ states' = [states EXCEPT ![t] =
                       IF Persists(EvaluateTransition(t, states[t], s))
                       THEN EvaluateTransition(t, states[t], s).row ELSE states[t]]
      /\ trail'  = [trail EXCEPT ![t] =
                       IF IsNewest(t, s) THEN Append(@, s) ELSE @]
  BY <1>2, <1>3 DEF Commit
<1>5. EvaluateSample(t, s)
  BY <1>4 DEF EvaluateSample, RowAfter
<1> QED
  BY <1>2, <1>5

(* Any other step but the reset leaves the tables as they are.             *)
LEMMA StepEvaluates ==
    ASSUME WorkerInv, AloneInv, [WorkerNext]_workerVars
    PROVE  [EvaluatorNext]_vars
<1>1. ASSUME NEW w \in Workers, Commit(w) PROVE EvaluatorNext
  BY <1>1, CommitEvaluates DEF EvaluatorNext
<1>2. ASSUME NEW w \in Workers, LaunchReset(w) PROVE EvaluatorNext
  BY <1>2 DEF LaunchReset, EvaluatorNext
<1>3. ASSUME NEW t \in Targets, NEW s \in Sample, Accept(t, s)
      PROVE  UNCHANGED vars
  BY <1>3 DEF Accept
<1>4. ASSUME NEW w \in Workers,
             \/ StartPoll(w) \/ Load(w) \/ FinishPoll(w) \/ Abort(w)
             \/ Crash(w) \/ StopService(w) \/ StartService(w)
      PROVE  UNCHANGED vars
  BY <1>4 DEF StartPoll, Load, FinishPoll, Abort, Crash, StopService,
              StartService, Ends
<1>5. CASE UNCHANGED workerVars
  BY <1>5 DEF workerVars
<1> QED
  BY <1>1, <1>2, <1>3, <1>4, <1>5 DEF WorkerNext

(* One worker at a time makes of the load and the commit of a transaction  *)
(* one evaluate_sample: the workers implement Evaluator, and whatever is   *)
(* proved of it holds of them.                                             *)
THEOREM WorkersImplementEvaluator ==
    ASSUME OneAtATime
    PROVE  WorkerSpec => ImplementsEvaluator
<1>1. WorkerInit => EvaluatorInit
  BY DEF WorkerInit
<1>2. WorkerInv /\ AloneInv /\ [WorkerNext]_workerVars => [EvaluatorNext]_vars
  BY StepEvaluates
<1> QED
  BY <1>1, <1>2, WorkerInvariant, WorkersAlone, PTL
     DEF WorkerSpec, ImplementsEvaluator, EvaluatorSpec

(* Only a row that is not OPEN leads to an opening.                        *)
LEMMA OpeningNeedsNoIssue ==
    ASSUME NEW t, NEW s, NEW st, EvaluateTransition(t, st, s).issue_action = "OPEN"
    PROVE  st.state # "OPEN"
<1> SUFFICES ASSUME st.state = "OPEN" PROVE FALSE
  OBVIOUS
<1> DEFINE tr == EvaluateTransition(t, st, s)
<1>1. AfterGap(t, st, s) = st
  BY DEF AfterGap, BreaksContinuity
<1>2. \/ tr = LateTransition(st) \/ tr = UntrustedTransition(st, s)
      \/ tr = NonFaultTransition(st, s) \/ tr = RemainsOpenTransition(s)
  BY <1>1 DEF EvaluateTransition
<1> QED
  BY <1>2 DEF LateTransition, UntrustedTransition, NonFaultTransition,
              RemainsOpenTransition, Transition

(* So one worker at a time never meets the unique index, and no poll ends  *)
(* in its violation.                                                       *)
THEOREM WorkersAreNotRefused ==
    ASSUME OneAtATime
    PROVE  WorkerSpec => []NeverRefused
<1>1. WorkerInv /\ AloneInv /\ EvaluatorInv => NeverRefused
  <2> SUFFICES ASSUME WorkerInv, AloneInv, EvaluatorInv,
                      NEW w \in Workers, InTransaction(w), Refused(w)
               PROVE  FALSE
    BY DEF NeverRefused
  <2>1. PICK t \in Targets : t = TargetOf(w)
    BY InvParts, EventInTransaction
  <2>2. loaded[w] = states[t]
    BY <2>1 DEF AloneInv
  <2>3. states[t].state # "OPEN"
    BY <2>1, <2>2, OpeningNeedsNoIssue DEF Refused
  <2>4. \A i \in DOMAIN issues[t] : ~IsOpen(issues[t][i])
    BY <2>3 DEF EvaluatorInv, TargetInv, OpenTogether
  <2> QED
    BY <2>1, <2>4 DEF Refused
<1> QED
  BY <1>1, WorkerInvariant, WorkersAlone, WorkersImplementEvaluator,
     InvariantHolds, PTL DEF ImplementsEvaluator

-----------------------------------------------------------------------------
(* A poll that has finished is a replay.                                   *)

(* Accepting an event leaves the first n events as they are.               *)
LEMMA PrefixStands ==
    ASSUME EventList, NEW e, events' = Append(events, e),
           trail' = trail, NEW t \in Targets, NEW n \in 0..Len(events),
           HasReplayed(t, n)
    PROVE  HasReplayed(t, n)'
<1>1. /\ Len(events) \in Nat /\ n \in Nat
      /\ \A i \in 1..n : events'[i] = events[i]
  <2>1. PICK S : S = [target : Targets, sample : Sample] \cup {e}
    OBVIOUS
  <2>2. events \in Seq(S) /\ e \in S
    BY <2>1, SeqMonotonic DEF EventList
  <2> QED
    BY <2>2, AppendProperties, LenProperties
<1>2. NewestAt(t, n)' = NewestAt(t, n)
  <2>1. \A i \in 1..n : \A q \in 1..(i-1) : events'[q] = events[q]
    BY <1>1
  <2> QED
    BY <1>1, <2>1 DEF NewestAt
<1>3. NewestSamples(t, n)' = NewestSamples(t, n)
  BY <1>1, <1>2 DEF NewestSamples, NewestAt
<1> QED
  BY <1>1, <1>3 DEF HasReplayed

(* A commit of an event that has been evaluated before.                    *)
LEMMA OldEvent ==
    ASSUME EventList, SoundTables, NEW n \in 0..Len(events), NEW p \in 1..n,
           NEW t \in Targets, t = events[p].target, HasReplayed(t, n)
    PROVE  ~IsNewest(t, events[p].sample)
<1>1. PICK k \in DOMAIN trail[t] :
        events[p].sample.observed_at <= trail[t][k].observed_at
  BY DEF HasReplayed
<1>2. events[p].sample \in Sample /\ trail[t][k] \in Sample
  <2>1. p \in 1..Len(events)
    BY LenProperties DEF EventList
  <2>2. trail[t] \in Seq(Sample)
    BY DEF SoundTables
  <2> QED
    BY <1>1, <2>1, <2>2, EventAt, ElementOfSeq
<1> QED
  BY <1>1, <1>2, SampleAssumption DEF IsNewest

(* The next event is newest of its target among the events exactly if it   *)
(* is newer than the trail.                                                *)
LEMMA NextIsNewest ==
    ASSUME EventList, SoundTables, NEW n \in Nat, n + 1 \in 1..Len(events),
           NEW t \in Targets, t = events[n + 1].target, HasReplayed(t, n)
    PROVE  IsNewest(t, events[n + 1].sample) <=> n + 1 \in NewestAt(t, n + 1)
<1> DEFINE At(p) == events[p].sample.observed_at
<1>1. Len(events) \in Nat
  BY LenProperties DEF EventList
<1>2. \A p \in 1..(n + 1) : At(p) \in Nat
  BY <1>1, EventAt, SampleAssumption
<1>3. \A k \in DOMAIN trail[t] : /\ trail[t][k].observed_at \in Nat
                                 /\ \E p \in 1..n : /\ events[p].target = t
                                                    /\ trail[t][k] = events[p].sample
  <2> TAKE k \in DOMAIN trail[t]
  <2>1. trail[t][k] \in Sample
    BY ElementOfSeq DEF SoundTables
  <2>2. trail[t][k] \in NewestSamples(t, n)
    BY DEF HasReplayed
  <2> QED
    BY <2>1, <2>2, SampleAssumption DEF NewestSamples, NewestAt
<1>4. n + 1 \in NewestAt(t, n + 1)
        <=> \A q \in 1..n : events[q].target = t => At(q) < At(n + 1)
  BY DEF NewestAt
<1>5. ASSUME \A k \in DOMAIN trail[t] : trail[t][k].observed_at < At(n + 1),
             NEW q \in 1..n, events[q].target = t
      PROVE  At(q) < At(n + 1)
  <2>1. PICK k \in DOMAIN trail[t] : At(q) <= trail[t][k].observed_at
    BY <1>5 DEF HasReplayed
  <2>2. trail[t][k].observed_at < At(n + 1) /\ trail[t][k].observed_at \in Nat
    BY <1>3, <1>5
  <2>3. At(q) \in Nat /\ At(n + 1) \in Nat
    BY <1>2
  <2> HIDE DEF At
  <2> QED
    BY <2>1, <2>2, <2>3
<1>6. ASSUME \A q \in 1..n : events[q].target = t => At(q) < At(n + 1),
             NEW k \in DOMAIN trail[t]
      PROVE  trail[t][k].observed_at < At(n + 1)
  BY <1>3, <1>6
<1> QED
  BY <1>4, <1>5, <1>6 DEF IsNewest

(* What the next event adds to the newest ones.                            *)
LEMMA NewestGrows ==
    ASSUME NEW n \in Nat, NEW t
    PROVE  NewestAt(t, n + 1) =
             NewestAt(t, n) \cup
               (IF n + 1 \in NewestAt(t, n + 1) THEN {n + 1} ELSE {})
<1>1. \A p \in 1..n : p \in NewestAt(t, n + 1) <=> p \in NewestAt(t, n)
  BY DEF NewestAt
<1>2. NewestAt(t, n) \subseteq 1..n /\ NewestAt(t, n + 1) \subseteq 1..(n + 1)
  BY DEF NewestAt
<1>3. \A p \in 1..(n + 1) : p \in 1..n \/ p = n + 1
  OBVIOUS
<1>4. n + 1 \notin NewestAt(t, n)
  BY <1>2
<1> QED
  BY <1>1, <1>2, <1>3, <1>4

(* The trail once its next event has been evaluated.                       *)
LEMMA TrailTakesNext ==
    ASSUME EventList, SoundTables, events' = events,
           NEW n \in Nat, n + 1 \in 1..Len(events),
           NEW t \in Targets, t = events[n + 1].target, HasReplayed(t, n),
           NEW s \in Sample, s = events[n + 1].sample,
           trail'[t] = IF IsNewest(t, s) THEN Append(trail[t], s) ELSE trail[t]
    PROVE  HasReplayed(t, n + 1)'
<1>1. /\ trail[t] \in Seq(Sample)
      /\ s.observed_at \in Nat
  BY SampleAssumption DEF SoundTables
<1>2. PICK m \in Nat : m = Len(trail[t]) /\ DOMAIN trail[t] = 1..m
  BY <1>1, LenProperties
<1>3. IsNewest(t, s) <=> n + 1 \in NewestAt(t, n + 1)
  BY NextIsNewest
<1>4. NewestSamples(t, n + 1) = NewestSamples(t, n) \cup
                                  (IF IsNewest(t, s) THEN {s} ELSE {})
  BY <1>3, NewestGrows DEF NewestSamples
<1>5. /\ {trail[t][k] : k \in DOMAIN trail[t]} = NewestSamples(t, n)
      /\ \A p \in 1..n : events[p].target = t =>
           \E k \in 1..m : events[p].sample.observed_at <= trail[t][k].observed_at
  BY <1>2 DEF HasReplayed
<1>6. NewestSamples(t, n + 1)' = NewestSamples(t, n + 1)
  BY DEF NewestSamples, NewestAt
<1>7. CASE IsNewest(t, s)
  <2>1. PICK U : U = Append(trail[t], s)
    OBVIOUS
  <2>2. /\ trail'[t] = U /\ DOMAIN U = 1..(m + 1)
        /\ \A k \in 1..m : U[k] = trail[t][k]
        /\ U[m + 1] = s
    BY <1>1, <1>2, <1>7, <2>1, AppendProperties, LenProperties
  <2>3. {U[k] : k \in 1..(m + 1)} = {trail[t][k] : k \in 1..m} \cup {s}
    <3>1. \A k \in 1..(m + 1) : k \in 1..m \/ k = m + 1
      OBVIOUS
    <3>2. \A k \in 1..m : k \in 1..(m + 1)
      OBVIOUS
    <3>3. m + 1 \in 1..(m + 1)
      OBVIOUS
    <3> QED
      BY <2>2, <3>1, <3>2, <3>3
  <2>4. {U[k] : k \in DOMAIN U} = NewestSamples(t, n + 1)
    BY <1>2, <1>4, <1>5, <1>7, <2>2, <2>3
  <2>5. ASSUME NEW p \in 1..(n + 1), events[p].target = t
        PROVE  \E k \in DOMAIN U : events[p].sample.observed_at <= U[k].observed_at
    <3>1. CASE p \in 1..n
      <4>1. PICK k \in 1..m : events[p].sample.observed_at <= trail[t][k].observed_at
        BY <1>5, <2>5, <3>1
      <4>2. k \in DOMAIN U /\ U[k] = trail[t][k]
        BY <2>2
      <4> QED
        BY <4>1, <4>2
    <3>2. CASE p = n + 1
      <4>1. m + 1 \in DOMAIN U /\ U[m + 1] = s
        BY <2>2
      <4>2. events[p].sample.observed_at <= s.observed_at
        BY <1>1, <3>2
      <4> QED
        BY <4>1, <4>2
    <3> QED
      BY <3>1, <3>2
  <2> QED
    <3>1. {U[k] : k \in DOMAIN U} = NewestSamples(t, n + 1)'
      BY <1>6, <2>4
    <3>2. {trail'[t][k] : k \in DOMAIN trail'[t]} = {U[k] : k \in DOMAIN U}
      BY <2>2
    <3>3. {trail'[t][k] : k \in DOMAIN trail'[t]} = NewestSamples(t, n + 1)'
      BY <3>1, <3>2
    <3>4. \A p \in 1..(n + 1) : events'[p].target = t =>
            \E k \in DOMAIN trail'[t] :
                events'[p].sample.observed_at <= trail'[t][k].observed_at
      BY <2>2, <2>5
    <3> QED
      BY <3>3, <3>4 DEF HasReplayed
<1>8. CASE ~IsNewest(t, s)
  <2>1. trail'[t] = trail[t] /\ NewestSamples(t, n + 1) = NewestSamples(t, n)
    BY <1>4, <1>8
  <2>2. PICK k \in 1..m : s.observed_at <= trail[t][k].observed_at
    <3>1. PICK k \in 1..m : ~(trail[t][k].observed_at < s.observed_at)
      BY <1>2, <1>8 DEF IsNewest
    <3>2. trail[t][k].observed_at \in Nat
      BY <1>1, <1>2, ElementOfSeq, SampleAssumption
    <3> QED
      BY <1>1, <3>1, <3>2
  <2>3. \A p \in 1..(n + 1) : p \in 1..n \/ p = n + 1
    OBVIOUS
  <2>4. \A p \in 1..(n + 1) : events[p].target = t =>
          \E i \in 1..m : events[p].sample.observed_at <= trail[t][i].observed_at
    BY <1>5, <2>2, <2>3
  <2> QED
    BY <1>2, <1>5, <1>6, <2>1, <2>4 DEF HasReplayed
<1> QED
  BY <1>7, <1>8

(* The other targets have replayed one more event, which is not theirs.    *)
LEMMA OthersReplayed ==
    ASSUME EventList, events' = events, NEW n \in Nat,
           NEW u \in Targets, u # events[n + 1].target, HasReplayed(u, n),
           trail'[u] = trail[u]
    PROVE  HasReplayed(u, n + 1)'
<1>1. n + 1 \notin NewestAt(u, n + 1)
  BY DEF NewestAt
<1>2. NewestAt(u, n + 1) = NewestAt(u, n)
  BY <1>1, NewestGrows
<1>3. NewestSamples(u, n + 1) = NewestSamples(u, n)
  BY <1>2 DEF NewestSamples
<1>4. \A p \in 1..(n + 1) : events[p].target = u => p \in 1..n
  OBVIOUS
<1> QED
  BY <1>3, <1>4 DEF HasReplayed, NewestSamples, NewestAt

(* A step that moves no trail and no event leaves what has been replayed.  *)
LEMMA ReplayStands ==
    ASSUME events' = events, trail' = trail,
           NEW t, NEW n, HasReplayed(t, n)
    PROVE  HasReplayed(t, n)'
BY DEF HasReplayed, NewestSamples, NewestAt

(* Where the cursors of ReplayInv stand.                                   *)
CursorsInPlace ==
    \A w \in Workers :
        /\ pc[w] \in {"stopped", "unlaunched"} => cursor[w] = 1 /\ seen[w] = 0
        /\ pc[w] \in {"idle", "done"} /\ seen[w] > 0 => cursor[w] = seen[w] + 1

(* A worker that moves over tables and events that stand still.            *)
LEMMA ReplayMoves ==
    ASSUME WorkerInv, ReplayInv, NEW w \in Workers,
           UNCHANGED <<vars, events>>,
           NEW a, NEW c, NEW n, NEW l, MovesTo(w, a, c, n, l),
           c = 1 \/ c = cursor[w],
           a \in {"stopped", "unlaunched"} => c = 1 /\ n = 0,
           a \in {"idle", "done"} /\ n > 0 => c = n + 1
    PROVE  ReplayInv'
<1>1. PICK k \in 0..Len(events) :
        /\ \A t \in Targets : HasReplayed(t, k)
        /\ \A v \in Workers : cursor[v] <= k + 1
  BY DEF ReplayInv
<1>2. k \in 0..Len(events') /\ k \in Nat
  BY InvParts, LenProperties DEF EventList
<1>3. \A t \in Targets : HasReplayed(t, k)'
  BY <1>1, ReplayStands DEF vars
<1>4. \A v \in Workers : cursor'[v] <= k + 1
  BY <1>1, <1>2 DEF MovesTo
<1>5. CursorsInPlace'
  BY DEF ReplayInv, MovesTo, CursorsInPlace
<1> QED
  BY <1>2, <1>3, <1>4, <1>5 DEF ReplayInv, CursorsInPlace

(* The next event of a poll: either it has been evaluated before, and no   *)
(* trail moves, or it is the one after all that have.                      *)
LEMMA CommitReplays ==
    ASSUME WorkerInv, ReplayInv, NEW w \in Workers, Commit(w)
    PROVE  ReplayInv'
<1>1. /\ InPlace(w) /\ EventList /\ SoundTables /\ WorkerDomains
      /\ InTransaction(w) /\ Len(events) \in Nat
  BY InvParts, LenProperties DEF Commit, EventList
<1>2. PICK t \in Targets, s \in Sample, c \in 1..Len(events) :
        t = TargetOf(w) /\ s = events[c].sample /\ c = cursor[w]
  BY <1>1, EventInTransaction
<1>3. t = events[c].target
  BY <1>2 DEF TargetOf
<1>4. PICK n \in 0..Len(events) :
        /\ \A u \in Targets : HasReplayed(u, n)
        /\ \A v \in Workers : cursor[v] <= n + 1
  BY DEF ReplayInv
<1>5. /\ events' = events
      /\ trail' = [trail EXCEPT ![t] =
                      IF IsNewest(t, s) THEN Append(trail[t], s) ELSE trail[t]]
  BY <1>2 DEF Commit
<1>6. MovesTo(w, "polling", c + 1, seen[w], DefaultState)
  BY <1>1, <1>2 DEF Commit, MovesTo, WorkerDomains
<1>7. CursorsInPlace'
  BY <1>6 DEF ReplayInv, MovesTo, CursorsInPlace
<1>8. ASSUME NEW k \in 0..Len(events), n <= k, c <= k,
             \A u \in Targets : HasReplayed(u, k)'
      PROVE  ReplayInv'
  <2>1. ASSUME NEW v \in Workers PROVE cursor'[v] <= k + 1
    <3>1. CASE v = w
      BY <1>6, <1>8, <3>1 DEF MovesTo
    <3>2. CASE v # w
      <4>1. cursor'[v] = cursor[v]
        BY <1>6, <3>2 DEF MovesTo
      <4>2. cursor[v] <= n + 1
        BY <1>4
      <4>3. cursor[v] \in Int
        <5>1. seen[v] \in 0..Len(events) /\ cursor[v] \in 1..(seen[v] + 1)
          BY InvParts DEF InPlace
        <5> QED
          BY <1>1, <5>1
      <4> QED
        BY <1>1, <1>8, <4>1, <4>2, <4>3
    <3> QED
      BY <3>1, <3>2
  <2> QED
    BY <1>5, <1>7, <1>8, <2>1 DEF ReplayInv, CursorsInPlace
<1>9. CASE c <= n
  <2>1. c \in 1..n
    BY <1>9
  <2>2. ~IsNewest(t, s)
    BY <1>1, <1>2, <1>3, <1>4, <2>1, OldEvent
  <2>3. trail' = trail
    BY <1>1, <1>5, <2>2 DEF SoundTables
  <2>4. \A u \in Targets : HasReplayed(u, n)'
    BY <1>4, <1>5, <2>3, ReplayStands
  <2> QED
    BY <1>8, <1>9, <2>4
<1>10. CASE c = n + 1
  <2>1. n \in Nat /\ n + 1 \in 1..Len(events) /\ n + 1 \in 0..Len(events)
    BY <1>1, <1>10
  <2>2. trail'[t] = IF IsNewest(t, s) THEN Append(trail[t], s) ELSE trail[t]
    BY <1>1, <1>5 DEF SoundTables
  <2>3. HasReplayed(t, n + 1)'
    BY <1>1, <1>2, <1>3, <1>4, <1>5, <1>10, <2>1, <2>2, TrailTakesNext
  <2>4. ASSUME NEW u \in Targets, u # t PROVE HasReplayed(u, n + 1)'
    <3>1. trail'[u] = trail[u]
      BY <1>1, <1>5, <2>4 DEF SoundTables
    <3> QED
      BY <1>1, <1>3, <1>4, <1>5, <1>10, <2>1, <2>4, <3>1, OthersReplayed
  <2>5. \A u \in Targets : HasReplayed(u, n + 1)'
    BY <2>3, <2>4
  <2>6. n <= n + 1 /\ c <= n + 1
    BY <1>10, <2>1
  <2> QED
    BY <1>8, <2>1, <2>5, <2>6
<1>11. c <= n + 1
  BY <1>2, <1>4
<1> QED
  BY <1>9, <1>10, <1>11

(* Before anything is evaluated nothing has been replayed.                 *)
LEMMA NothingReplayed ==
    ASSUME NEW t \in Targets, trail[t] = <<>>
    PROVE  HasReplayed(t, 0)
BY DEF HasReplayed, NewestSamples, NewestAt

(* Every step keeps the trails those of a replay.                          *)
LEMMA ReplayStep ==
    ASSUME OneAtATime, WorkerInv, ReplayInv, WorkerNext
    PROVE  ReplayInv'
<1>1. /\ EventList /\ WorkerDomains /\ \A w \in Workers : InPlace(w)
      /\ Len(events) \in Nat
  BY InvParts, LenProperties DEF EventList
<1>2. ASSUME NEW t \in Targets, NEW s \in Sample, Accept(t, s)
      PROVE  ReplayInv'
  <2>1. /\ trail' = trail /\ pc' = pc /\ cursor' = cursor /\ seen' = seen
    BY <1>2 DEF Accept, vars, processVars
  <2>2. PICK e : e = [target |-> t, sample |-> s]
    OBVIOUS
  <2>3. events' = Append(events, e)
    BY <1>2, <2>2 DEF Accept
  <2>4. Len(events') = Len(events) + 1
    <3>1. e \in [target : Targets, sample : Sample]
      BY <2>2
    <3> QED
      BY <1>1, <2>3, <3>1, AppendProperties DEF EventList
  <2>5. PICK n \in 0..Len(events) :
          /\ \A u \in Targets : HasReplayed(u, n)
          /\ \A v \in Workers : cursor[v] <= n + 1
    BY DEF ReplayInv
  <2>6. \A u \in Targets : HasReplayed(u, n)'
    BY <1>1, <2>1, <2>3, <2>5, PrefixStands
  <2>7. n \in 0..Len(events')
    BY <1>1, <2>4
  <2>8. CursorsInPlace'
    BY <2>1 DEF ReplayInv, CursorsInPlace
  <2> QED
    BY <2>1, <2>5, <2>6, <2>7, <2>8 DEF ReplayInv, CursorsInPlace
<1>3. ASSUME NEW w \in Workers, StartPoll(w) PROVE ReplayInv'
  <2>1. MovesTo(w, "polling", 1, Len(events), loaded[w])
    BY <1>1, <1>3 DEF StartPoll, MovesTo, WorkerDomains
  <2> QED
    BY <1>3, <2>1, ReplayMoves DEF StartPoll
<1>4. ASSUME NEW w \in Workers, Load(w) PROVE ReplayInv'
  <2>1. MovesTo(w, "loaded", cursor[w], seen[w], states[TargetOf(w)])
    BY <1>1, <1>4 DEF Load, MovesTo, WorkerDomains
  <2> QED
    BY <1>4, <2>1, ReplayMoves DEF Load
<1>5. ASSUME NEW w \in Workers, FinishPoll(w) PROVE ReplayInv'
  <2>1. PICK a \in {"idle", "done"} :
          MovesTo(w, a, cursor[w], seen[w], loaded[w])
    <3>1. MovesTo(w, IF w \in OneShots THEN "done" ELSE "idle",
                  cursor[w], seen[w], loaded[w])
      BY <1>1, <1>5 DEF FinishPoll, MovesTo, WorkerDomains
    <3> QED
      BY <3>1
  <2>2. cursor[w] = seen[w] + 1
    <3>1. /\ cursor[w] > seen[w]
          /\ seen[w] \in 0..Len(events) /\ cursor[w] \in 1..(seen[w] + 1)
      BY <1>1, <1>5 DEF FinishPoll, InPlace
    <3> QED
      BY <1>1, <3>1
  <2>3. UNCHANGED <<vars, events>>
    BY <1>5 DEF FinishPoll
  <2>4. a \notin {"stopped", "unlaunched"}
    OBVIOUS
  <2> QED
    BY <2>1, <2>2, <2>3, <2>4, ReplayMoves
<1>6. ASSUME NEW w \in Workers, Crash(w) \/ Abort(w) \/ StopService(w)
      PROVE  ReplayInv'
  <2>1. PICK a \in {"idle", "failed", "stopped"} : Ends(w, a)
    BY <1>6 DEF Crash, Abort, StopService
  <2>2. MovesTo(w, a, 1, 0, DefaultState)
    BY <2>1, EndsMoves
  <2> QED
    BY <2>1, <2>2, ReplayMoves DEF Ends
<1>7. ASSUME NEW w \in Workers, StartService(w) PROVE ReplayInv'
  <2>1. pc[w] = "stopped" /\ cursor[w] = 1 /\ seen[w] = 0
    BY <1>7 DEF StartService, ReplayInv
  <2>2. MovesTo(w, "idle", 1, 0, loaded[w])
    BY <1>1, <1>7, <2>1 DEF StartService, MovesTo, WorkerDomains
  <2>3. UNCHANGED <<vars, events>>
    BY <1>7 DEF StartService
  <2> QED
    BY <2>2, <2>3, ReplayMoves
<1>8. ASSUME NEW w \in Workers, Commit(w) PROVE ReplayInv'
  BY <1>8, CommitReplays
<1>9. ASSUME NEW w \in Workers, LaunchReset(w) PROVE ReplayInv'
  <2>1. w \in OneShots /\ \A v \in Workers \ {w} : pc[v] = "stopped"
    BY <1>9 DEF LaunchReset, OneAtATime, Workers
  <2>2. \A v \in Workers : cursor[v] = 1 /\ seen[v] = 0
    BY <1>9, <2>1 DEF LaunchReset, ReplayInv
  <2>3. cursor' = cursor /\ seen' = seen /\ events' = events
    BY <1>9 DEF LaunchReset
  <2>4. \A t \in Targets : HasReplayed(t, 0)'
    <3>1. \A t \in Targets : trail'[t] = <<>>
      BY <1>9 DEF LaunchReset, ResetEvaluation, Empty
    <3> QED
      BY <3>1 DEF HasReplayed, NewestSamples, NewestAt
  <2>5. 0 \in 0..Len(events') /\ \A v \in Workers : cursor'[v] <= 0 + 1
    BY <1>1, <2>2, <2>3
  <2>6. CursorsInPlace'
    BY <2>2, <2>3 DEF CursorsInPlace
  <2> QED
    BY <2>4, <2>5, <2>6 DEF ReplayInv, CursorsInPlace
<1> QED
  BY <1>2, <1>3, <1>4, <1>5, <1>6, <1>7, <1>8, <1>9 DEF WorkerNext

(* The trails are at every moment those of an undisturbed replay of the    *)
(* first events, and no worker is beyond them.                             *)
THEOREM TrailsOfAReplay ==
    ASSUME OneAtATime
    PROVE  WorkerSpec => []ReplayInv
<1>1. WorkerInit => ReplayInv
  <2> SUFFICES ASSUME WorkerInit PROVE ReplayInv
    OBVIOUS
  <2>1. \A t \in Targets : HasReplayed(t, 0)
    BY NothingReplayed DEF WorkerInit, EvaluatorInit, Empty
  <2>2. \A w \in Workers : cursor[w] = 1 /\ seen[w] = 0
    BY DEF WorkerInit
  <2>3. 0 \in 0..Len(events)
    BY DEF WorkerInit
  <2> QED
    BY <2>1, <2>2, <2>3 DEF ReplayInv
<1>2. WorkerInv /\ ReplayInv /\ [WorkerNext]_workerVars => ReplayInv'
  <2> SUFFICES ASSUME WorkerInv, ReplayInv, [WorkerNext]_workerVars
               PROVE  ReplayInv'
    OBVIOUS
  <2>1. CASE WorkerNext
    BY <2>1, ReplayStep
  <2>2. CASE UNCHANGED workerVars
    <3>1. /\ events' = events /\ trail' = trail
          /\ pc' = pc /\ cursor' = cursor /\ seen' = seen
      BY <2>2 DEF workerVars, vars, processVars
    <3>2. PICK n \in 0..Len(events) :
            /\ \A t \in Targets : HasReplayed(t, n)
            /\ \A v \in Workers : cursor[v] <= n + 1
      BY DEF ReplayInv
    <3>3. \A t \in Targets : HasReplayed(t, n)'
      BY <3>1, <3>2, ReplayStands
    <3>4. CursorsInPlace'
      BY <3>1 DEF ReplayInv, CursorsInPlace
    <3> QED
      BY <3>1, <3>2, <3>3, <3>4 DEF ReplayInv, CursorsInPlace
  <2> QED
    BY <2>1, <2>2
<1> QED
  BY <1>1, <1>2, WorkerInvariant, PTL DEF WorkerSpec

(* When a poll has finished and no event has come since, the issue table   *)
(* is the one a replay of all accepted events calls for: whatever crashes, *)
(* restarts and resets came before, no event is counted twice or left out  *)
(* (evaluate_active_rules, reset_evaluation).                              *)
THEOREM FinishedPollIsReplay ==
    ASSUME OneAtATime
    PROVE  WorkerSpec => []PollIsReplay
<1>1. WorkerInv /\ ReplayInv /\ ContractInv => PollIsReplay
  <2> SUFFICES ASSUME WorkerInv, ReplayInv, ContractInv,
                      NEW w \in Workers, pc[w] \in {"idle", "done"},
                      seen[w] > 0, seen[w] = Len(events), NEW t \in Targets
               PROVE  MeetsContract(t, Replayed(t, seen[w]), issues[t])
    BY DEF PollIsReplay
  <2>1. PICK n \in 0..Len(events) :
          /\ \A u \in Targets : HasReplayed(u, n)
          /\ \A v \in Workers : cursor[v] <= n + 1
    BY DEF ReplayInv
  <2>2. Len(events) \in Nat
    BY InvParts, LenProperties DEF EventList
  <2>3. cursor[w] = seen[w] + 1
    BY DEF ReplayInv
  <2>4. n = seen[w]
    BY <2>1, <2>2, <2>3
  <2>5. {trail[t][k] : k \in DOMAIN trail[t]} = NewestSamples(t, seen[w])
    BY <2>1, <2>4 DEF HasReplayed
  <2>6. Increasing(trail[t]) /\ MeetsContract(t, trail[t], issues[t])
    BY DEF ContractInv
  <2>7. trail[t] \in Seq(Sample)
    BY InvParts DEF SoundTables
  <2>8. Replayed(t, seen[w]) = trail[t]
    BY <2>5, <2>6, <2>7, TrailInOrder DEF Replayed
  <2> QED
    BY <2>6, <2>8
<1> QED
  BY <1>1, WorkerInvariant, TrailsOfAReplay, WorkersImplementEvaluator,
     TablesAreTheTrails, PTL DEF ImplementsEvaluator
=============================================================================
