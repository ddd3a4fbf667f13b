--------------------------- MODULE ActiveRulesProofs ---------------------------
(***************************************************************************)
(* Proofs about ActiveRules: the polling of any number of rules over any   *)
(* events implements the evaluator, what has moved a target on is the      *)
(* replay of a first part of the events, and its issues are those that     *)
(* this replay calls for, each event judged in a property where a preview  *)
(* found its AHU.                                                          *)
(***************************************************************************)
EXTENDS ActiveRules, ContractProofs

-----------------------------------------------------------------------------
(* The inductive invariant.                                                *)

EventType == [ahu : Ahus, sample : Received]

ActiveRulesTypeOK ==
    /\ events \in Seq(EventType)
    /\ active \in [Rules -> Versions \cup {None}]
    /\ found  \in [Versions -> [Ahus -> SUBSET Properties]]
    /\ placed \in [Versions -> [Ahus -> SUBSET Properties]]
    /\ poll \in [ queue   : SUBSET Versions,
                  targets : SUBSET [ahu : Ahus, property : Properties],
                  pending : SUBSET (1..Len(events)) ]

(* A poll evaluates one version of a rule.                                 *)
OneVersionEach == \A u, v \in poll.queue : RuleOf[u] = RuleOf[v] => u = v

(* Only where a preview of its version could find an AHU, now or before,   *)
(* is it found, evaluated and has it been evaluated.                       *)
InKnownPlaces ==
    /\ \A v \in Versions, a \in Ahus : found[v][a] \subseteq placed[v][a]
    /\ \A v \in Turn, m \in poll.targets : m.property \in placed[v][m.ahu]
    /\ \A t \in Targets : \A k \in DOMAIN trail[t] :
         trail[t][k].property \in placed[t.version][t.ahu]

(* The first n events are behind target t: they alone moved it, and none   *)
(* of them would move it again.                                            *)
HasReplayed(t, n) ==
    /\ {Raw(trail[t][k]) : k \in DOMAIN trail[t]} = SamplesAt(NewestAt(t.ahu, n))
    /\ \A i \in 1..n :
         events[i].ahu = t.ahu =>
             \E k \in DOMAIN trail[t] :
                 events[i].sample.observed_at <= trail[t][k].observed_at

(* While a version has its turn, whatever lies before a pending event of   *)
(* an AHU and is no longer pending has been evaluated.                     *)
HasPassed(t, n) ==
    t.version \in Turn =>
        \A i \in DOMAIN events \ poll.pending, p \in poll.pending :
            events[i].ahu = t.ahu /\ events[p].ahu = t.ahu /\ i < p => i <= n

ActiveRulesInv ==
    /\ ActiveRulesTypeOK
    /\ OneVersionEach
    /\ trail \in [Targets -> Seq(Sample)]
    /\ InKnownPlaces
    /\ \A t \in Targets : \E n \in 0..Len(events) :
         HasReplayed(t, n) /\ HasPassed(t, n)

-----------------------------------------------------------------------------
(* Events and the samples made of them.                                    *)

(* What a preview makes of an event is a sample of the same time.          *)
LEMMA EventAsSample ==
  ASSUME NEW r \in Received, NEW p \in Properties
  PROVE  /\ In(r, p) \in Sample
         /\ Raw(In(r, p)) = r
         /\ In(r, p).observed_at = r.observed_at
         /\ In(r, p).property = p
         /\ r.observed_at \in Nat
<1>1. PICK s \in Sample : r = [observed_at |-> s.observed_at, readings |-> s.readings]
  BY DEF Received, Raw
<1>2. In(r, p) \in Sample
  BY ActiveRulesAssumption
<1>3. s.observed_at \in Nat
  BY SampleAssumption
<1> QED
  BY <1>1, <1>2, <1>3 DEF In, Raw

(* A sample is an event and the property it is judged in.                  *)
LEMMA SampleAsEvent ==
  ASSUME NEW s \in Sample
  PROVE  /\ Raw(s) \in Received
         /\ s.property \in Properties
         /\ s = In(Raw(s), s.property)
         /\ Raw(s).observed_at = s.observed_at
         /\ s.observed_at \in Nat
<1>1. PICK r \in Received, p \in Properties : s = In(r, p)
  BY ActiveRulesAssumption
<1>2. Raw(s) \in Received
  BY DEF Received
<1>3. Raw(s) = r /\ s.property = p /\ s.observed_at = r.observed_at /\ r.observed_at \in Nat
  BY <1>1, EventAsSample
<1> QED
  BY <1>1, <1>2, <1>3

-----------------------------------------------------------------------------
(* The turn.                                                               *)

(* Two versions never have their turn at once.                             *)
LEMMA OneTurn ==
  ASSUME ActiveRulesTypeOK, OneVersionEach, NEW u \in Turn, NEW v \in Turn
  PROVE  u = v
<1>1. /\ u \in poll.queue /\ v \in poll.queue
      /\ RuleOf[u] <= RuleOf[v] /\ RuleOf[v] <= RuleOf[u]
  BY DEF Turn
<1>2. RuleOf[u] \in Nat /\ RuleOf[v] \in Nat
  BY <1>1, ActiveRulesAssumption DEF ActiveRulesTypeOK
<1> QED
  BY <1>1, <1>2 DEF OneVersionEach

(* A target is a version and an AHU and nothing else.                      *)
LEMMA TargetIsRecord ==
  ASSUME NEW t \in Targets
  PROVE  t.version \in Versions /\ t.ahu \in Ahus /\ t = [version |-> t.version, ahu |-> t.ahu]
BY ActiveRulesAssumption

(* What an evaluation is about: a version of the poll and an event of its  *)
(* list before which none is pending.                                      *)
LEMMA NextIsTarget ==
  ASSUME ActiveRulesTypeOK, NEW v \in Turn, NEW i \in NextEvents,
         NEW m \in poll.targets
  PROVE  /\ v \in poll.queue
         /\ i \in poll.pending
         /\ \A j \in poll.pending : i <= j
         /\ i \in DOMAIN events
         /\ events[i] \in EventType
         /\ m.ahu \in Ahus /\ m.property \in Properties
         /\ [version |-> v, ahu |-> m.ahu] \in Targets
         /\ In(events[i].sample, m.property) \in Sample
         /\ Raw(In(events[i].sample, m.property)) = events[i].sample
         /\ In(events[i].sample, m.property).observed_at = events[i].sample.observed_at
         /\ In(events[i].sample, m.property).property = m.property
<1>1. v \in poll.queue /\ v \in Versions
  BY DEF Turn, ActiveRulesTypeOK
<1>2. i \in poll.pending /\ \A j \in poll.pending : i <= j
  BY DEF NextEvents
<1>3. i \in DOMAIN events /\ events[i] \in EventType
  <2>1. poll.pending \subseteq 1..Len(events)
    BY DEF ActiveRulesTypeOK
  <2>2. events \in Seq(EventType)
    BY DEF ActiveRulesTypeOK
  <2>3. i \in 1..Len(events)
    BY <1>2, <2>1
  <2>4. i \in DOMAIN events
    BY <2>2, <2>3
  <2>5. events[i] \in EventType
    BY <2>2, <2>3, ElementOfSeq
  <2> QED
    BY <2>4, <2>5
<1>4. m.ahu \in Ahus /\ m.property \in Properties
  BY DEF ActiveRulesTypeOK
<1>5. [version |-> v, ahu |-> m.ahu] \in Targets
  BY <1>1, <1>4, ActiveRulesAssumption
<1>6. events[i].sample \in Received
  BY <1>3 DEF EventType
<1> QED
  BY <1>1, <1>2, <1>3, <1>4, <1>5, <1>6, EventAsSample

-----------------------------------------------------------------------------
(* Types and the versions of a poll.                                       *)

(* A poll without one of its versions is a poll with nothing pending.      *)
LEMMA WithoutIsPoll ==
  ASSUME ActiveRulesTypeOK, OneVersionEach, NEW v, poll' = Without(v), events' = events
  PROVE  /\ poll' \in [ queue   : SUBSET Versions,
                        targets : SUBSET [ahu : Ahus, property : Properties],
                        pending : SUBSET (1..Len(events)) ]
         /\ poll'.pending = {}
         /\ poll'.targets = {}
         /\ poll'.queue \subseteq poll.queue
BY DEF ActiveRulesTypeOK, Without, NoPoll

(* A poll that only loses versions holds one of each rule if it did        *)
(* before.                                                                 *)
LEMMA SmallerQueue ==
  ASSUME OneVersionEach, poll'.queue \subseteq poll.queue
  PROVE  OneVersionEach'
BY DEF OneVersionEach

(* Every step keeps the types, and a poll to one version of a rule.        *)
LEMMA StepKeepsTypes ==
  ASSUME ActiveRulesTypeOK, OneVersionEach, [ActiveRulesNext]_activeRulesVars
  PROVE  ActiveRulesTypeOK' /\ OneVersionEach'
<1>1. ASSUME NEW a \in Ahus, NEW s \in Received, Accept(a, s)
      PROVE  ActiveRulesTypeOK' /\ OneVersionEach'
  BY <1>1 DEF Accept, ActiveRulesTypeOK, OneVersionEach, EventType
<1>2. ASSUME NEW r \in Rules, NEW v \in VersionsOf(r) \cup {None}, Switch(r, v)
      PROVE  ActiveRulesTypeOK' /\ OneVersionEach'
  BY <1>2 DEF Switch, ActiveRulesTypeOK, OneVersionEach, VersionsOf
<1>3. ASSUME NEW v \in Versions, NEW where \in [Ahus -> SUBSET Properties],
             Rescope(v, where)
      PROVE  ActiveRulesTypeOK' /\ OneVersionEach'
  BY <1>3 DEF Rescope, ActiveRulesTypeOK, OneVersionEach
<1>4. CASE StartPoll
  <2>1. poll' = [ queue   |-> {v \in Versions : active[RuleOf[v]] = v},
                  targets |-> {},
                  pending |-> {} ]
    BY <1>4 DEF StartPoll, NoPoll
  <2>2. UNCHANGED <<events, active, found, placed>>
    BY <1>4 DEF StartPoll
  <2>3. ActiveRulesTypeOK'
    BY <2>1, <2>2 DEF ActiveRulesTypeOK
  <2>4. OneVersionEach'
    BY <2>1 DEF OneVersionEach
  <2> QED
    BY <2>3, <2>4
<1>5. CASE Preview
  <2>1. PICK v \in Turn, place \in [Ahus -> Properties] :
          poll' = IF Matched(v) = {} THEN Without(v)
                  ELSE [poll EXCEPT !.targets =
                           {[ahu |-> a, property |-> place[a]] : a \in Matched(v)}]
    BY <1>5 DEF Preview
  <2>2. UNCHANGED <<events, active, found, placed>>
    BY <1>5 DEF Preview
  <2>3. CASE Matched(v) = {}
    BY <2>1, <2>2, <2>3, WithoutIsPoll, SmallerQueue DEF ActiveRulesTypeOK
  <2>4. CASE Matched(v) # {}
    <3> DEFINE targets == {[ahu |-> a, property |-> place[a]] : a \in Matched(v)}
    <3>1. targets \in SUBSET [ahu : Ahus, property : Properties]
      BY DEF Matched
    <3>2. poll' = [poll EXCEPT !.targets = targets]
      BY <2>1, <2>4
    <3> HIDE DEF targets
    <3> QED
      BY <2>2, <3>1, <3>2 DEF ActiveRulesTypeOK, OneVersionEach
  <2> QED
    BY <2>3, <2>4
<1>6. CASE ReadEvents
  <2> DEFINE mine == {i \in DOMAIN events : \E m \in poll.targets : m.ahu = events[i].ahu}
  <2>1. PICK v \in Turn :
          poll' = IF mine = {} THEN Without(v)
                  ELSE [poll EXCEPT !.pending = mine]
    BY <1>6 DEF ReadEvents
  <2>2. UNCHANGED <<events, active, found, placed>>
    BY <1>6 DEF ReadEvents
  <2>3. CASE mine = {}
    BY <2>1, <2>2, <2>3, WithoutIsPoll, SmallerQueue DEF ActiveRulesTypeOK
  <2>4. CASE mine # {}
    <3>1. mine \subseteq 1..Len(events)
      BY DEF ActiveRulesTypeOK
    <3> HIDE DEF mine
    <3> QED
      BY <2>1, <2>2, <2>4, <3>1 DEF ActiveRulesTypeOK, OneVersionEach
  <2> QED
    BY <2>3, <2>4
<1>7. CASE EvaluateNext
  <2>1. PICK v \in Turn, i \in NextEvents :
          poll' = IF poll.pending = {i} THEN Without(v)
                  ELSE [poll EXCEPT !.pending = @ \ {i}]
    BY <1>7 DEF EvaluateNext
  <2>2. UNCHANGED <<events, active, found, placed>>
    BY <1>7 DEF EvaluateNext
  <2>3. CASE poll.pending = {i}
    BY <2>1, <2>2, <2>3, WithoutIsPoll, SmallerQueue DEF ActiveRulesTypeOK
  <2>4. CASE poll.pending # {i}
    BY <2>1, <2>2, <2>4 DEF ActiveRulesTypeOK, OneVersionEach
  <2> QED
    BY <2>3, <2>4
<1>8. CASE Crash
  BY <1>8 DEF Crash, NoPoll, ActiveRulesTypeOK, OneVersionEach
<1>9. CASE UNCHANGED activeRulesVars
  BY <1>9 DEF activeRulesVars, ActiveRulesTypeOK, OneVersionEach
<1> QED
  BY <1>1, <1>2, <1>3, <1>4, <1>5, <1>6, <1>7, <1>8, <1>9 DEF ActiveRulesNext

-----------------------------------------------------------------------------
(* Refinement.                                                             *)

(* A step of the poll is one evaluate_sample, and no other step touches a  *)
(* table of the evaluator.                                                 *)
LEMMA StepIsEvaluatorStep ==
  ASSUME ActiveRulesTypeOK, OneVersionEach, [ActiveRulesNext]_activeRulesVars
  PROVE  [EvaluatorNext]_vars
<1>1. CASE EvaluateNext
  <2>1. PICK v \in Turn, i \in NextEvents, m \in poll.targets :
          EvaluateSample([version |-> v, ahu |-> m.ahu], In(events[i].sample, m.property))
    BY <1>1 DEF EvaluateNext
  <2>2. /\ [version |-> v, ahu |-> m.ahu] \in Targets
        /\ In(events[i].sample, m.property) \in Sample
    BY NextIsTarget
  <2> QED
    BY <2>1, <2>2 DEF EvaluatorNext
<1>2. CASE ~EvaluateNext
  BY <1>2 DEF ActiveRulesNext, activeRulesVars, Accept, Switch, Rescope, StartPoll,
              Preview, ReadEvents, Crash
<1> QED
  BY <1>1, <1>2

-----------------------------------------------------------------------------
(* The replay.                                                             *)

(* Events are only added behind, so the places of the first n stay.        *)
LEMMA PrefixKeepsNewest ==
  ASSUME ActiveRulesTypeOK,
         NEW a \in Ahus, NEW e \in EventType,
         events' = Append(events, e),
         NEW n \in 0..Len(events)
  PROVE  /\ NewestAt(a, n)' = NewestAt(a, n)
         /\ SamplesAt(NewestAt(a, n))' = SamplesAt(NewestAt(a, n))
         /\ \A i \in 1..n : events'[i] = events[i]
         /\ n \in 0..Len(events')
<1>1. events \in Seq(EventType)
  BY DEF ActiveRulesTypeOK
<1>2. /\ Len(events') = Len(events) + 1
      /\ \A i \in 1..Len(events) : events'[i] = events[i]
  BY <1>1, AppendProperties
<1>3. Len(events) \in Nat
  BY <1>1
<1>4. \A i \in 1..n : events'[i] = events[i]
  BY <1>2, <1>3
<1>5. \A i \in 1..n : 1..(i-1) \subseteq 1..n
  BY <1>3
<1>6. NewestAt(a, n)' = NewestAt(a, n)
  BY <1>4, <1>5 DEF NewestAt
<1>7. SamplesAt(NewestAt(a, n))' = SamplesAt(NewestAt(a, n))
  BY <1>4, <1>6 DEF SamplesAt, NewestAt
<1> QED
  BY <1>2, <1>3, <1>4, <1>6, <1>7

(* A target for which nothing happens: no event, no evaluation of its own  *)
(* and, while it has its turn, nothing of its AHU stops being pending.     *)
LEMMA ReplayStays ==
  ASSUME NEW t \in Targets, NEW n \in 0..Len(events),
         HasReplayed(t, n), trail'[t] = trail[t], events' = events
  PROVE  HasReplayed(t, n)'
BY DEF HasReplayed, SamplesAt, NewestAt

(* An empty trail is the replay of no events.                              *)
LEMMA EmptyReplay ==
  ASSUME EvaluatorInit, NEW t \in Targets
  PROVE  HasReplayed(t, 0)
<1>1. DOMAIN trail[t] = {}
  BY DEF EvaluatorInit, Empty
<1>2. NewestAt(t.ahu, 0) = {}
  BY DEF NewestAt
<1> QED
  BY <1>1, <1>2 DEF HasReplayed, SamplesAt

(* The invariant holds at the start.                                       *)
LEMMA InitKeeps == ActiveRulesInit => ActiveRulesInv
<1> SUFFICES ASSUME ActiveRulesInit PROVE ActiveRulesInv
  OBVIOUS
<1>1. ActiveRulesTypeOK /\ OneVersionEach
  BY DEF ActiveRulesInit, NoPoll, ActiveRulesTypeOK, OneVersionEach
<1>2. trail \in [Targets -> Seq(Sample)]
  BY DEF ActiveRulesInit, EvaluatorInit, Empty
<1>3. ASSUME NEW t \in Targets
      PROVE  0 \in 0..Len(events) /\ HasReplayed(t, 0) /\ HasPassed(t, 0)
  BY <1>3, EmptyReplay DEF ActiveRulesInit, HasPassed, Turn, NoPoll
<1>4. InKnownPlaces
  BY DEF ActiveRulesInit, EvaluatorInit, Empty, NoPoll, Turn, InKnownPlaces
<1> QED
  BY <1>1, <1>2, <1>3, <1>4 DEF ActiveRulesInv

(* Steps that leave the tables and the events alone: the replay stays, and *)
(* it is enough that the poll has passed no further.                       *)
LEMMA PollMovesOn ==
  ASSUME ActiveRulesInv, UNCHANGED <<vars, events>>,
         \A t \in Targets, n \in 0..Len(events) : HasPassed(t, n) => HasPassed(t, n)'
  PROVE  /\ trail' \in [Targets -> Seq(Sample)]
         /\ \A t \in Targets : \E n \in 0..Len(events') :
              HasReplayed(t, n)' /\ HasPassed(t, n)'
<1>1. trail' = trail /\ events' = events
  BY DEF vars
<1>2. ASSUME NEW t \in Targets
      PROVE  \E n \in 0..Len(events') : HasReplayed(t, n)' /\ HasPassed(t, n)'
  <2>1. PICK n \in 0..Len(events) : HasReplayed(t, n) /\ HasPassed(t, n)
    BY DEF ActiveRulesInv
  <2>2. HasReplayed(t, n)'
    BY <1>1, <2>1, ReplayStays
  <2> QED
    BY <1>1, <2>1, <2>2
<1> QED
  BY <1>1, <1>2 DEF ActiveRulesInv

(* A poll with no pending events has passed any first part of the list.    *)
LEMMA NothingPending ==
  ASSUME poll'.pending = {}, NEW t, NEW n
  PROVE  HasPassed(t, n)'
BY DEF HasPassed

(* An event that arrives lies behind every first part of the list.         *)
LEMMA AcceptKeepsReplay ==
  ASSUME ActiveRulesInv, NEW a \in Ahus, NEW s \in Received, Accept(a, s),
         NEW t \in Targets, NEW n \in 0..Len(events),
         HasReplayed(t, n), HasPassed(t, n)
  PROVE  n \in 0..Len(events') /\ HasReplayed(t, n)' /\ HasPassed(t, n)'
<1> DEFINE e == [ahu |-> a, sample |-> s]
<1>1. e \in EventType /\ events' = Append(events, e)
  BY DEF Accept, EventType
<1>2. trail' = trail /\ poll' = poll
  BY DEF Accept, vars
<1>3. t.ahu \in Ahus
  BY TargetIsRecord
<1>4. ActiveRulesTypeOK
  BY DEF ActiveRulesInv
<1>5. /\ SamplesAt(NewestAt(t.ahu, n))' = SamplesAt(NewestAt(t.ahu, n))
      /\ \A i \in 1..n : events'[i] = events[i]
      /\ n \in 0..Len(events')
  <2> HIDE DEF e
  <2> QED
    BY <1>1, <1>3, <1>4, PrefixKeepsNewest
<1>6. HasReplayed(t, n)'
  <2>1. {Raw(trail'[t][k]) : k \in DOMAIN trail'[t]} = SamplesAt(NewestAt(t.ahu, n))'
    BY <1>2, <1>5 DEF HasReplayed
  <2>2. ASSUME NEW i \in 1..n, events'[i].ahu = t.ahu
        PROVE  \E k \in DOMAIN trail'[t] :
                 events'[i].sample.observed_at <= trail'[t][k].observed_at
    BY <1>2, <1>5, <2>2 DEF HasReplayed
  <2> QED
    BY <2>1, <2>2 DEF HasReplayed
<1>7. HasPassed(t, n)'
  <2>1. /\ events \in Seq(EventType)
        /\ poll.pending \subseteq 1..Len(events)
    BY <1>4 DEF ActiveRulesTypeOK
  <2>2. /\ DOMAIN events = 1..Len(events)
        /\ DOMAIN events' = 1..(Len(events) + 1)
        /\ \A i \in 1..Len(events) : events'[i] = events[i]
        /\ Len(events) \in Nat
    <3> HIDE DEF e
    <3> QED
      BY <1>1, <2>1, AppendProperties
  <2>3. SUFFICES ASSUME t.version \in Turn,
                        NEW i \in DOMAIN events' \ poll.pending, NEW p \in poll.pending,
                        events'[i].ahu = t.ahu, events'[p].ahu = t.ahu, i < p
                 PROVE  i <= n
    BY <1>2 DEF HasPassed, Turn
  <2>4. i \in 1..Len(events) /\ p \in 1..Len(events)
    BY <2>1, <2>2, <2>3
  <2>5. events[i].ahu = t.ahu /\ events[p].ahu = t.ahu
    BY <2>2, <2>3, <2>4
  <2> QED
    BY <2>2, <2>3, <2>4, <2>5 DEF HasPassed
<1> QED
  BY <1>5, <1>6, <1>7

(* An evaluation says nothing about the other targets.                     *)
LEMMA OtherTargets ==
  ASSUME ActiveRulesInv, NEW v \in Turn, NEW i \in NextEvents,
         NEW m \in poll.targets, m.ahu = events[i].ahu,
         poll' = IF poll.pending = {i} THEN Without(v)
                 ELSE [poll EXCEPT !.pending = @ \ {i}],
         events' = events,
         NEW t \in Targets, t # [version |-> v, ahu |-> events[i].ahu],
         NEW n \in 0..Len(events), HasPassed(t, n)
  PROVE  HasPassed(t, n)'
<1>1. CASE poll.pending = {i}
  BY <1>1, NothingPending DEF Without, NoPoll
<1>2. CASE poll.pending # {i}
  <2>1. Turn' = Turn /\ poll'.pending = poll.pending \ {i}
    BY <1>2 DEF ActiveRulesInv, ActiveRulesTypeOK, Turn
  <2>2. SUFFICES ASSUME t.version \in Turn,
                        NEW j \in DOMAIN events \ (poll.pending \ {i}),
                        NEW p \in poll.pending \ {i},
                        events[j].ahu = t.ahu, events[p].ahu = t.ahu, j < p
                 PROVE  j <= n
    BY <2>1 DEF HasPassed
  <2>3. t.version = v
    BY <2>2, OneTurn DEF ActiveRulesInv
  <2>4. t.ahu # events[i].ahu
    BY <2>3, TargetIsRecord
  <2>5. j \notin poll.pending
    BY <2>2, <2>4
  <2> QED
    BY <2>2, <2>5 DEF HasPassed
<1> QED
  BY <1>1, <1>2

(* The target of the evaluation: its replay reaches the evaluated event.   *)
LEMMA ReplayMovesOn ==
  ASSUME ActiveRulesInv, NEW v \in Turn, NEW i \in NextEvents,
         NEW m \in poll.targets, m.ahu = events[i].ahu,
         NEW t \in Targets, t = [version |-> v, ahu |-> events[i].ahu],
         EvaluateSample(t, In(events[i].sample, m.property)), events' = events,
         NEW n \in 0..Len(events), HasReplayed(t, n), HasPassed(t, n),
         i > n
  PROVE  HasReplayed(t, i)'
<1> DEFINE s == In(events[i].sample, m.property)
           a == events[i].ahu
<1>1. /\ ActiveRulesTypeOK /\ OneVersionEach
      /\ trail \in [Targets -> Seq(Sample)]
  BY DEF ActiveRulesInv
<1>2. /\ i \in poll.pending
      /\ \A j \in poll.pending : i <= j
      /\ i \in DOMAIN events
      /\ events[i] \in EventType
  BY <1>1, NextIsTarget
<1>0. /\ s \in Sample
      /\ Raw(s) = events[i].sample
      /\ s.observed_at = events[i].sample.observed_at
      /\ s.observed_at \in Nat
  BY <1>1, NextIsTarget, SampleAssumption
<1> HIDE DEF s
<1>3. /\ t.ahu = a /\ t.version = v /\ s \in Sample
      /\ i \in 1..Len(events) /\ n \in Nat /\ i \in Nat /\ Len(events) \in Nat
  BY <1>0, <1>1, <1>2 DEF ActiveRulesTypeOK
<1>4. /\ \A j \in 1..Len(events) : events[j].sample.observed_at \in Nat
      /\ \A k \in DOMAIN trail[t] : trail[t][k].observed_at \in Nat
      /\ trail[t] \in Seq(Sample)
  <2>1. ASSUME NEW j \in 1..Len(events)
        PROVE  events[j].sample.observed_at \in Nat
    <3>1. events \in Seq(EventType)
      BY <1>1 DEF ActiveRulesTypeOK
    <3>2. events[j] \in EventType
      BY <3>1, ElementOfSeq
    <3>3. events[j].sample \in Received
      BY <3>2 DEF EventType
    <3>4. m.property \in Properties
      BY <1>1 DEF ActiveRulesTypeOK
    <3> QED
      BY <3>3, <3>4, EventAsSample
  <2>2. trail[t] \in Seq(Sample)
    BY <1>1
  <2> QED
    BY <2>1, <2>2, SampleAssumption
<1>5. ASSUME NEW j \in 1..(i-1), events[j].ahu = a
      PROVE  j \in 1..n
  <2>1. j \in DOMAIN events \ poll.pending /\ j < i
    BY <1>1, <1>2, <1>3 DEF ActiveRulesTypeOK
  <2>2. j <= n
    BY <1>2, <1>3, <1>5, <2>1 DEF HasPassed
  <2> QED
    BY <2>2, <1>3
<1>6. IsNewest(t, s) <=>
        \A j \in 1..(i-1) : events[j].ahu = a => events[j].sample.observed_at < s.observed_at
  <2>1. ASSUME IsNewest(t, s), NEW j \in 1..(i-1), events[j].ahu = a
        PROVE  events[j].sample.observed_at < s.observed_at
    <3>1. PICK k \in DOMAIN trail[t] :
            events[j].sample.observed_at <= trail[t][k].observed_at
      BY <1>3, <1>5, <2>1 DEF HasReplayed
    <3>2. trail[t][k].observed_at < s.observed_at
      BY <2>1 DEF IsNewest
    <3>3. j \in 1..Len(events)
      BY <1>3
    <3> QED
      BY <1>0, <1>3, <1>4, <3>1, <3>2, <3>3
  <2>2. ASSUME \A j \in 1..(i-1) : events[j].ahu = a =>
                   events[j].sample.observed_at < s.observed_at,
               NEW k \in DOMAIN trail[t]
        PROVE  trail[t][k].observed_at < s.observed_at
    <3>1. PICK j \in NewestAt(a, n) : Raw(trail[t][k]) = events[j].sample
      BY <1>3 DEF HasReplayed, SamplesAt
    <3>2. j \in 1..n /\ events[j].ahu = a
      BY <3>1 DEF NewestAt
    <3>4. trail[t][k].observed_at = events[j].sample.observed_at
      BY <3>1 DEF Raw
    <3>3. j \in 1..(i-1)
      BY <1>3, <3>2
    <3> QED
      BY <2>2, <3>2, <3>3, <3>4
  <2> QED
    BY <2>1, <2>2 DEF IsNewest
<1>7. NewestAt(a, i) = NewestAt(a, n) \cup (IF IsNewest(t, s) THEN {i} ELSE {})
  <2>1. /\ 1..i = (1..(i-1)) \cup {i}
        /\ 1..n \subseteq 1..(i-1)
        /\ i \notin 1..(i-1)
    BY <1>3
  <2>2. i \in NewestAt(a, i) <=> IsNewest(t, s)
    BY <1>0, <1>6, <2>1 DEF NewestAt
  <2>3. ASSUME NEW x \in 1..(i-1)
        PROVE  x \in NewestAt(a, i) <=> x \in NewestAt(a, n)
    BY <1>5, <2>1, <2>3 DEF NewestAt
  <2>4. NewestAt(a, i) \subseteq 1..i /\ NewestAt(a, n) \subseteq 1..n
    BY DEF NewestAt
  <2> QED
    BY <2>1, <2>2, <2>3, <2>4
<1>8. SamplesAt(NewestAt(a, i)) =
        SamplesAt(NewestAt(a, n)) \cup (IF IsNewest(t, s) THEN {Raw(s)} ELSE {})
  BY <1>0, <1>7 DEF SamplesAt
<1>9. trail'[t] = IF IsNewest(t, s) THEN Append(trail[t], s) ELSE trail[t]
  BY <1>1 DEF EvaluateSample, s
<1>10. {Raw(trail'[t][k]) : k \in DOMAIN trail'[t]} = SamplesAt(NewestAt(a, i))
  <2>1. CASE IsNewest(t, s)
    <3>1. /\ DOMAIN trail'[t] = DOMAIN trail[t] \cup {Len(trail[t]) + 1}
          /\ \A k \in DOMAIN trail[t] : trail'[t][k] = trail[t][k]
          /\ trail'[t][Len(trail[t]) + 1] = s
      BY <1>3, <1>4, <1>9, <2>1, AppendProperties
    <3> QED
      BY <1>3, <1>8, <2>1, <3>1 DEF HasReplayed
  <2>2. CASE ~IsNewest(t, s)
    BY <1>3, <1>8, <1>9, <2>2 DEF HasReplayed
  <2> QED
    BY <2>1, <2>2
<1>11. ASSUME NEW j \in 1..i, events[j].ahu = a
       PROVE  \E k \in DOMAIN trail'[t] :
                events[j].sample.observed_at <= trail'[t][k].observed_at
  <2>1. \A k \in DOMAIN trail[t] : k \in DOMAIN trail'[t] /\ trail'[t][k] = trail[t][k]
    BY <1>3, <1>4, <1>9, AppendProperties
  <2>2. CASE j \in 1..(i-1)
    BY <1>3, <1>5, <1>11, <2>1, <2>2 DEF HasReplayed
  <2>3. CASE j = i /\ IsNewest(t, s)
    <3>1. Len(trail[t]) + 1 \in DOMAIN trail'[t] /\ trail'[t][Len(trail[t]) + 1] = s
      BY <1>3, <1>4, <1>9, <2>3, AppendProperties
    <3> QED
      BY <1>0, <1>3, <1>4, <2>3, <3>1
  <2>4. CASE j = i /\ ~IsNewest(t, s)
    <3>1. PICK k \in DOMAIN trail[t] : ~(trail[t][k].observed_at < s.observed_at)
      BY <2>4 DEF IsNewest
    <3> QED
      BY <1>0, <1>3, <1>4, <2>1, <2>4, <3>1
  <2> QED
    BY <1>3, <2>2, <2>3, <2>4
<1> QED
  BY <1>3, <1>10, <1>11 DEF HasReplayed, SamplesAt, NewestAt

(* An event of the first part that is evaluated once more moves nothing.   *)
LEMMA RepeatedEvent ==
  ASSUME ActiveRulesInv, NEW v \in Turn, NEW i \in NextEvents,
         NEW m \in poll.targets, m.ahu = events[i].ahu,
         NEW t \in Targets, t = [version |-> v, ahu |-> events[i].ahu],
         EvaluateSample(t, In(events[i].sample, m.property)), events' = events,
         NEW n \in 0..Len(events), HasReplayed(t, n),
         i <= n
  PROVE  HasReplayed(t, n)'
<1>1. /\ ActiveRulesTypeOK /\ OneVersionEach
      /\ trail \in [Targets -> Seq(Sample)]
  BY DEF ActiveRulesInv
<1> DEFINE s == In(events[i].sample, m.property)
<1>2. /\ i \in DOMAIN events
      /\ s.observed_at = events[i].sample.observed_at
      /\ s \in Sample
  BY <1>1, NextIsTarget
<1> HIDE DEF s
<1>3. i \in 1..n /\ events[i].ahu = t.ahu
  BY <1>1, <1>2 DEF ActiveRulesTypeOK
<1>4. PICK k \in DOMAIN trail[t] :
        events[i].sample.observed_at <= trail[t][k].observed_at
  BY <1>3 DEF HasReplayed
<1>5. /\ trail[t][k].observed_at \in Nat
      /\ s.observed_at \in Nat
  BY <1>1, <1>2, SampleAssumption
<1>6. ~IsNewest(t, s)
  BY <1>2, <1>4, <1>5 DEF IsNewest
<1>7. trail'[t] = trail[t]
  BY <1>1, <1>6 DEF EvaluateSample, s
<1> QED
  BY <1>7, ReplayStays

(* Evaluating the next event, the first n events having been replayed,     *)
(* leaves the first n or i replayed, whichever is more.                    *)
LEMMA EvaluateKeepsReplay ==
  ASSUME ActiveRulesInv, EvaluateNext, NEW t \in Targets
  PROVE  \E n \in 0..Len(events') : HasReplayed(t, n)' /\ HasPassed(t, n)'
<1>1. PICK v \in Turn, i \in NextEvents, m \in poll.targets :
        /\ m.ahu = events[i].ahu
        /\ EvaluateSample([version |-> v, ahu |-> events[i].ahu],
                          In(events[i].sample, m.property))
        /\ poll' = IF poll.pending = {i} THEN Without(v)
                   ELSE [poll EXCEPT !.pending = @ \ {i}]
  BY DEF EvaluateNext
<1>2. events' = events
  BY DEF EvaluateNext
<1>3. PICK n \in 0..Len(events) : HasReplayed(t, n) /\ HasPassed(t, n)
  BY DEF ActiveRulesInv
<1>4. /\ ActiveRulesTypeOK /\ OneVersionEach
      /\ trail \in [Targets -> Seq(Sample)]
  BY DEF ActiveRulesInv
<1> DEFINE u == [version |-> v, ahu |-> events[i].ahu]
<1>5. CASE t # u
  <2>1. trail'[t] = trail[t]
    BY <1>1, <1>4, <1>5 DEF EvaluateSample
  <2>2. HasReplayed(t, n)'
    BY <1>2, <1>3, <2>1, ReplayStays
  <2>3. HasPassed(t, n)'
    BY <1>1, <1>2, <1>3, <1>5, OtherTargets
  <2> QED
    BY <1>2, <2>2, <2>3
<1>6. CASE t = u
  <2>1. /\ i \in poll.pending
        /\ \A j \in poll.pending : i <= j
        /\ i \in DOMAIN events
    BY <1>4, NextIsTarget
  <2>2. /\ i \in 1..Len(events) /\ i \in 0..Len(events)
        /\ n \in Nat /\ i \in Nat
        /\ poll.pending \subseteq 1..Len(events)
        /\ DOMAIN events \subseteq Nat
    BY <1>4, <2>1 DEF ActiveRulesTypeOK
  <2> DEFINE far == IF i <= n THEN n ELSE i
  <2>3. far \in 0..Len(events) /\ n <= far /\ i <= far /\ far \in Nat
    BY <2>2
  <2>4. HasReplayed(t, far)'
    BY <1>1, <1>2, <1>3, <1>6, <2>2, RepeatedEvent, ReplayMovesOn
  <2> HIDE DEF far
  <2>5. HasPassed(t, far)'
    <3>1. CASE poll.pending = {i}
      BY <1>1, <3>1, NothingPending DEF Without, NoPoll
    <3>2. CASE poll.pending # {i}
      <4>1. Turn' = Turn /\ poll'.pending = poll.pending \ {i}
        BY <1>1, <1>4, <3>2 DEF ActiveRulesTypeOK, Turn
      <4>2. SUFFICES ASSUME t.version \in Turn,
                            NEW j \in DOMAIN events \ (poll.pending \ {i}),
                            NEW p \in poll.pending \ {i},
                            events[j].ahu = t.ahu, events[p].ahu = t.ahu, j < p
                     PROVE  j <= far
        BY <1>2, <4>1 DEF HasPassed
      <4>3. CASE j = i
        BY <2>3, <4>3
      <4>4. CASE j # i
        <5>1. j <= n
          BY <1>3, <4>2, <4>4 DEF HasPassed
        <5> QED
          BY <2>2, <2>3, <5>1
      <4> QED
        BY <4>3, <4>4
    <3> QED
      BY <3>1, <3>2
  <2> QED
    BY <1>2, <2>3, <2>4, <2>5
<1> QED
  BY <1>5, <1>6

(* Every step leaves each target with a replay of a first part that the    *)
(* poll has passed.                                                        *)
LEMMA StepKeepsReplays ==
  ASSUME ActiveRulesInv, [ActiveRulesNext]_activeRulesVars
  PROVE  /\ trail' \in [Targets -> Seq(Sample)]
         /\ \A t \in Targets : \E n \in 0..Len(events') :
              HasReplayed(t, n)' /\ HasPassed(t, n)'
<1> DEFINE Goal == /\ trail' \in [Targets -> Seq(Sample)]
                   /\ \A t \in Targets : \E n \in 0..Len(events') :
                        HasReplayed(t, n)' /\ HasPassed(t, n)'
<1>1. ASSUME NEW a \in Ahus, NEW s \in Received, Accept(a, s)
      PROVE  Goal
  <2>1. trail' = trail
    BY <1>1 DEF Accept, vars
  <2>2. ASSUME NEW t \in Targets
        PROVE  \E n \in 0..Len(events') : HasReplayed(t, n)' /\ HasPassed(t, n)'
    <3>1. PICK n \in 0..Len(events) : HasReplayed(t, n) /\ HasPassed(t, n)
      BY DEF ActiveRulesInv
    <3> QED
      BY <1>1, <3>1, AcceptKeepsReplay
  <2> QED
    BY <2>1, <2>2 DEF ActiveRulesInv
<1>2. ASSUME NEW r \in Rules, NEW v \in VersionsOf(r) \cup {None}, Switch(r, v)
      PROVE  Goal
  BY <1>2, PollMovesOn DEF Switch, HasPassed, Turn
<1>3. ASSUME NEW v \in Versions, NEW where \in [Ahus -> SUBSET Properties],
             Rescope(v, where)
      PROVE  Goal
  BY <1>3, PollMovesOn DEF Rescope, HasPassed, Turn
<1>4. CASE StartPoll
  <2>1. UNCHANGED <<vars, events>> /\ poll'.pending = {}
    BY <1>4 DEF StartPoll, NoPoll
  <2> QED
    BY <2>1, PollMovesOn, NothingPending
<1>5. CASE Preview
  <2>1. UNCHANGED <<vars, events>> /\ poll'.pending = {}
    BY <1>5 DEF Preview, Without, NoPoll, ActiveRulesInv, ActiveRulesTypeOK
  <2> QED
    BY <2>1, PollMovesOn, NothingPending
<1>6. CASE ReadEvents
  <2> DEFINE mine == {i \in DOMAIN events : \E m \in poll.targets : m.ahu = events[i].ahu}
  <2>1. UNCHANGED <<vars, events>>
    BY <1>6 DEF ReadEvents
  <2>2. poll'.pending = mine
    BY <1>6 DEF ReadEvents, Without, NoPoll, ActiveRulesInv, ActiveRulesTypeOK
  <2>3. ASSUME NEW t \in Targets, NEW n \in 0..Len(events)
        PROVE  HasPassed(t, n)'
    BY <2>1, <2>2 DEF HasPassed
  <2> QED
    BY <2>1, <2>3, PollMovesOn
<1>7. CASE EvaluateNext
  <2>1. ActiveRulesTypeOK /\ OneVersionEach
    BY DEF ActiveRulesInv
  <2>2. PICK v \in Turn, i \in NextEvents, m \in poll.targets :
          EvaluateSample([version |-> v, ahu |-> m.ahu], In(events[i].sample, m.property))
    BY <1>7 DEF EvaluateNext
  <2>3. In(events[i].sample, m.property) \in Sample
    BY <2>1, NextIsTarget
  <2>4. trail' \in [Targets -> Seq(Sample)]
    BY <2>2, <2>3, AppendProperties DEF EvaluateSample, ActiveRulesInv
  <2> QED
    BY <1>7, <2>4, EvaluateKeepsReplay
<1>8. CASE Crash
  <2>1. UNCHANGED <<vars, events>> /\ poll'.pending = {}
    BY <1>8 DEF Crash, NoPoll
  <2> QED
    BY <2>1, PollMovesOn, NothingPending
<1>9. CASE UNCHANGED activeRulesVars
  BY <1>9, PollMovesOn DEF activeRulesVars, HasPassed, Turn
<1> QED
  BY <1>1, <1>2, <1>3, <1>4, <1>5, <1>6, <1>7, <1>8, <1>9 DEF ActiveRulesNext

-----------------------------------------------------------------------------
(* The places.                                                             *)

(* Places are never forgotten, so what was found in one stays known.       *)
LEMMA PlacesStay ==
  ASSUME ActiveRulesInv, trail' = trail,
         \A v \in Versions, a \in Ahus : placed[v][a] \subseteq placed'[v][a]
  PROVE  \A t \in Targets : \A k \in DOMAIN trail'[t] :
           trail'[t][k].property \in placed'[t.version][t.ahu]
<1> SUFFICES ASSUME NEW t \in Targets, NEW k \in DOMAIN trail[t]
             PROVE  trail[t][k].property \in placed'[t.version][t.ahu]
  OBVIOUS
<1>1. trail[t][k].property \in placed[t.version][t.ahu]
  BY DEF ActiveRulesInv, InKnownPlaces
<1> QED
  BY <1>1, TargetIsRecord

(* An AHU is evaluated where the preview of the version found it.          *)
LEMMA EvaluateKeepsPlaces ==
  ASSUME ActiveRulesInv, EvaluateNext
  PROVE  InKnownPlaces'
<1>1. PICK v \in Turn, i \in NextEvents, m \in poll.targets :
        /\ EvaluateSample([version |-> v, ahu |-> m.ahu], In(events[i].sample, m.property))
        /\ poll' = IF poll.pending = {i} THEN Without(v)
                   ELSE [poll EXCEPT !.pending = @ \ {i}]
  BY DEF EvaluateNext
<1>2. UNCHANGED <<found, placed>>
  BY DEF EvaluateNext
<1>3. /\ ActiveRulesTypeOK /\ OneVersionEach /\ InKnownPlaces
      /\ trail \in [Targets -> Seq(Sample)]
  BY DEF ActiveRulesInv
<1> DEFINE u == [version |-> v, ahu |-> m.ahu]
           s == In(events[i].sample, m.property)
<1>4. s.property = m.property /\ s \in Sample /\ u \in Targets
  BY <1>3, NextIsTarget
<1>5. m.property \in placed[v][m.ahu]
  BY <1>3 DEF InKnownPlaces
<1>6. ASSUME NEW w \in Turn', NEW q \in poll'.targets
      PROVE  q.property \in placed'[w][q.ahu]
  <2>1. CASE poll.pending = {i}
    BY <1>1, <1>6, <2>1 DEF Without, NoPoll
  <2>2. CASE poll.pending # {i}
    <3>1. Turn' = Turn /\ poll'.targets = poll.targets
      BY <1>1, <1>3, <2>2 DEF ActiveRulesTypeOK, Turn
    <3> QED
      BY <1>2, <1>3, <1>6, <3>1 DEF InKnownPlaces
  <2> QED
    BY <2>1, <2>2
<1> HIDE DEF s
<1>7. ASSUME NEW t \in Targets, NEW k \in DOMAIN trail'[t]
      PROVE  trail'[t][k].property \in placed'[t.version][t.ahu]
  <2>1. CASE t = u /\ IsNewest(t, s)
    <3>1. trail'[t] = Append(trail[t], s) /\ trail[t] \in Seq(Sample)
      BY <1>1, <1>3, <2>1 DEF EvaluateSample, s
    <3>2. CASE k = Len(trail[t]) + 1
      <4>1. trail'[t][k] = s
        BY <1>4, <3>1, <3>2, AppendProperties
      <4> QED
        BY <1>2, <1>4, <1>5, <2>1, <4>1
    <3>3. CASE k # Len(trail[t]) + 1
      <4>1. k \in DOMAIN trail[t] /\ trail'[t][k] = trail[t][k]
        BY <1>4, <1>7, <3>1, <3>3, AppendProperties
      <4> QED
        BY <1>2, <1>3, <4>1 DEF InKnownPlaces
    <3> QED
      BY <3>2, <3>3
  <2>2. CASE ~(t = u /\ IsNewest(t, s))
    <3>1. trail'[t] = trail[t]
      BY <1>1, <1>3, <2>2 DEF EvaluateSample, s
    <3> QED
      BY <1>2, <1>3, <1>7, <3>1 DEF InKnownPlaces
  <2> QED
    BY <2>1, <2>2
<1> QED
  BY <1>2, <1>3, <1>6, <1>7 DEF InKnownPlaces

(* Every step evaluates, finds and remembers AHUs in known places only.    *)
LEMMA StepKeepsPlaces ==
  ASSUME ActiveRulesInv, [ActiveRulesNext]_activeRulesVars
  PROVE  InKnownPlaces'
<1>1. ActiveRulesTypeOK /\ OneVersionEach /\ InKnownPlaces
  BY DEF ActiveRulesInv
<1>2. ASSUME UNCHANGED <<vars, found, placed, poll>>
      PROVE  InKnownPlaces'
  BY <1>1, <1>2 DEF InKnownPlaces, Turn, vars
<1>3. ASSUME UNCHANGED <<vars, found, placed>>, poll'.targets = {}
      PROVE  InKnownPlaces'
  BY <1>1, <1>3 DEF InKnownPlaces, vars
<1>4. ASSUME NEW v \in Versions, NEW where \in [Ahus -> SUBSET Properties],
             Rescope(v, where)
      PROVE  InKnownPlaces'
  <2>1. /\ found'  = [found EXCEPT ![v] = where]
        /\ placed' = [placed EXCEPT ![v] = [a \in Ahus |-> @[a] \cup where[a]]]
        /\ trail' = trail /\ poll' = poll
    BY <1>4 DEF Rescope, vars
  <2>2. ASSUME NEW w \in Versions, NEW a \in Ahus
        PROVE  /\ placed[w][a] \subseteq placed'[w][a]
               /\ found'[w][a] \subseteq placed'[w][a]
    BY <1>1, <2>1 DEF ActiveRulesTypeOK, InKnownPlaces
  <2>3. ASSUME NEW w \in Turn', NEW m \in poll'.targets
        PROVE  m.property \in placed'[w][m.ahu]
    <3>1. w \in Turn /\ m \in poll.targets
      BY <2>1, <2>3 DEF Turn
    <3>2. w \in Versions /\ m.ahu \in Ahus
      BY <1>1, <3>1 DEF ActiveRulesTypeOK, Turn
    <3> QED
      BY <1>1, <2>2, <3>1, <3>2 DEF InKnownPlaces
  <2>4. \A t \in Targets : \A k \in DOMAIN trail'[t] :
          trail'[t][k].property \in placed'[t.version][t.ahu]
    BY <2>1, <2>2, PlacesStay
  <2> QED
    BY <2>2, <2>3, <2>4 DEF InKnownPlaces
<1>5. CASE Preview
  <2>1. PICK v \in Turn, place \in [Ahus -> Properties] :
          /\ \A a \in Matched(v) : place[a] \in found[v][a]
          /\ poll' = IF Matched(v) = {} THEN Without(v)
                     ELSE [poll EXCEPT !.targets =
                              {[ahu |-> a, property |-> place[a]] : a \in Matched(v)}]
    BY <1>5 DEF Preview
  <2>2. UNCHANGED <<vars, found, placed>>
    BY <1>5 DEF Preview
  <2>3. CASE Matched(v) = {}
    BY <1>3, <2>1, <2>2, <2>3 DEF Without, NoPoll
  <2>4. CASE Matched(v) # {}
    <3>1. /\ Turn' = Turn
          /\ poll'.targets = {[ahu |-> a, property |-> place[a]] : a \in Matched(v)}
      BY <1>1, <2>1, <2>4 DEF ActiveRulesTypeOK, Turn
    <3>2. ASSUME NEW w \in Turn', NEW m \in poll'.targets
          PROVE  m.property \in placed'[w][m.ahu]
      <4>1. PICK a \in Matched(v) : m = [ahu |-> a, property |-> place[a]]
        BY <3>1, <3>2
      <4>2. w = v /\ v \in Versions /\ a \in Ahus
        BY <1>1, <3>1, <3>2, OneTurn DEF Turn, ActiveRulesTypeOK, Matched
      <4> QED
        BY <1>1, <2>1, <2>2, <4>1, <4>2 DEF InKnownPlaces
    <3> QED
      BY <1>1, <2>2, <3>2 DEF InKnownPlaces, vars
  <2> QED
    BY <2>3, <2>4
<1>6. CASE ReadEvents
  <2> DEFINE mine == {i \in DOMAIN events : \E m \in poll.targets : m.ahu = events[i].ahu}
  <2>1. PICK v \in Turn :
          poll' = IF mine = {} THEN Without(v) ELSE [poll EXCEPT !.pending = mine]
    BY <1>6 DEF ReadEvents
  <2>2. UNCHANGED <<vars, found, placed>>
    BY <1>6 DEF ReadEvents
  <2> HIDE DEF mine
  <2>3. CASE mine = {}
    BY <1>3, <2>1, <2>2, <2>3 DEF Without, NoPoll
  <2>4. CASE mine # {}
    <3>1. Turn' = Turn /\ poll'.targets = poll.targets
      BY <1>1, <2>1, <2>4 DEF ActiveRulesTypeOK, Turn
    <3> QED
      BY <1>1, <2>2, <3>1 DEF InKnownPlaces, vars
  <2> QED
    BY <2>3, <2>4
<1>7. CASE StartPoll \/ Crash
  BY <1>3, <1>7 DEF StartPoll, Crash, NoPoll
<1>8. ASSUME \/ \E a \in Ahus, s \in Received : Accept(a, s)
             \/ \E r \in Rules : \E v \in VersionsOf(r) \cup {None} : Switch(r, v)
             \/ UNCHANGED activeRulesVars
      PROVE  InKnownPlaces'
  BY <1>2, <1>8 DEF Accept, Switch, activeRulesVars
<1> QED
  BY <1>4, <1>5, <1>6, <1>7, <1>8, EvaluateKeepsPlaces DEF ActiveRulesNext

-----------------------------------------------------------------------------
(* The inductive invariant: types, one version of each rule in a poll,     *)
(* places an AHU was found in, and for each target a first part of the     *)
(* events that it has replayed and that reaches as far as the poll under   *)
(* way.                                                                    *)
THEOREM ActiveRulesInvariant == ActiveRulesSpec => []ActiveRulesInv
<1>1. ActiveRulesInv /\ [ActiveRulesNext]_activeRulesVars => ActiveRulesInv'
  BY StepKeepsTypes, StepKeepsPlaces, StepKeepsReplays DEF ActiveRulesInv
<1> QED
  BY <1>1, InitKeeps, PTL DEF ActiveRulesSpec

(* The worker's polls, over any rules, switches, changes of scope, moves   *)
(* between properties and crashes, take no step on the tables but          *)
(* evaluate_sample, by the numbers of the property where the poll found    *)
(* the AHU.                                                                *)
THEOREM PollsImplementEvaluator == ActiveRulesSpec => EvaluatorSpec
<1>1. ActiveRulesInit => EvaluatorInit
  BY DEF ActiveRulesInit
<1>2. ActiveRulesInv /\ [ActiveRulesNext]_activeRulesVars => [EvaluatorNext]_vars
  BY StepIsEvaluatorStep DEF ActiveRulesInv
<1> QED
  BY <1>1, <1>2, ActiveRulesInvariant, PTL DEF ActiveRulesSpec, EvaluatorSpec

(* What moved a target on (evaluate_rule_version, evaluate_sample) is the  *)
(* replay of a first part of the accepted events, whatever was activated,  *)
(* disabled, moved or taken out of scope and wherever the worker died.     *)
THEOREM TargetsReplayEvents == ActiveRulesSpec => []TrailsAreReplays
<1>1. ActiveRulesInv => TrailsAreReplays
  BY DEF ActiveRulesInv, HasReplayed, TrailsAreReplays
<1> QED
  BY <1>1, ActiveRulesInvariant, PTL

(* The trail is the replay of its events in the properties it was judged   *)
(* in, as they follow each other in time.                                  *)
LEMMA TrailIsReplay ==
  ASSUME ActiveRulesInv, NEW t \in Targets, NEW n \in 0..Len(events),
         HasReplayed(t, n), Increasing(trail[t])
  PROVE  \E where \in [NewestAt(t.ahu, n) -> placed[t.version][t.ahu]] :
           Replay(t.ahu, n, where) = trail[t]
<1> DEFINE taken == NewestAt(t.ahu, n)
           JudgedIn(i, p) == \E k \in DOMAIN trail[t] : trail[t][k] = In(events[i].sample, p)
           places == placed[t.version][t.ahu]
           where == [i \in taken |-> CHOOSE p \in places : JudgedIn(i, p)]
<1>1. trail[t] \in Seq(Sample) /\ InKnownPlaces
  BY DEF ActiveRulesInv
<1>2. {Raw(trail[t][k]) : k \in DOMAIN trail[t]} = {events[i].sample : i \in taken}
  BY DEF HasReplayed, SamplesAt
<1>3. ASSUME NEW k \in DOMAIN trail[t]
      PROVE  /\ trail[t][k] = In(Raw(trail[t][k]), trail[t][k].property)
             /\ trail[t][k].property \in places
             /\ trail[t][k].observed_at \in Nat
  <2>1. trail[t][k] \in Sample
    BY <1>1, ElementOfSeq
  <2> QED
    BY <1>1, <2>1, SampleAsEvent DEF InKnownPlaces
<1>4. ASSUME NEW i \in taken
      PROVE  where[i] \in places /\ JudgedIn(i, where[i])
  <2>1. PICK k \in DOMAIN trail[t] : Raw(trail[t][k]) = events[i].sample
    BY <1>2
  <2>2. trail[t][k].property \in places /\ JudgedIn(i, trail[t][k].property)
    BY <1>3, <2>1
  <2> HIDE DEF JudgedIn, places
  <2> QED
    BY <2>2
<1> HIDE DEF where
<1>5. ASSUME NEW k \in DOMAIN trail[t]
      PROVE  \E i \in taken : trail[t][k] = In(events[i].sample, where[i])
  <2>1. PICK i \in taken : Raw(trail[t][k]) = events[i].sample
    BY <1>2
  <2>2. PICK l \in DOMAIN trail[t] : trail[t][l] = In(events[i].sample, where[i])
    BY <1>4
  <2>3. trail[t][l].observed_at = trail[t][k].observed_at
    BY <2>1, <2>2 DEF In, Raw
  <2>4. k = l
    BY <1>1, <1>3, <2>3 DEF Increasing
  <2> QED
    BY <2>2, <2>4
<1>6. {In(events[i].sample, where[i]) : i \in taken} = {trail[t][k] : k \in DOMAIN trail[t]}
  BY <1>4, <1>5
<1>7. Replay(t.ahu, n, where) = trail[t]
  BY <1>1, <1>6, TrailInOrder DEF Replay
<1>8. where \in [taken -> places]
  BY <1>4 DEF where
<1> QED
  BY <1>7, <1>8

(* Every target has, to the last field, the issues a replay of some first  *)
(* part of the events calls for, each event judged once, in a property     *)
(* where a preview of the version could find the AHU.                      *)
THEOREM EveryTargetReplays == ActiveRulesSpec => []EveryTargetIsAReplay
<1>1. ActiveRulesInv /\ ContractInv => EveryTargetIsAReplay
  <2> SUFFICES ASSUME ActiveRulesInv, ContractInv, NEW t \in Targets
               PROVE  \E n \in 0..Len(events) :
                        \E where \in [NewestAt(t.ahu, n) -> placed[t.version][t.ahu]] :
                          MeetsContract(t, Replay(t.ahu, n, where), issues[t])
    BY DEF EveryTargetIsAReplay
  <2>1. PICK n \in 0..Len(events) : HasReplayed(t, n)
    BY DEF ActiveRulesInv
  <2>2. Increasing(trail[t]) /\ MeetsContract(t, trail[t], issues[t])
    BY DEF ContractInv
  <2>3. PICK where \in [NewestAt(t.ahu, n) -> placed[t.version][t.ahu]] :
          Replay(t.ahu, n, where) = trail[t]
    BY <2>1, <2>2, TrailIsReplay
  <2> QED
    BY <2>2, <2>3
<1> QED
  BY <1>1, ActiveRulesInvariant, PollsImplementEvaluator, TablesAreTheTrails, PTL

(* With several rules too, the samples an issue row holds prove it by the  *)
(* numbers of the properties they were judged in, and state and issues of  *)
(* every version and AHU agree.                                            *)
THEOREM RulesProveTheirIssues ==
  ActiveRulesSpec => [](StateMatchesIssues /\ EvidenceProvesIssue)
BY PollsImplementEvaluator, TablesAgree, IssuesAreProven, PTL
=============================================================================
