------------------------------ MODULE ActiveRules ------------------------------
(***************************************************************************)
(* One polling worker and several rules (evaluate_active_rules and         *)
(* evaluate_rule_version of evaluator.py), while rules are activated and   *)
(* disabled, the ontology changes their targets and events arrive.         *)
(*                                                                         *)
(* A poll reads the active versions once.  For each of them it reads the   *)
(* targets, then the event list, and then it evaluates the list, one       *)
(* transaction per event; everything else may act between two of these     *)
(* steps.  Module Worker has the inside of a transaction, several workers  *)
(* and the reset.                                                          *)
(*                                                                         *)
(* An ontology change can take an AHU out of a version's scope, bring it   *)
(* back, or move it to another property.  There the version's override     *)
(* gives other numbers, and the next poll judges by them with the row it   *)
(* saved under the old ones.                                               *)
(***************************************************************************)
EXTENDS Evaluator

CONSTANTS
    Ahus,
    Versions,
    Rules,        \* the rules, numbered in the order of rule_key
    RuleOf,       \* RuleOf[v]: the rule that v is a version of
    MaxEvents,    \* bound on the accepted events
    MaxChanges,   \* bound on activations, disables and ontology changes
    MaxCrashes

(* An event has no property; the preview finds one for it.                 *)
Raw(s)   == [observed_at |-> s.observed_at, readings |-> s.readings]
In(r, p) == [observed_at |-> r.observed_at, readings |-> r.readings, property |-> p]

Received == {Raw(s) : s \in Sample}

ASSUME ActiveRulesAssumption ==
    /\ Targets = [version : Versions, ahu : Ahus]
    /\ Sample = {In(r, p) : r \in Received, p \in Properties}
    /\ Rules \subseteq Nat
    /\ RuleOf \in [Versions -> Rules]
    /\ None \notin Versions
    /\ MaxEvents \in Nat /\ MaxChanges \in Nat /\ MaxCrashes \in Nat

VARIABLES
    events,    \* accepted events in receipt order: [ahu, sample]
    active,    \* active[r]: the version that is active and enabled, or None
    found,     \* found[v][a]: where a preview of v finds AHU a at present,
               \* {} when it excludes a
    placed,    \* history: everywhere a preview of v could ever find a
    poll,      \* what the worker holds in its memory
    changes,
    crashes

activeRulesVars == <<vars, events, active, found, placed, poll, changes, crashes>>

(* queue:   the versions still to be evaluated, the current one included.  *)
(* targets: the AHUs of the current version, [ahu, property].              *)
(* pending: the places of its events that are still to be evaluated.       *)
NoPoll == [queue |-> {}, targets |-> {}, pending |-> {}]

VersionsOf(r) == {v \in Versions : RuleOf[v] = r}

ActiveRulesInit ==
    /\ EvaluatorInit
    /\ events  = <<>>
    /\ active \in [Rules -> Versions \cup {None}]
    /\ \A r \in Rules : active[r] \in VersionsOf(r) \cup {None}
    /\ found  \in [Versions -> [Ahus -> SUBSET Properties]]
    /\ placed = found
    /\ poll    = NoPoll
    /\ changes = 0
    /\ crashes = 0

-----------------------------------------------------------------------------
(* The surroundings.                                                       *)

Accept(a, s) ==
    /\ Len(events) < MaxEvents
    /\ events' = Append(events, [ahu |-> a, sample |-> s])
    /\ UNCHANGED <<vars, active, found, placed, poll, changes, crashes>>

(* activate_rule and disable_rule: the UPDATE of afdd_rules.  That only a  *)
(* version with targets is activated is left to module Rules.              *)
Switch(r, v) ==
    /\ changes < MaxChanges
    /\ v # active[r]
    /\ active'  = [active EXCEPT ![r] = v]
    /\ changes' = changes + 1
    /\ UNCHANGED <<vars, events, found, placed, poll, crashes>>

(* The ontology changes: a preview of v finds its AHUs elsewhere.  Where a *)
(* new register left the edges of the old one behind, it finds an AHU in   *)
(* more than one property.                                                 *)
Rescope(v, where) ==
    /\ changes < MaxChanges
    /\ where # found[v]
    /\ found'  = [found EXCEPT ![v] = where]
    /\ placed' = [placed EXCEPT ![v] = [a \in Ahus |-> @[a] \cup where[a]]]
    /\ changes' = changes + 1
    /\ UNCHANGED <<vars, events, active, poll, crashes>>

-----------------------------------------------------------------------------
(* The poll.                                                               *)

Working == poll.queue # {}

(* evaluate_active_rules: the versions that are active now, one for each   *)
(* enabled rule.                                                           *)
StartPoll ==
    /\ ~Working
    /\ poll' = [NoPoll EXCEPT !.queue = {v \in Versions : active[RuleOf[v]] = v}]
    /\ UNCHANGED <<vars, events, active, found, placed, changes, crashes>>

(* The version whose turn it is; there is one at most.                     *)
Turn == {v \in poll.queue : \A u \in poll.queue : RuleOf[v] <= RuleOf[u]}

(* Variant: a version that is done with ends the poll.                    *)
Without_Returns(v) == NoPoll

Without(v) == [NoPoll EXCEPT !.queue = poll.queue \ {v}]

Matched(v) == {a \in Ahus : found[v][a] # {}}

(* draft_for_version and preview_draft: whether the version is still       *)
(* active is not asked again.  Of the rows that match an AHU the last one  *)
(* is kept, and with it the property that decides the numbers.             *)
Preview ==
    /\ poll.targets = {} /\ poll.pending = {}
    /\ \E v \in Turn, place \in [Ahus -> Properties] :
         /\ \A a \in Matched(v) : place[a] \in found[v][a]
         /\ poll' = IF Matched(v) = {} THEN Without(v)
                    ELSE [poll EXCEPT !.targets =
                             {[ahu |-> a, property |-> place[a]] : a \in Matched(v)}]
    /\ UNCHANGED <<vars, events, active, found, placed, changes, crashes>>

(* The accepted events of the targets, from the first one on.              *)
ReadEvents ==
    /\ poll.targets # {} /\ poll.pending = {}
    /\ LET mine == {i \in DOMAIN events : \E m \in poll.targets : m.ahu = events[i].ahu}
       IN  \E v \in Turn :
             poll' = IF mine = {} THEN Without(v) ELSE [poll EXCEPT !.pending = mine]
    /\ UNCHANGED <<vars, events, active, found, placed, changes, crashes>>

(* Variant: the event list is read without an order.                       *)
NextEvents_Any == poll.pending

NextEvents == {i \in poll.pending : \A j \in poll.pending : i <= j}

(* evaluate_sample for the next event of the list, by the numbers of the   *)
(* property its AHU was found in; after the last one the next version's    *)
(* turn has come.                                                          *)
EvaluateNext ==
    \E v \in Turn, i \in NextEvents, m \in poll.targets :
        /\ m.ahu = events[i].ahu
        /\ EvaluateSample([version |-> v, ahu |-> m.ahu], In(events[i].sample, m.property))
        /\ poll' = IF poll.pending = {i} THEN Without(v)
                   ELSE [poll EXCEPT !.pending = @ \ {i}]
        /\ UNCHANGED <<events, active, found, placed, changes, crashes>>

(* The process dies and is restarted with an empty memory.                 *)
Crash ==
    /\ Working
    /\ crashes < MaxCrashes
    /\ poll'    = NoPoll
    /\ crashes' = crashes + 1
    /\ UNCHANGED <<vars, events, active, found, placed, changes>>

-----------------------------------------------------------------------------
PollStep == StartPoll \/ Preview \/ ReadEvents \/ EvaluateNext

ActiveRulesNext ==
    \/ \E a \in Ahus, s \in Received : Accept(a, s)
    \/ \E r \in Rules : \E v \in VersionsOf(r) \cup {None} : Switch(r, v)
    \/ \E v \in Versions, where \in [Ahus -> SUBSET Properties] : Rescope(v, where)
    \/ StartPoll
    \/ Preview
    \/ ReadEvents
    \/ EvaluateNext
    \/ Crash

ActiveRulesSpec == ActiveRulesInit /\ [][ActiveRulesNext]_activeRulesVars

(* The polling loop goes on; nothing else has to happen.                   *)
PollsGoOn == WF_activeRulesVars(PollStep)

ActiveRulesFairSpec == ActiveRulesSpec /\ PollsGoOn

-----------------------------------------------------------------------------
(* The first n events of AHU a that were newer than all of a before them.  *)
NewestAt(a, n) ==
    {i \in 1..n : /\ events[i].ahu = a
                  /\ \A j \in 1..(i-1) :
                       events[j].ahu = a =>
                           events[j].sample.observed_at < events[i].sample.observed_at}

SamplesAt(places) == {events[i].sample : i \in places}

(* What a replay of the first n events hands to a target of AHU a when     *)
(* where[i] is the property that event i is judged in.                     *)
Replay(a, n, where) ==
    InOrder({In(events[i].sample, where[i]) : i \in NewestAt(a, n)})

(* Every target has the issues of an undisturbed replay of some first part *)
(* of the accepted events, whatever versions were activated or disabled,   *)
(* whatever left its scope and came back and wherever the worker died      *)
(* meanwhile (docs/afdd.md:79-80): one version's progress never shows in   *)
(* another version's issues, no event is left out, and each is judged      *)
(* once, by the numbers of one property in which a preview of the version  *)
(* found the AHU.  For an AHU that was never moved these are the numbers   *)
(* of its property throughout.                                             *)
EveryTargetIsAReplay ==
    \A t \in Targets : \E n \in 0..Len(events) :
        \E where \in [NewestAt(t.ahu, n) -> placed[t.version][t.ahu]] :
            MeetsContract(t, Replay(t.ahu, n, where), issues[t])

(* The samples that moved a target on are those of a first part of the     *)
(* events, also before any issue depends on it.                            *)
TrailsAreReplays ==
    \A t \in Targets : \E n \in 0..Len(events) :
        {Raw(trail[t][k]) : k \in DOMAIN trail[t]} = SamplesAt(NewestAt(t.ahu, n))

IsWatched(t) ==
    active[RuleOf[t.version]] = t.version /\ found[t.version][t.ahu] # {}

(* A target that stays active and in scope comes to have the issues of all *)
(* accepted events and keeps them, although the poll under way was started *)
(* before, with other versions, other targets and other numbers.           *)
WatchedTargetsCatchUp ==
    \A t \in Targets :
        <>[]IsWatched(t) =>
            <>[]\E where \in [NewestAt(t.ahu, Len(events)) -> placed[t.version][t.ahu]] :
                   MeetsContract(t, Replay(t.ahu, Len(events), where), issues[t])
=============================================================================
