# TLA+ models of the AFDD assessment system

This directory models the telemetry, fault-detection and rule-authoring backend
of the repository in TLA+, checks it with TLC and proves its safety with TLAPS.
Paths are relative to the repository root; `src/afdd/` is the Python package.

## 1. The system

A simulator publishes five-point telemetry events of air-handling units (AHUs)
to a Kafka-compatible broker. Ingestion consumers validate each event against
the ontology and store it in PostgreSQL. A worker replays the accepted events
through a deterministic rule with a state row per (rule version, AHU) and writes
issues. Rules are created through a REST API, directly or from free text that a
language model interprets and a person confirms. Dashboard and MCP server read.

```
simulator -> broker -> ingestion -> ingestion_events, readings, current values
                                          |  (ORDER BY received_at)
seed -> ontology --------+                v
                         |          worker: evaluate_sample -> states, issues
API / AI authoring -> rules, versions, activation --^                |
                                                     dashboard, MCP <-+
```

| Component | State | Operations | Talks to others by |
|---|---|---|---|
| AFDD evaluator (`evaluator.py`) | `afdd_evaluation_states`, `afdd_issues` | `evaluate_transition` (pure), `evaluate_sample` (one transaction), `reset_evaluation` | reads events and active versions, writes issues |
| AFDD worker (`apps/worker/main.py`) | its place in the event list | poll, `--reset`, `--once`, `--ensure-default-rule` | row locks, table locks, unique index |
| Ingestion (`apps/ingestion/main.py`, `telemetry.py`) | event, attempt, reading and current-value tables; broker offsets | fetch, `process_payload`, retry, commit offset | broker group protocol, ontology lookups |
| Simulator (`simulator.py`) | none | publish CSV rows | broker |
| Rule repository (`rules.py`) | `afdd_rules`, versions, active pointer | create, add version, preview, activate, disable, ensure default | ontology; read by the worker at every poll |
| AI authoring (`ai_authoring.py`) | `ai_authoring_requests` | create, process, answer, cancel, confirm | model provider, ontology, rule repository |
| HTTP API (`apps/api/main.py`) | none | endpoints, each call in a thread of its own | calls the modules above |
| Seed (`seed.py`) | spaces, equipment, points, relations | validate and import the registers, `--reset` | shared tables |
| Ontology and dashboard queries (`ontology.py`, `dashboard.py`) | none | topology, portfolio, device context, search | join the relations, each in its own way |
| Backtest (`backtest.py`) | none | run a rule over a window of events | the evaluator's transition function |
| MCP server, web UI, demo scripts, settings | none of their own | read, present | |

**What is hard.** Samples arrive late, repeated, untrusted or after gaps, and the
evidence of an issue is put together from a window loaded before the transition.
Every poll starts again from the first event. Two workers may run (the
documented one-shot beside the service), `SELECT ... FOR UPDATE` locks nothing
when there is no row. A consumer dies between database commit and offset commit;
after a rebalance the old owner goes on with what it has fetched. Creating and
activating a rule takes several transactions, and an authored request about ten,
with other calls and ontology changes between any two. A poll reads the active
versions and their targets once and then works through a long list, while
versions are switched and the ontology changes under it. The seed only ever adds
relations, so after a register has moved an AHU every reader that joins relations
sees the old edge too. A moved AHU may be judged by other numbers from the next poll on
(`property_overrides`), with the state row it had under the old ones. `PROJECT.json` lists each
of these hazards at the line where it bites, with the properties aimed at it.

**What correctness means for each.** Evaluator: issues are exactly those the
sequence of samples calls for, each proven by its stored samples; a backtest of
the same events finds the same. Worker: crash, restart, reset and changes of the
active rules never change that, and no event is left out. Ingestion: no message is lost, each event
is disposed of once, the current value is the newest. Rules: numbers without
holes, an enabled rule can be run. Authoring: no rule without a confirmation of
that very draft, once, and a request does not get stuck; the words of a request
decide its scope and nothing else does. Seed: all readers of the graph place an AHU
where the last register does.

## 2. The modules

| Module | Models | Correspondence |
|---|---|---|
| `AfddTransition` | `evaluate_transition`, `evaluate_sample`'s writes as pure operators | one operator per branch: `LateTransition`, `UntrustedTransition`, `NonFaultTransition`, `RemainsOpenTransition`, `QualifyingTransition`, `AfterGap`; `RowAfter`/`IssuesAfter` are `_save_state`/`_open_issue`/`_close_issue`. `Threshold[t][p]`, `Duration[t][p]` are what a preview gives target `t` in property `p`; a sample names the property it is judged in |
| `IssueContract` | abstract: the issues a whole trail of samples calls for | stated over positions in the trail, without state, each sample judged by the numbers of its own property; from docs/afdd.md |
| `FaultTimeline` | abstract: what a reader sees of the issue table | faults as intervals in device time |
| `Evaluator` | the two tables, one action per transaction | `EvaluateSample`, `ResetEvaluation`; `trail` is a history variable |
| `Backtest` | `backtest_rule_version` for one target, beside `Evaluator` (`EXTENDS Evaluator`) | `received` is the list of accepted events in receipt order, late ones included: `Deliver` hands one to the evaluator, `StartOver` resets. `Simulate` folds `Advance` over the events of a window; `NonTriggerReason` is the function of that name |
| `ActiveRules` | the poll over several rules, `EXTENDS Evaluator` | `StartPoll` (active versions), `Preview` (targets and the property of each), `ReadEvents`, `EvaluateNext`, `Crash`; `Switch`, `Rescope` (AHUs leave the scope, return, or move between properties), `Accept` act between any two. `found` is where a preview finds an AHU now, `placed` (history) where one ever could |
| `Worker` | worker processes over `Evaluator` | load and commit are separate steps; `StartPoll`, `Load`, `Commit`, `FinishPoll`, `Abort` (unique violation), `Crash`, `StopService`, `StartService`, `LaunchReset` |
| `Ingestion` | broker log, offsets and assignment, consumers, tables | `Poll`, `Lookup` (the SELECT), `Write`, `WriteConflicts`, `WriteFails`, `CommitOffset`, `CommitRaises`, `Crash`, `Rebalance`, `Publish`, `SeedEquipment` |
| `TelemetryStore` | abstract: an event is disposed of once, the current value is the newest accepted | refined by `Ingestion` |
| `Ontology` | import and validation of the registers, the relation tables and all queries that join them | `ValidSource`, `Importable`, `Seeded`; `TargetFacts` (the joins of `_target_facts`), `Topologies`, `Portfolio`, `CountedRows`, `EquipmentContext`, `Discovery` |
| `TargetPreview` | what a draft matches: `validate_draft`'s references (that an override's property is in scope among them), matching | operators on the facts of `Ontology`; what an override does to the numbers is in `ActiveRules` |
| `ScopeResolution` | `_resolve_scope` and what `_process` makes of its result | operators on the result of `search_ontology` |
| `Inventory` | the inventory over time: the last three modules composed | `Seed` (one import) and `ResetInventory`; `newest` is a history variable |
| `Rules` | rule repository, one step per transaction; `EXTENDS TargetPreview` | `calls[c]` holds the step a call is at; `RuleStep` is one transaction, `Fault` a failed or dead one, `Reseed` a changed ontology, `ResetInventory` the truncation |
| `Authoring` | `AllowedTransitions`, `_process`, answer, cancel, confirm; `EXTENDS Rules` | a confirmation runs `RuleStep`s and then settles the request |
| `EvaluatorProofs`, `ContractProofs`, `BacktestProofs`, `WorkerProofs`, `ActiveRulesProofs` | theorems on what decides about issues | section 5 |
| `IngestionProofs`, `AuthoringProofs` (also of `Rules`), `InventoryProofs` | theorems on what feeds and configures it | section 5 |
| `MC*` | constants for TLC | section 4 |

`Worker` composes with `Evaluator`, `Authoring` with `Rules`, by EXTENDS: they share
the tables of the module below and act on them with its operators.
`ActiveRules` stands on `Evaluator` the same way, with several rules and an atomic
transaction where `Worker` has one rule and the inside of the transaction.
The ontologies of `MCRules` and `MCAuthoring` are not written by hand but are what
`Ontology` makes of two registers.
`Evaluator` refines `FaultTimeline`, `Ingestion` refines `TelemetryStore`, and both
`Worker` with one worker at a time and `ActiveRules` refine `Evaluator`.

Operators named `X_Y` (comment "Variant") are altered forms of `X`, one for each
property, kept to show that the property notices the alteration. No
specification uses them.

### Abstractions

* Time is a natural number in the evaluator's own unit (the nominal interval of
  60 s); temperatures are integers. Staleness, values from the
  future, bad quality and text arise only at `evaluate_transition`, whose contract and tests
  accept them: `sample_from_event` gives every reading the event's time and
  quality `GOOD`, so in `Worker` every sample is trustworthy, faulty or healthy.
* An event is identified by `event_id`, which is derived from the source record,
  so two different events never share one. A measurement repeated inside an event
  conflicts with its first copy in both tables and is a function entry here.
* In `Ingestion` the writes of one transaction are one step; the SELECT before
  them is another, because another consumer may insert in between. A failed
  attempt writes nothing, or everything (the answer to COMMIT was lost). The
  broker is external: one owner per partition, a new owner starts at the committed
  offset, a commit by a non-owner raises. `--max-messages` and `--idle-timeout`
  are test options and not modelled.
* `Publish` stamps `received_at` and appends to the log in one step. The simulator stamps
  first and sends its events in order, so this is one simulator per AHU; two at once for the same AHU could
  append out of stamp order, and `AcceptedInReceiptOrder` does not speak of them.
* In `ActiveRules` one worker runs, a version's targets are found in one step, and
  `evaluate_sample` is one step; `Worker` has what lies inside and several workers.
  Activation and disabling are their UPDATE only: which versions may be activated
  is the business of `Rules`.
* A what-if backtest replaces threshold and duration, so it is a backtest of
  another target. Several targets of one backtest do not interact.
* `Worker` and `Backtest` assume that no AHU is moved to another property while they
  run (`InOneProperty`); a backtest judges old events by the numbers of today, so after a
  move it is no comparison. `Evaluator` and `ActiveRules` do not assume it. A version
  can override threshold and duration for a property, not the freshness
  (`PropertyOverride`), so freshness is one number per target.
* Where a register left stale edges, an AHU has several facts and `preview_draft` keeps
  the last row of an unordered query: `Preview` picks any of the properties in `found`.
* In `Ontology` a name or usage stands for all its spellings, since both sides
  of each comparison are case-folded; ids of different kinds differ. Brick
  classes and units are left out. An import and a reset are one step each. A reader's
  several queries see one state.
* In `Rules` the ontology is the type of every space and the facts of every AHU,
  the part of `Ontology` that these calls read (`Ontology!View`).
* In `Authoring` the provider's answer and the result of `_resolve_scope` are choices
  over all outcomes; which outcome the words have is checked in `Inventory`.
  State trace, tool trace, latency and retry count are left out. The
  read and the transition of a cancellation, and a read-only query and the
  transition after it, are one step, as nothing another call does can tell them
  apart: the transition re-checks the state under a row lock.
* `seed --reset` also empties the telemetry and request tables. That part is not in
  `Ingestion` and `Authoring`, whose properties speak of undisturbed tables.

## 3. Properties worth knowing

* `IssuesMeetContract`: an incremental state machine agrees with a definition
  over the whole history, in occurrences, times, evidence and recovery.
* `EvidenceSpeaksForItself`: the stored readings alone justify opening and closing.
* `StateMatchesIssues`, `WindowIsTheFault`, `EvidenceProvesIssue`,
  `CheckpointIsNewest`: state row, window and issue table agree. They are parts of
  the inductive invariant.
* `BacktestFindsTheIssues`, `NonTriggerReasonIsTrue`: a run from nothing over the
  accepted events of any window, late ones included, agrees with tables that grew event
  by event, also at the window's edges; the reason it gives is true of the samples
  although it is taken from counters. The first holds where the two are about the
  same samples (`Comparable`): a late event that falls into the window, was late because of one from beyond
  its end, and is newer than what came from the window before, is ignored by the
  evaluator and not by the run.
* `OnlyNewTimesAdvance`, `IssueHistoryIsFinal`: replaying the whole list at every
  poll is harmless; closed issues are final.
* `PollIsReplay`, `ImplementsEvaluator`, `EventsAreEvaluated`, `NeverRefused`: with one
  worker at a time, crashes, restarts and a proper reset leave the result of
  one undisturbed replay, no event is left out, and the unique index on open issues
  never has to refuse anything.
* `TrailsAreReplays`, `EveryTargetIsAReplay`, `WatchedTargetsCatchUp`: whatever is
  activated, disabled, rescoped, moved or killed in the middle of a poll, each target of
  each version has seen a first part of the events without a hole, has the
  issues they call for, and one that stays watched is brought up to date.
  "Call for" is with each event judged once, by the numbers of one property in which a
  preview of that version could find the AHU. For an AHU that is never moved these are
  the same numbers throughout. For a moved one nothing stronger is true: its earlier events stay
  judged by the old numbers, so a reset and replay under the new ones can give other issues, and the window of an issue opened after the move
  may hold readings below the threshold that the issue records. What the evidence does prove
  (`EvidenceProvesIssue`) is that every sample was a fault by the numbers it was judged by,
  and the one that opened the issue by those it records.
* Two simultaneous workers, whose first rows may overwrite one another. What still
  holds: `OneOpenIssue` and `EvidenceProvesIssue`; an OPEN row has its issue
  (`OpenRowHasItsIssue`); only the newest issue is open, and a closed one ends after it
  begins (`IssuesEndAfterTheyBegin`). What does not: an issue can
  be orphaned behind a row that is not OPEN, and then nothing but a reset repairs it
  (`OrphansStay`), though docs/afdd.md:61-62 lets a trusted healthy value close it.
* `CommittedAreRecorded`, `MessagesAreRecorded`: no message lost.
  `OneDisposition`, `HistoryIsAccepted`, `CurrentIsNewest`,
  `AcceptedInReceiptOrder`, `ImplementsStore`: what the tables say about it.
* `VersionsAreNumbered`, `EnabledRuleIsRunnable`, `EnabledRuleHasTargets`.
  The ontology changes, or is emptied, between any two transactions of a call.
* `RulesNeedConfirmation`, `ActivatedExactlyOnce`, `OneDriver`: under failures,
  competing calls and changes of the ontology. `RequestsComeToRest`: a request that
  nothing has stranded (below) gets to where a person or nobody has to act.
* `ReadersAgree`, `NewestIsVisible`: five ways of joining one graph, over all
  sequences of imports. The floor in an asset's metadata is found by a walk up the
  register instead of a join; it is the floor of the others where the building is
  not itself part of something. `WordsDecideTheScope`: an independent definition of what
  words mean, over every inventory that can come about.

## 4. Runs

State counts are distinct states, times those of two TLC workers.

| Run (`.cfg`) | Question | Bounds and why they are enough |
|---|---|---|
| `evaluator_timing` (`MCEvaluatorTiming`) | does the state machine time, open and close as the contract says? | one target, fault / exactly-at-threshold / missing-point samples at times 1..6 in a property with duration 2, and the first two kinds in one whose override has a lower threshold and duration 1, so that the AHU may be moved between any two samples; freshness 2. Room for two complete occurrences, bridged and broken gaps, duration met exactly and exceeded by a jump, late and repeated samples. 46 656 states, 1 min |
| `backtest` (`MCBacktest`) | does any untrusted reading open, extend or close an issue, and does a backtest agree with the tables on every window? | nine kinds of sample: fault, exactly at the threshold, off, missing point at times 1..5, and age at and beyond the limit, future, bad quality, text at times 3 and 4, in the course of a fault. Four events received in any order and with repetitions, all ten windows: two samples make an occurrence, a third ends it, a fourth comes before it, is late for any of them or lies beyond the window. 837 931 states, 2 min 30 s |
| `worker_replay` (`MCWorkerReplay`) | do crash, stop, start and reset leave the undisturbed result, is every event evaluated, and is no transaction refused? | one service, one one-shot, three events in any order of device time, two stops: a crash can hit before, inside and after the reset. 79 035 states, 30 s |
| `worker_pair` (`MCWorkerPair`) | what survives two simultaneous workers, and does anything mend what does not? | two services, four events: both without a row, both with one, and one of each. Two events orphan an issue (one worker opens it, the other then saves its first row over the state), the third meets the orphan, and with the fourth an occurrence is complete and followed by another sample. 2.3 M states, 50 s |
| `worker_unstopped_reset` (violated) | docs/afdd.md:66-67 for the documented command | one service, one one-shot, service not stopped |
| `active_rules` (`MCActiveRules`) | do several rules, changing activity and moved AHUs disturb one another, and is a target that stays watched brought up to date? | a rule with two versions of different duration and an override for one of two properties, another rule without, one AHU, two events out of four (19 degrees is a fault under the override only), two changes and one crash, so that a version is switched off and on again, leaves the scope and comes back, or is moved and moved back, inside a poll. Two events open an issue, leave a hole, or come in the wrong order; with three, the two invariants held over 2.3 M states, but the liveness property takes too long. 315 645 states, 1 min |
| `ingestion_delivery` (`MCIngestionDelivery`) | dispositions, order and current values under redelivery | two consumers, one partition, three messages out of a newer, a late and a tied event (so each can come twice or three times), one failure, two rebalances (away and back). 1.5 M states, 80 s |
| `ingestion_recovery` (`MCIngestionRecovery`) | nothing skipped, nothing lost, rejected events leave nothing | two fair consumers, two messages out of good, malformed, defective and unknown-equipment events, equipment seeded at any time. Two failures and one rebalance: a failure, a conflict with the other consumer and another failure use up the three attempts. 285 946 states, 50 s |
| `rules_calls` (`MCRulesCalls`) | concurrent calls of the rule repository | two callers, two rules, three drafts (two of one rule), two versions, one change of the ontology or a reset, one failure or death. Symmetry in the callers (invariants only). 5.8 M states, 2 min |
| `authoring_safe` (`MCAuthoringSafe`) | who may work on a request, what does a confirmation make, and does the request come to rest? | one request, three calls, two failures, two ontology changes, two answers, sound, targetless and malformed drafts; no symmetry, as one property is temporal. 590 759 states, 1 min |
| `authoring_malformed` (violated) | docs/architecture.md:98-99 and docs/ai-authoring.md:34 | one call, a threshold of zero |
| `inventory` (`MCInventory`) | do the readers of the graph agree, and do words decide the scope? | two buildings, one AHU (a second in one register), thirteen registers: renamed, moved, refloored, pruned, unfed, resited, grown, and six that are refused, two of them only after certain others; any sequence of imports and resets; every query of 4 x 4 x 5 word sets in every state. 105 states (each an inventory with all its history of edges), 2 s |

The authoring runs set `CHECK_DEADLOCK FALSE`: one request with a bounded number
of answers really ends. Everywhere else deadlock is checked. One request per key
suffices because requests share nothing but the rule tables, and their rule keys
are their own. `MaxVersions` limits when a version may be *begun*, so two
calls can still race for a number at the limit. Stated bounds: `MaxEvents`, `MaxStops`
(Worker), `MaxReceived` (Backtest), `MaxEvents`, `MaxChanges`, `MaxCrashes` (ActiveRules), `MaxMessages`,
`MaxFailures`, `MaxRebalances` (Ingestion), `MaxVersions`,
`MaxFaults`, `MaxDrifts` (Rules), `MaxAnswers` (Authoring). `Inventory` needs none:
the set of registers is finite and edges only accumulate.

### Fairness

* Worker: weak fairness of each worker's own loop steps and of starting a stopped
  service. The loop polls for ever and blocks on the database only; compose runs
  the service with `restart: unless-stopped`. Crashes, stops, events and the
  one-shot are never obliged, so `EventsAreEvaluated` depends on no luck.
* Ingestion: weak fairness of a consumer's loop. It holds for every attempt because
  failures are transient and bounded by `MaxFailures`; a message the database
  refuses on every attempt is outside the model (hazard list).
  `MessagesAreRecorded` speaks of recording and not of the offset, which a
  partition that bounces back to a consumer with an old batch can move back.
* ActiveRules: weak fairness of the poll's steps, for the same reason as in Worker.
  Activations, rescopings, moves, events and crashes are never obliged.
* Authoring: a call that has begun proceeds. The API runs each call to its end in
  a thread. A call that dies, an ontology that loses its targets before the preview,
  and a threshold that is not positive leave a request where nothing resumes it;
  `Stranded` names these cases and `RequestsComeToRest` excludes just them.

## 5. Proofs

Every safety invariant and every action property that a passing run checks, and
each refinement, is also a theorem, for **all** values of the constants: any
targets, properties, samples, thresholds, durations and freshness values, any number of workers,
partitions, consumers and messages, any rules, versions, AHUs, drafts, callers and
requests, any registers and any queries. The bounds of the runs (`MaxEvents` and
so on) are any natural numbers. The inductive invariants named below are defined in
the proof module named, before what uses them. Type correctness is
a theorem or a part of these invariants; of the runs only `evaluator_timing` repeats it.

**Assumptions.** All are named in the module that declares the constants and are
evaluated by the runs.

| Assumption | Says | Because |
|---|---|---|
| `LogicAssumption` | thresholds and durations, in every property, and freshness are positive | `FaultLogic` and `PropertyOverride` demand it; integers stand for floats |
| `SampleAssumption`, `ReadingAssumption` | times are integers, a temperature is a number or text | parsed timestamps, `float()` |
| `EventAssumption` | an id identifies an event; an event has one partition | `event_id` is derived from the source record, the key from its AHU |
| `BacktestAssumption`, and a part of `WorkerAssumption` | `InOneProperty`: all samples of an instance name one property | an abstraction (section 2), lifted in `ActiveRules` |
| `ActiveRulesAssumption` | a target is a version and an AHU; a sample is an event in a property, any event in any property; rules are ordered by key | key of the state table; the property is the preview's and not the event's; `ORDER BY` |
| `WorkerAssumption` | services and one-shots are different processes | |
| `RulesAssumption`, `AuthoringAssumption` | drafts have the shape of the draft models; a rule created directly has a positive threshold, a proposal need not; a request's rule key is its own | the draft models; `_process` derives the key from the request id |
| `RegisterAssumption` | registers are sequences of rows; spaces and equipment have different ids; the empty field is no type | `ontology_entities` has one id for both |
| `NoneAssumption`, `IngestionNone`, `RulesNone`, `AuthoringNone`, `ReasonAssumption`, `IngestionBounds` | None is no value; bounds are numbers | |

**Evaluator** (`EvaluatorProofs`). `TypeOK` and the agreement invariants are not
inductive one by one: that an issue's samples are a proven fault follows from the
window being honest, the window being later than all issues from the checkpoint
covering them, and closing finds the right row only because an OPEN state means the
*last* issue is open. `TargetInv` conjoins them for one target; `EvaluatorInv` adds
types. `EvaluateSample` disturbs one target, so the step proof considers one row and
one issue list and splits on the six transitions of the code. From the invariant
follow `TypeCorrect`, `TablesAgree`, `WindowSound`, `IssuesAreProven`,
`OccurrencesDisjoint`, `CheckpointCoversIssues`, `CheckpointNewest`, the action
properties `NewTimesOnly` and `HistoryFinal`, and `RefinesTimeline`: initial states
map to initial states, and each transition is an `Observe`, a `Raise`, an `End`, a
`Forget` or a stutter of `FaultTimeline`.

**Contract** (`ContractProofs`). The contract is a definition over positions of the
whole trail, the evaluator an automaton with one row. What joins them is
`Remembers`: what the row keeps of its trail (OPEN, that an issue is called for that
nothing has ended; QUALIFYING, the longest run of faulty samples up to the last one;
NORMAL, that the last one did not show the fault). `ContractInv` says so for every target, together with the
order of the trail and the contract itself. A sample that counts is newer than all
others, so it is appended, and one appended sample changes a definition over
positions only at its end: each transition has one lemma that says which
occurrence it begins, prolongs or ends. No induction over the trail is needed, because
the evaluator's own steps are the induction. Then `ContractHolds`,
`RecoveriesProven` and `EvidenceSpeaks`.

**Backtest** (`BacktestProofs`). A run starts from nothing at the beginning of its window.
The proof goes in two stages. The first takes the late events away: `TrailRunsInv`
compares the tables with a run over the trail.
A window begins *quietly* when the last sample before it, if there is one, recovers, so that no issue is
open and nothing is being timed: then the run's row is the evaluator's row while samples fall in the
window, and it has found the faults of the issue table that lie there. The
next sample falls before, in or behind the window. The second stage, `BacktestInv`, compares a run over
all events received with the run over the trail: they have found the same as long as the window
is `Comparable`, that is, as long as no event is late for the evaluator and new to the run
(`ReceiptsKeepStep`). Without either condition the counters of a run still speak of exactly the
samples that were new to it (`Seen`), which is what `ReasonsAreTrue` needs.
`Simulate` is a recursive function over positions; that it
satisfies its equation on every list is shown by considering the least position at which it
would not. `BacktestEvaluates` (`BacktestSpec` implements `EvaluatorSpec`) brings in what is proved
of the evaluator.

**Worker** (`WorkerProofs`). With *any* number of workers a row may be computed
from one that is no longer there. `WorkerInv` therefore demands nothing
of the agreement of row and issues: it says that every row, stored or loaded,
is honest (its window is a proven fault), and that every issue list is sound. That is
enough for `OneIssueOpen` and `WorkersProveIssues`.

How stale can a loaded row be? `PairInv` answers it. A row that `_load_state` found is
locked until the commit, so it is the current one; a transaction that found none
computes from the default row, which is NORMAL with an empty window (`InHand`). An
overtaken worker can so turn any row into NORMAL or QUALIFYING, but it never
produces an OPEN row without an issue, and it closes only what a current row says is
open. `TablesInStep` is what remains of the agreement of the tables: an OPEN row has an
open issue, opened no later than the checkpoint, and only the last issue may be open.
From the two follow `RowInHandIsCurrent` (a transaction computes from the row as it is,
or from none), `OpenRowsHaveIssues`, `IssuesEndInOrder`,
`WorkersKeepHistory`, and `OnlyAResetRepairs`: while the row is not OPEN no transaction
closes, and one that would open is refused.

The other theorems carry the hypothesis `OneAtATime` (one service, one one-shot for
which it is stopped, the sequence of `demo.sh`). From it, `WorkersAlone`: what a running worker has
loaded is what the table holds, so load and commit are one `EvaluateSample`, and
`WorkersImplementEvaluator`. The evaluator's invariant then holds of the worker's
tables; a row that is not OPEN has no open issue, hence `WorkersAreNotRefused`.
`ReplayInv` says that the trails are those of the
newest events among a first part of the list, and no cursor is beyond it: a crash or reset
only moves a cursor back, and an event met again is not newer. A trail in
order is determined by its set of samples (`InOrder`), so `FinishedPollIsReplay`.

**Active rules** (`ActiveRulesProofs`). "A target has replayed a first part of the
events" is not inductive: the next event of a poll could be one that follows a hole.
`ActiveRulesInv` adds, for each target, that the first part can be chosen to hold
whatever lies before a pending event and is no longer pending (`HasPassed`), and that
a poll holds one version of a rule (`OneVersionEach`), so that the version whose turn
it is is unique. An event of another target leaves the replay alone, one evaluated
again too, the next one extends it, and events that arrive lie behind it. Which numbers
an event was judged by is not in the events but in the poll that took it. `InKnownPlaces` says
that a poll under way, and every sample of a trail, has a property in which a preview of that version
could find the AHU (`placed` only grows), so a trail is a replay with each event in one of these
(`TrailIsReplay`). Every step
is a step of `Evaluator` or a stutter (`PollsImplementEvaluator`): an `EvaluateSample` whose sample carries
the property it is judged in, under the row saved by whatever numbers came before. So everything proved of
the evaluator, whose samples name any property in any order, holds with any number of rules and moves
(`RulesProveTheirIssues`), and with the
contract, `EveryTargetReplays`.

**Ingestion** (`IngestionProofs`). "Everything below a committed offset is recorded"
is not inductive: an old owner may commit at any later time. `IngestInv` adds that
offsets stay in the log (`OffsetsInLog`), that a consumer about to commit works on a
recorded message it holds (`ConsumersInStep`), and that what lies below the front of
any batch is recorded whoever owns the partition now, while what lies below a
partition's position is recorded or in its owner's batch (`NothingSkipped`). Records
only grow, which carries the rest. For the tables, a transaction is one of three
kinds, whichever action it belongs to: it repeats an event that has a row, rejects
one, or accepts one, and each kind does one thing to attempts, readings and current
values. `TablesInv` adds that the log is in receipt order (`LogInOrder`) and that an accepted event has the row
of a message below which everything had been recorded before
(`AcceptedAreLogged`). From it `DisposedOnce`, `HistoryExact`, `CurrentNewest`, `ReceiptOrder` and
`RefinesStore`: each transaction is a step of `TelemetryStore` or a stutter.

**Rules and authoring** (`AuthoringProofs`). A call of the rule repository takes several transactions, so
`RulesInv` says of each call what it has `Established` by the time of its next step,
in terms that other calls cannot take back: rules only grow, and a number that has
become taken is found out by the unique index. A reset takes them all back and
orphans every call. For authoring, the heart is who owns a request. A
call that has passed its check is a driver; a request that is not stopped has
at most one; a call in `_process` is at the step its request's state names, unless the request was
stopped; a confirmation knows how far its rule has come (`Confirming`), which no
other call can change as rule keys belong to requests. `AuthoringInv` conjoins them,
and `ConfirmedRules`, `ActivatedOnce` and `DrivenByOne` follow.

**Inventory** (`InventoryProofs`). `InventoryInv` says that nothing the last
register said has been lost: columns are its own and its edges are among those
stored. From that, `NothingNewIsHidden` builds the row that a preview must
have. `AllReadersAgree` is the opposite direction. In a valid register ids are
unique (a sequence as long as its set of ids repeats none), so under the edges of one register
each relation that a route follows leads to one thing at most, or to None;
thus each of the joins has exactly one route, and each route is the AHU's. The walk that finds the
stored floor is a recursive function, again handled by its least
position. `DraftsMeanTheirWords` shows that a draft comes about only when no word is
ambiguous or unknown, that then each word has exactly one meaning, and that the
properties in which floors and usages are looked up are those of the draft.

**Only model-checked:** the liveness properties (`EventsAreEvaluated`,
`MessagesAreRecorded`, `WatchedTargetsCatchUp`, `RequestsComeToRest`), which are out of the prover's
reach, and the two expected violations, which are behaviours and not theorems. The
theorems about one worker at a time do not speak of `worker_pair`; what
they say is false there; what remains true follows from `WorkerInv` and `PairInv`.

## 6. Where code and documents disagree

1. `worker_unstopped_reset`: the documented `--reset --once` command, run while the
   service is up. TRUNCATE waits for open transactions only; the service goes on in
   the middle of its list over empty tables and sets a late checkpoint, and the replay
   ignores all earlier events. `scripts/demo.sh` stops the service first, and then
   (`worker_replay`) everything holds.
2. `authoring_malformed`: a threshold or duration that is not positive passes
   `Interpretation` and raises a `ValidationError` nothing catches. The request stays
   in DISCOVERING with no stop reason.

Other behaviour met on the way, all in the hazard list:

* Two workers that both find no state row may move the checkpoint back, and can leave an
  issue open behind a NORMAL row. No later sample closes it, against docs/afdd.md:61-62
  ("A fresh OFF or trusted value at or below threshold closes it immediately"), and a poll
  aborts where the next issue would open; `OrphansStay` says that only a reset ends this.
* A register that moves an AHU into a property with an override (the default rule has one
  for Building B) changes its threshold and duration at the next poll. Events
  already evaluated keep their judgement, while a reset and replay judges all by the new
  numbers: the result need not be the "same equipment, occurrence, device-time boundaries, and evidence"
  of docs/afdd.md:66-67.
* A version switch or a disable orphans an open issue: nothing evaluates the old
  version again, so the issue is never closed (compare docs/afdd.md:61-62).
* `activate_rule` commits, then reads the rule back; when the read fails the
  request is recorded as FAILED and the rule is active.
* `--ensure-default-rule` takes a half-created rule for ready.
* Two answers to a clarification may overwrite one another.
* An ontology that loses a space just before the preview leaves the request in PREVIEWING.
* `seed --reset` truncates before it validates (docs/architecture.md:77 has validation
  before any write), so a refused register leaves an empty inventory.
* After a register has moved an AHU the old relations remain: a preview has two
  facts for it, issue counts include it twice, and the topology takes the first of
  several rows in no order. `ReadersAgree` therefore speaks of inventories
  whose relations are those of the last register, and is no guard against stale edges; `NewestIsVisible` speaks of all.
* The metadata of an asset names the topmost floor above its space (the walk
  overwrites what it met below), the joins the lowest. They differ where a building lies
  on a floor of something larger, which no validation forbids.
* A usage alias is looked up over all properties, while the comment at
  `ai_authoring.py:264` says over the selected ones. A word may so count as ambiguous
  that the selected property alone would decide; the scope of a draft is right all
  the same (`WordsDecideTheScope`).

## 7. Not modelled

MCP server, web UI and settings: they forward, present or configure. The demo checks: tests
of one data set (the stop and start sequence of `demo.sh` is in `Worker`). Plain
listings, latest values and telemetry histories: they read one table each. The model
provider, PostgreSQL and the broker: external, by what the code relies on. Schema details
beyond keys, unique indexes and the checks that guard an action. The effect of `seed
--reset` on telemetry and requests.

## 8. Plan

Order of the work: first what decides which issues exist, then what feeds it, then
what configures it. Done: the evaluator with its contracts, proofs and backtest; worker,
alone and beside others, and active rules; ingestion; rules, authoring, and the inventory
with its readers, all with proofs of their safety properties. Left:

1. `Pipeline`: `Ingestion` composed with `ActiveRules`. The receipt order that `Accept`
   assumes is a theorem of `Ingestion` (`ReceiptOrder`); the composition would show it
   in one state space.
2. Two workers: whether the tables are those of a replay again once only one of them
   is left and no issue is orphaned.
3. The effect of `seed --reset` on telemetry and requests.
