------------------------------- MODULE Worker -------------------------------
(***************************************************************************)
(* The AFDD worker processes (src/apps/worker/main.py and the polling half *)
(* of evaluator.py) over the tables of module Evaluator.                   *)
(*                                                                         *)
(* A worker polls: it reads every accepted event in receipt order and runs *)
(* evaluate_sample on each, one transaction per event.  A transaction is   *)
(* two steps here, the load of the state row and the commit, because other *)
(* processes act in between.  PostgreSQL's part is modelled too: SELECT    *)
(* ... FOR UPDATE locks the row it finds and nothing when it finds none,   *)
(* TRUNCATE waits for every transaction that has read the table, and the   *)
(* partial unique index refuses a second open issue.                       *)
(*                                                                         *)
(* The service restarts when it crashes and starts again from the first    *)
(* event; the one-shot (--reset --once) empties the tables, polls once and *)
(* exits.  One active rule version is evaluated throughout, and no AHU     *)
(* changes its property; module ActiveRules has both changes.              *)
(***************************************************************************)
EXTENDS Evaluator

CONSTANTS
    Services,     \* long-running workers
    OneShots,     \* workers started with --reset --once
    StopFirst,    \* TRUE: the services are stopped around a one-shot, as
                  \* scripts/demo.sh does; FALSE: the bare documented command
    MaxEvents,    \* bound on the accepted events
    MaxStops      \* bound on the crashes and stops

Workers == Services \cup OneShots

ASSUME WorkerAssumption ==
    /\ Services \cap OneShots = {}
    /\ StopFirst \in BOOLEAN
    /\ MaxEvents \in Nat /\ MaxStops \in Nat
    /\ InOneProperty

VARIABLES
    events,    \* accepted events in receipt order: [target, sample]
    pc,        \* where each worker is
    cursor,    \* the event a worker evaluates next
    seen,      \* how many events its poll read
    loaded,    \* the row its open transaction loaded
    stops      \* crashes and stops so far

processVars == <<pc, cursor, seen, loaded>>
workerVars  == <<vars, events, processVars, stops>>

(* A one-shot that was never launched, or has ended, is not running.       *)
Running(w) == pc[w] \in {"idle", "polling", "loaded"}

WorkerInit ==
    /\ EvaluatorInit
    /\ events = <<>>
    /\ pc     = [w \in Workers |-> IF w \in Services THEN "idle" ELSE "unlaunched"]
    /\ cursor = [w \in Workers |-> 1]
    /\ seen   = [w \in Workers |-> 0]
    /\ loaded = [w \in Workers |-> DefaultState]
    /\ stops  = 0

-----------------------------------------------------------------------------
(* Ingestion accepts an event; it is the newest in receipt order.          *)
Accept(t, s) ==
    /\ Len(events) < MaxEvents
    /\ events' = Append(events, [target |-> t, sample |-> s])
    /\ UNCHANGED <<vars, processVars, stops>>

(* evaluate_active_rules, evaluate_rule_version: read the event list.      *)
StartPoll(w) ==
    /\ pc[w] = "idle"
    /\ pc'     = [pc EXCEPT ![w] = "polling"]
    /\ cursor' = [cursor EXCEPT ![w] = 1]
    /\ seen'   = [seen EXCEPT ![w] = Len(events)]
    /\ UNCHANGED <<vars, events, loaded, stops>>

(* A worker in a transaction, and the row lock that transaction holds.     *)
InTransaction(w) == pc[w] = "loaded"
TargetOf(w)      == events[cursor[w]].target
HoldsLock(w, t)  == InTransaction(w) /\ TargetOf(w) = t /\ RowExists(loaded[w])

LockedByOther(w, t) == \E v \in Workers \ {w} : HoldsLock(v, t)

(* Variant: the first event of a poll is evaluated without the saved row.  *)
Load_FreshStart(w) ==
    /\ pc[w] = "polling"
    /\ cursor[w] <= seen[w]
    /\ ~LockedByOther(w, TargetOf(w))
    /\ loaded' = [loaded EXCEPT ![w] = IF cursor[w] = 1 THEN DefaultState
                                       ELSE states[TargetOf(w)]]
    /\ pc'     = [pc EXCEPT ![w] = "loaded"]
    /\ UNCHANGED <<vars, events, cursor, seen, stops>>

(* _load_state.  It waits for the row if the row exists and is locked.     *)
Load(w) ==
    /\ pc[w] = "polling"
    /\ cursor[w] <= seen[w]
    /\ ~LockedByOther(w, TargetOf(w))
    /\ loaded' = [loaded EXCEPT ![w] = states[TargetOf(w)]]
    /\ pc'     = [pc EXCEPT ![w] = "loaded"]
    /\ UNCHANGED <<vars, events, cursor, seen, stops>>

(* Variant: no partial unique index.                                       *)
Refused_Never(w) == FALSE

(* The partial unique index refuses a second open issue.                   *)
Refused(w) ==
    LET t == TargetOf(w)
        s == events[cursor[w]].sample
    IN  /\ EvaluateTransition(t, loaded[w], s).issue_action = "OPEN"
        /\ \E i \in DOMAIN issues[t] : IsOpen(issues[t][i])

(* The rest of evaluate_sample.  Every write is computed from the loaded   *)
(* row.  The upsert of _save_state waits for a row another transaction has *)
(* locked; a transaction that loaded no row writes nothing before it.      *)
Commit(w) ==
    LET t  == TargetOf(w)
        s  == events[cursor[w]].sample
        tr == EvaluateTransition(t, loaded[w], s)
    IN  /\ InTransaction(w)
        /\ ~LockedByOther(w, t)
        /\ ~Refused(w)
        /\ issues' = [issues EXCEPT ![t] = IssuesAfter(t, loaded[w], @, s)]
        /\ states' = [states EXCEPT ![t] = IF Persists(tr) THEN tr.row ELSE @]
        /\ trail'  = [trail EXCEPT ![t] =
                         IF IsNewest(t, s) THEN Append(@, s) ELSE @]
        /\ pc'     = [pc EXCEPT ![w] = "polling"]
        /\ cursor' = [cursor EXCEPT ![w] = @ + 1]
        /\ loaded' = [loaded EXCEPT ![w] = DefaultState]
        /\ UNCHANGED <<events, seen, stops>>

(* Variant: the service exits like a one-shot.                             *)
FinishPoll_Exits(w) ==
    /\ pc[w] = "polling"
    /\ cursor[w] > seen[w]
    /\ pc' = [pc EXCEPT ![w] = "done"]
    /\ UNCHANGED <<vars, events, cursor, seen, loaded, stops>>

(* The poll is over: a service sleeps, a one-shot exits.                   *)
FinishPoll(w) ==
    /\ pc[w] = "polling"
    /\ cursor[w] > seen[w]
    /\ pc' = [pc EXCEPT ![w] = IF w \in OneShots THEN "done" ELSE "idle"]
    /\ UNCHANGED <<vars, events, cursor, seen, loaded, stops>>

(* The process is gone, its open transaction with it.                      *)
Ends(w, after) ==
    /\ pc'     = [pc EXCEPT ![w] = after]
    /\ cursor' = [cursor EXCEPT ![w] = 1]
    /\ seen'   = [seen EXCEPT ![w] = 0]
    /\ loaded' = [loaded EXCEPT ![w] = DefaultState]
    /\ UNCHANGED <<vars, events>>

(* A crash: a service is restarted by the container runtime at once        *)
(* (restart: unless-stopped), a one-shot is not.                           *)
Crash(w) ==
    /\ Running(w)
    /\ stops < MaxStops
    /\ stops' = stops + 1
    /\ Ends(w, IF w \in Services THEN "idle" ELSE "failed")

(* The unique violation is not caught: it ends the process as a crash does.*)
Abort(w) ==
    /\ InTransaction(w)
    /\ ~LockedByOther(w, TargetOf(w))
    /\ Refused(w)
    /\ UNCHANGED stops
    /\ Ends(w, IF w \in Services THEN "idle" ELSE "failed")

(* docker compose stop worker, docker compose up worker.                   *)
StopService(w) ==
    /\ w \in Services
    /\ Running(w)
    /\ stops < MaxStops
    /\ stops' = stops + 1
    /\ Ends(w, "stopped")

StartService(w) ==
    /\ pc[w] = "stopped"
    /\ StopFirst => \A v \in OneShots : ~Running(v)
    /\ pc' = [pc EXCEPT ![w] = "idle"]
    /\ UNCHANGED <<vars, events, cursor, seen, loaded, stops>>

(* Variant: the services go on while a one-shot resets.                    *)
LaunchReset_Unstopped(w) ==
    /\ pc[w] = "unlaunched"
    /\ \A v \in Workers : ~InTransaction(v)
    /\ ResetEvaluation
    /\ pc' = [pc EXCEPT ![w] = "idle"]
    /\ UNCHANGED <<events, cursor, seen, loaded, stops>>

(* A one-shot starts and truncates both tables.  TRUNCATE needs an         *)
(* exclusive table lock, so it waits until no transaction is open.         *)
LaunchReset(w) ==
    /\ pc[w] = "unlaunched"
    /\ StopFirst => \A v \in Services : pc[v] = "stopped"
    /\ \A v \in Workers : ~InTransaction(v)
    /\ ResetEvaluation
    /\ pc' = [pc EXCEPT ![w] = "idle"]
    /\ UNCHANGED <<events, cursor, seen, loaded, stops>>

-----------------------------------------------------------------------------
WorkerStep(w) == StartPoll(w) \/ Load(w) \/ Commit(w) \/ FinishPoll(w) \/ Abort(w)

WorkerNext ==
    \/ \E t \in Targets, s \in Sample : Accept(t, s)
    \/ \E w \in Workers :
         \/ StartPoll(w)
         \/ Load(w)
         \/ Commit(w)
         \/ FinishPoll(w)
         \/ Abort(w)
         \/ Crash(w)
         \/ StopService(w)
         \/ StartService(w)
         \/ LaunchReset(w)

WorkerSpec == WorkerInit /\ [][WorkerNext]_workerVars

(* A running worker keeps taking steps (the polling loop never blocks on   *)
(* anything but the database), and a stopped service is started again.     *)
(* Nothing obliges a crash, a stop, an event or a one-shot.                *)
WorkerFairSpec ==
    /\ WorkerSpec
    /\ \A w \in Workers : WF_workerVars(WorkerStep(w))
    /\ \A w \in Services : WF_workerVars(StartService(w))

-----------------------------------------------------------------------------
(* A worker is somewhere in its loop, and a poll never runs past its list. *)
WorkerTypeOK ==
    /\ events \in Seq([target : Targets, sample : Sample])
    /\ \A w \in Workers :
         /\ pc[w] \in {"idle", "polling", "loaded", "stopped",
                       "unlaunched", "done", "failed"}
         /\ seen[w] \in 0..Len(events)
         /\ cursor[w] \in 1..(seen[w] + 1)
         /\ InTransaction(w) => cursor[w] <= seen[w]
         /\ loaded[w] \in RowType(IF InTransaction(w) THEN TargetOf(w)
                                  ELSE CHOOSE t \in Targets : TRUE)
    /\ stops \in 0..MaxStops

(* The first n events that are newer than every event of their target      *)
(* before them, and their samples: the trail of an undisturbed replay.     *)
NewestAt(t, n) ==
    {p \in 1..n : /\ events[p].target = t
                  /\ \A q \in 1..(p-1) :
                       events[q].target = t =>
                           events[q].sample.observed_at < events[p].sample.observed_at}

NewestSamples(t, n) == {events[p].sample : p \in NewestAt(t, n)}

Replayed(t, n) == InOrder(NewestSamples(t, n))

(* When a worker has finished a poll and no event has come since, the      *)
(* issue table is exactly the one a replay of all accepted events calls    *)
(* for, whatever crashes, restarts and resets came before                  *)
(* (docs/afdd.md:66-67,79-80).                                             *)
PollIsReplay ==
    \A w \in Workers :
        /\ pc[w] \in {"idle", "done"}
        /\ seen[w] > 0
        /\ seen[w] = Len(events)
        => \A t \in Targets :
             MeetsContract(t, Replayed(t, seen[w]), issues[t])

(* docs/afdd.md:66-67 of the one-shot alone: the replay after a reset      *)
(* reproduces the issues of the accepted events.                           *)
ResetReplayReproduces ==
    \A w \in OneShots :
        pc[w] = "done" /\ seen[w] = Len(events) =>
            \A t \in Targets :
                MeetsContract(t, Replayed(t, seen[w]), issues[t])

(* However many workers run, a target never has two open issues: the       *)
(* partial unique index (migration 0004:88) is the only thing that keeps   *)
(* this when two of them start on empty tables.                            *)
OneOpenIssue ==
    \A t \in Targets :
        Cardinality({i \in DOMAIN issues[t] : IsOpen(issues[t][i])}) <= 1

(* An overtaken worker may take a row back, but never to OPEN or from a    *)
(* closed issue: a row that is OPEN has its open issue, opened no later    *)
(* than its checkpoint.                                                    *)
OpenRowHasItsIssue ==
    \A t \in Targets :
        states[t].state = "OPEN" =>
            \E i \in DOMAIN issues[t] :
                /\ IsOpen(issues[t][i])
                /\ issues[t][i].opened_at <= states[t].last_observed_at

(* Whoever closes an issue does so later than it was opened, and only the  *)
(* newest issue of a target is open, although the tables can be taken back *)
(* in time between the two.                                                *)
IssuesEndAfterTheyBegin ==
    \A t \in Targets : \A i \in DOMAIN issues[t] :
        LET issue == issues[t][i]
        IN  IF IsOpen(issue)
            THEN issue.closed_at = None /\ i = Len(issues[t])
            ELSE issue.opened_at < issue.closed_at

(* An issue that is open behind a row that is not: an overtaken worker has *)
(* saved its first row over the one that went with the issue.              *)
Orphaned(t) ==
    /\ states[t].state # "OPEN"
    /\ \E i \in DOMAIN issues[t] : IsOpen(issues[t][i])

KeepsOrphans ==
    \/ trail' = Empty.issues
    \/ \A t \in Targets :
         Orphaned(t) => Orphaned(t)' /\ issues'[t] = issues[t]

(* Nothing but a reset repairs that.  _close_issue is not called, because  *)
(* the row is not OPEN, and _open_issue is refused by the unique index,    *)
(* which ends the process.  So no later OFF and no trusted value below the *)
(* threshold closes the issue, as docs/afdd.md:61-62 says it would.        *)
OrphansStay == [][KeepsOrphans]_workerVars

(* With one worker at a time that never comes about: no transaction is     *)
(* refused by the unique index, whatever crashes and resets there are.     *)
NeverRefused == \A w \in Workers : InTransaction(w) => ~Refused(w)

(* With one worker at a time, the two steps of a transaction have the      *)
(* effect of one evaluate_sample on the current row: nothing is computed   *)
(* from a row that has changed since it was loaded.                        *)
ImplementsEvaluator == EvaluatorSpec

(* Event n has been accepted, and its target's checkpoint has reached it.  *)
Evaluated(n) ==
    /\ n <= Len(events)
    /\ LET e == events[n]
       IN  /\ RowExists(states[e.target])
           /\ e.sample.observed_at <= states[e.target].last_observed_at

(* Every accepted event is eventually behind the checkpoint of its target  *)
(* (docs/afdd.md:79-80): a crash, a stop or a reset may put it back, but   *)
(* the polls that follow reach it, and no worker skips it for ever.        *)
EventsAreEvaluated ==
    \A n \in 1..MaxEvents : (Len(events) >= n) ~> []Evaluated(n)
=============================================================================
