-------------------------------- MODULE Rules --------------------------------
(***************************************************************************)
(* The rule repository of src/afdd/rules.py: rules, their numbered         *)
(* versions and which version is active, changed by concurrent calls of    *)
(* the API, the worker's --ensure-default-rule and the confirmation of an  *)
(* authored rule (module Authoring).                                       *)
(*                                                                         *)
(* A call is a sequence of transactions, and each transaction is a step:   *)
(* creating a rule is one transaction, its first version another, and      *)
(* activation reads its preview before it writes.  Between two steps other *)
(* calls run, the ontology may be reseeded, the database may fail and the  *)
(* process may die.                                                        *)
(***************************************************************************)
EXTENDS TargetPreview, Sequences, FiniteSetsExt

CONSTANTS
    Keys,          \* rule keys
    Drafts,        \* what can be submitted: records, see DraftType
    DefaultDraft,  \* default_sat_rule()
    Ontologies,    \* the ontologies seeding can produce, see TargetPreview
    Callers,       \* concurrent calls
    MaxVersions,   \* bound on the versions of a rule
    MaxFaults,     \* bound on failures, dead processes and inventory resets
    MaxDrifts,     \* bound on changes of the ontology
    None

(* The part of a RuleDraft that the checks look at; the logic is a         *)
(* threshold, which FaultLogic declares gt=0.                              *)
DraftType == [ key : Keys, properties : SUBSET STRING, floors : SUBSET STRING,
               property_type : STRING, zone_usages : SUBSET STRING,
               room_usages : SUBSET STRING, overrides : SUBSET STRING,
               threshold : Int ]

ASSUME RulesAssumption ==
    /\ DefaultDraft \in Drafts
    /\ \A d \in Drafts : d \in DraftType /\ d.threshold > 0
    /\ MaxVersions \in Nat /\ MaxFaults \in Nat /\ MaxDrifts \in Nat
    /\ None \notin Keys \cup Drafts

(* A row of afdd_rules, with its versions, whose drafts are in D.          *)
RuleType(D) == [ versions : SUBSET [draft : D, version : Nat],
                 enabled : BOOLEAN, active : Nat \cup {None} ]

ASSUME RulesNone == None \notin Nat \cup RuleType(Drafts)

VARIABLES
    ontology,   \* the current one
    rules,      \* rules[k]: None or [versions, enabled, active]
    calls,      \* calls[c]: the call c is making, and the step it is at
    faults, drifts

ruleVars == <<ontology, rules, calls, faults, drifts>>

(* A call: the rule and, for a confirmation, the authoring request it is   *)
(* about, its next step, the draft it brings, the version and what it is.  *)
Call(key, request, step, draft, version, op) ==
    [ key |-> key, request |-> request, step |-> step, draft |-> draft,
      version |-> version, op |-> op ]

EmptyOntology == [spaces |-> <<>>, facts |-> {}]

(* versions is the table afdd_rule_versions: a set of rows.                *)
NewRule == [versions |-> {}, enabled |-> FALSE, active |-> None]

VersionRow(n, d) == [draft |-> d, version |-> n]

Numbers(k) == {row.version : row \in rules[k].versions}

NoCall == Call(None, None, "idle", None, None, None)

RulesInit ==
    /\ ontology \in Ontologies
    /\ rules = [k \in Keys |-> None]
    /\ calls = [c \in Callers |-> NoCall]
    /\ faults = 0
    /\ drifts = 0

-----------------------------------------------------------------------------
(* Variant: a valid draft may be activated without a target.               *)
Activatable_Untargeted(o, d) == ReferencesHold(o, d)

Activatable(o, d) == ReferencesHold(o, d) /\ Matched(o, d) # {}

-----------------------------------------------------------------------------
(* The steps of a call.                                                    *)

At(c, step) == calls[c].step = step
Active(c)   == ~At(c, "idle")

(* The call at its next step, or nothing when it has ended.                *)
After(c, step) ==
    IF step \in {"returned", "raised", "died"} THEN NoCall
    ELSE [calls[c] EXCEPT !.step = step]

GoTo(c, step) == calls' = [calls EXCEPT ![c] = After(c, step)]

(* An exception ends a call.  A confirmation catches those of the rule     *)
(* repository and goes on to record the failure; and it has a result to    *)
(* record when activation returns (module Authoring).                      *)
Raised(c) ==
    IF calls[c].op = "confirm" /\ calls[c].step \notin {"settle", "failed"}
    THEN "failed"
    ELSE "raised"

Returned(c) == IF calls[c].op = "confirm" THEN "settle" ELSE "returned"

RuleOf(c)  == rules[calls[c].key]
DraftOf(c) == calls[c].draft

(* validate_references, an error being raised as ValueError.               *)
Validate(c, step, next) ==
    /\ At(c, step)
    /\ GoTo(c, IF ReferencesHold(ontology, DraftOf(c)) THEN next ELSE Raised(c))
    /\ UNCHANGED <<ontology, rules, faults, drifts>>

(* The first transaction of create_rule; rule_key is unique.               *)
InsertRule(c) ==
    /\ At(c, "insert_rule")
    /\ IF RuleOf(c) = None
       THEN /\ rules' = [rules EXCEPT ![calls[c].key] = NewRule]
            /\ GoTo(c, "check")
       ELSE /\ GoTo(c, Raised(c))
            /\ UNCHANGED rules
    /\ UNCHANGED <<ontology, faults, drifts>>

(* Variant: a version may bring the key of another rule.                   *)
NextNumber_AnyKey(c) ==
    /\ At(c, "number")
    /\ calls' = [calls EXCEPT
                     ![c].step    = "insert_version",
                     ![c].version = Max(Numbers(calls[c].key) \cup {0}) + 1]
    /\ UNCHANGED <<ontology, rules, faults, drifts>>

(* create_rule_version reads the rule and the highest number.              *)
NextNumber(c) ==
    /\ At(c, "number")
    /\ IF RuleOf(c) = None \/ DraftOf(c).key # calls[c].key
       THEN GoTo(c, Raised(c))
       ELSE calls' = [calls EXCEPT
                         ![c].step    = "insert_version",
                         ![c].version = Max(Numbers(calls[c].key) \cup {0}) + 1]
    /\ UNCHANGED <<ontology, rules, faults, drifts>>

(* Variant: no unique key on (rule_id, version).                           *)
NumberTaken_Never(c) == FALSE

NumberTaken(c) == calls[c].version \in Numbers(calls[c].key)

(* Variant: a confirmation stops once the version is stored.               *)
AfterVersion_NotActivated(c) ==
    IF calls[c].op = "ensure" THEN "preview" ELSE Returned(c)

(* What comes after the version is stored.                                 *)
AfterVersion(c) ==
    IF calls[c].op \in {"ensure", "confirm"} THEN "preview" ELSE Returned(c)

(* The inserts of create_rule_version, in the transaction that read the    *)
(* number.  The property of an override is looked up again.                *)
InsertVersion(c) ==
    /\ At(c, "insert_version")
    /\ IF NumberTaken(c) \/ ~(DraftOf(c).overrides \subseteq DOMAIN ontology.spaces)
       THEN /\ GoTo(c, Raised(c))
            /\ UNCHANGED rules
       ELSE /\ rules' = [rules EXCEPT ![calls[c].key].versions =
                            @ \cup {VersionRow(calls[c].version, DraftOf(c))}]
            /\ GoTo(c, AfterVersion(c))
    /\ UNCHANGED <<ontology, faults, drifts>>

(* activate_rule first previews the version under the current ontology.    *)
Preview(c) ==
    /\ At(c, "preview")
    /\ LET chosen == {row \in RuleOf(c).versions : row.version = calls[c].version}
           usable == /\ RuleOf(c) # None
                     /\ chosen # {}
                     /\ \A row \in chosen : Activatable(ontology, row.draft)
       IN  GoTo(c, IF usable THEN "activate" ELSE Raised(c))
    /\ UNCHANGED <<ontology, rules, faults, drifts>>

Activate(c) ==
    /\ At(c, "activate")
    /\ rules' = [rules EXCEPT ![calls[c].key].active  = calls[c].version,
                              ![calls[c].key].enabled = TRUE]
    /\ GoTo(c, "report")
    /\ UNCHANGED <<ontology, faults, drifts>>

(* get_rule, the read that ends activation and disabling.                  *)
Report(c) ==
    /\ At(c, "report")
    /\ GoTo(c, Returned(c))
    /\ UNCHANGED <<ontology, rules, faults, drifts>>

Disable(c) ==
    /\ At(c, "disable")
    /\ IF RuleOf(c) = None
       THEN /\ GoTo(c, Raised(c))
            /\ UNCHANGED rules
       ELSE /\ rules' = [rules EXCEPT ![calls[c].key].enabled = FALSE]
            /\ GoTo(c, "report")
    /\ UNCHANGED <<ontology, faults, drifts>>

(* ensure_default_rule: an existing rule is returned as it is.             *)
LookUpDefault(c) ==
    /\ At(c, "lookup")
    /\ GoTo(c, IF RuleOf(c) # None THEN "report" ELSE "validate")
    /\ UNCHANGED <<ontology, rules, faults, drifts>>

RuleStep(c) ==
    \/ Validate(c, "validate", "insert_rule")
    \/ InsertRule(c)
    \/ Validate(c, "check", "number")
    \/ NextNumber(c)
    \/ InsertVersion(c)
    \/ Preview(c)
    \/ Activate(c)
    \/ Report(c)
    \/ Disable(c)
    \/ LookUpDefault(c)

-----------------------------------------------------------------------------
(* Calls begin, and go wrong.                                              *)

Begin(c, key, request, step, draft, version, op) ==
    /\ ~Active(c)
    /\ calls' = [calls EXCEPT ![c] = Call(key, request, step, draft, version, op)]
    /\ UNCHANGED <<ontology, rules, faults, drifts>>

(* POST /rules, POST /rules/{id}/versions, .../activate, .../disable.      *)
BeginCreate(c, d) ==
    Begin(c, d.key, None, "validate", d, None, "create")

BeginVersion(c, k, d) ==
    /\ rules[k] # None
    /\ Cardinality(rules[k].versions) < MaxVersions
    /\ Begin(c, k, None, "check", d, None, "version")

BeginActivate(c, k, n) ==
    /\ rules[k] # None
    /\ Begin(c, k, None, "preview", None, n, "activate")

BeginDisable(c, k) ==
    /\ rules[k] # None
    /\ Begin(c, k, None, "disable", None, None, "disable")

(* python -m apps.worker.main --ensure-default-rule                        *)
BeginEnsure(c) ==
    Begin(c, DefaultDraft.key, None, "lookup", DefaultDraft, None, "ensure")

(* The database refuses a step (an exception the caller sees) or the       *)
(* process dies (nobody sees anything).                                    *)
Fault(c) ==
    /\ Active(c)
    /\ faults < MaxFaults
    /\ faults' = faults + 1
    /\ \E end \in {Raised(c), "died"} : GoTo(c, end)
    /\ UNCHANGED <<ontology, rules, drifts>>

(* The ontology is reseeded from other source files.  An import never      *)
(* removes a space (module Ontology); filling an empty one is no drift.    *)
Reseed(o) ==
    /\ o # ontology
    /\ DOMAIN ontology.spaces \subseteq DOMAIN o.spaces
    /\ IF ontology = EmptyOntology
       THEN UNCHANGED drifts
       ELSE drifts < MaxDrifts /\ drifts' = drifts + 1
    /\ ontology' = o
    /\ UNCHANGED <<rules, calls, faults>>

(* seed --reset, before it seeds: the inventory and the rules are          *)
(* truncated, which waits for a transaction that has read them to end.  A  *)
(* call that has read or written a rule before keeps an id that no longer  *)
(* exists, and raises when it uses it.                                     *)
ResetInventory ==
    /\ faults < MaxFaults
    /\ \A c \in Callers : ~At(c, "insert_version")
    /\ faults' = faults + 1
    /\ ontology' = EmptyOntology
    /\ rules' = [k \in Keys |-> None]
    /\ calls' = [c \in Callers |->
                    IF calls[c].step \in {"idle", "lookup", "validate", "insert_rule"}
                    THEN calls[c]
                    ELSE [calls[c] EXCEPT !.step = "orphaned"]]
    /\ UNCHANGED drifts

Orphaned(c) ==
    /\ At(c, "orphaned")
    /\ GoTo(c, "raised")
    /\ UNCHANGED <<ontology, rules, faults, drifts>>

BeginCall(c) ==
    \/ \E d \in Drafts : BeginCreate(c, d)
    \/ \E k \in Keys, d \in Drafts : BeginVersion(c, k, d)
    \/ \E k \in Keys, n \in 1..MaxVersions : BeginActivate(c, k, n)
    \/ \E k \in Keys : BeginDisable(c, k)
    \/ BeginEnsure(c)

RulesNext ==
    \/ \E c \in Callers : BeginCall(c) \/ RuleStep(c) \/ Orphaned(c) \/ Fault(c)
    \/ \E o \in Ontologies : Reseed(o)
    \/ ResetInventory

RulesSpec == RulesInit /\ [][RulesNext]_ruleVars

-----------------------------------------------------------------------------
(* Properties.                                                             *)

(* Two versions of a rule never share a number and no number is skipped,   *)
(* although concurrent calls compute max(version)+1 from the same rows     *)
(* (docs/afdd.md:5-6).                                                     *)
VersionsAreNumbered ==
    \A k \in Keys : rules[k] # None =>
        Numbers(k) = 1..Cardinality(rules[k].versions)

(* An enabled rule has an active version, and the active version is one of *)
(* its own versions: the worker's join (evaluate_active_rules) neither     *)
(* drops an enabled rule nor evaluates another rule's draft.               *)
EnabledRuleIsRunnable ==
    \A k \in Keys : rules[k] # None =>
        /\ rules[k].enabled => rules[k].active # None
        /\ rules[k].active # None =>
             \E row \in rules[k].versions :
                 row.version = rules[k].active /\ row.draft.key = k

(* While the ontology stays as it is, every enabled rule has valid         *)
(* references and at least one AHU to watch.  activate_rule previews a     *)
(* version in one transaction and enables it in another, with other calls, *)
(* failures and a reset of the whole inventory in between.                 *)
EnabledRuleHasTargets ==
    \A k \in Keys : rules[k] # None =>
        \A row \in rules[k].versions :
            rules[k].enabled /\ row.version = rules[k].active /\ drifts = 0
            => /\ ReferencesHold(ontology, row.draft)
               /\ Matched(ontology, row.draft) # {}
=============================================================================
