--------------------------- MODULE AuthoringProofs ---------------------------
(***************************************************************************)
(* The rule repository and authoring, for any rules, drafts, ontologies,   *)
(* requests and interpretations and any number of concurrent calls.        *)
(*                                                                         *)
(* The repository: versions are numbered without a gap, and an enabled     *)
(* rule runs one of its own versions, which has targets as long as the     *)
(* ontology stays.  The argument is what a call has established by its     *)
(* next step (Established) and that no step of another call takes          *)
(* it back: a rule, once there, stays and only gains versions with new     *)
(* numbers (Grows), until a reset truncates the rules and orphans every    *)
(* call that relies on one.                                                *)
(*                                                                         *)
(* Authoring: what comes out of a request is what a person reviewed and    *)
(* confirmed, once.  The argument is who owns a request.  The call that    *)
(* works on it (its driver) is alone as long as the request is not         *)
(* stopped, knows the state the request is in, and a confirmation also     *)
(* knows how far its rule has come.  A step is therefore local: it changes *)
(* one call and one request (OwnStep), or only a call (CallOnly), or stops *)
(* a request and lets its driver find out.                                 *)
(***************************************************************************)
EXTENDS Authoring, FiniteSetTheorems, TLAPS

-----------------------------------------------------------------------------
(* The inductive invariant of the rule repository.                         *)

Steps == { "idle", "lookup", "validate", "insert_rule", "check", "number",
           "insert_version", "preview", "activate", "report", "disable",
           "orphaned", "settle", "failed" }

CallType == [ key : Keys \cup {None}, request : {None}, step : Steps,
              draft : Drafts \cup {None}, version : Nat \cup {None},
              op : {"create", "version", "activate", "disable", "ensure", None} ]

RulesTypeOK ==
    /\ rules \in [Keys -> RuleType(Drafts) \cup {None}]
    /\ calls \in [Callers -> CallType]
    /\ drifts \in Nat

(* The rows of a rule are finitely many and are about that rule.           *)
VersionsAreOwn ==
    \A k \in Keys : rules[k] # None =>
        /\ IsFiniteSet(rules[k].versions)
        /\ \A row \in rules[k].versions : row.draft.key = k

HasTargets(k, n) ==
    \A row \in rules[k].versions :
        row.version = n => Activatable(ontology, row.draft)

(* What a call has established by the time it is at its step.              *)
Established(call) ==
    LET k == call.key
    IN  /\ call.step # "idle" => k \in Keys
        /\ call.step \in {"lookup", "validate", "insert_rule", "check", "number",
                          "insert_version"} => call.draft \in Drafts
        /\ call.step = "insert_version" =>
             /\ rules[k] # None
             /\ call.draft.key = k
             /\ call.version \in 1..(Cardinality(rules[k].versions) + 1)
        /\ call.step = "activate" =>
             /\ rules[k] # None
             /\ call.version \in Numbers(k)
             /\ drifts = 0 => HasTargets(k, call.version)

RulesInv ==
    /\ RulesTypeOK
    /\ VersionsAreOwn
    /\ \A c \in Callers : Established(calls[c])
    /\ VersionsAreNumbered
    /\ EnabledRuleIsRunnable
    /\ EnabledRuleHasTargets

-----------------------------------------------------------------------------
(* The inductive invariant of authoring.                                   *)

(* The state in which a call of _process takes each of its steps.          *)
StateAt == [ start |-> "RECEIVED", interpret |-> "INTERPRETING",
             resolve |-> "DISCOVERING", check_draft |-> "VALIDATING",
             preview_draft |-> "PREVIEWING" ]

ProcessSteps == DOMAIN StateAt \cup {"answer"}

ConfirmSteps == { "validate", "insert_rule", "check", "number", "insert_version",
                  "preview", "activate", "report", "settle", "failed" }

AuthoringCallType ==
    [ key : Requests \cup {None}, request : Requests \cup {None},
      step : {"idle"} \cup ProcessSteps \cup ConfirmSteps,
      draft : Proposals \cup {None}, version : Nat \cup {None},
      op : {"process", "confirm", None} ]

AuthoringTypes ==
    /\ rules \in [Keys -> RuleType(Proposals) \cup {None}]
    /\ calls \in [Callers -> AuthoringCallType]
    /\ requests \in [Requests -> RequestType \cup {None}]
    /\ read \in [Callers -> Seq(Callers)]

(* How far a confirmation has come with its rule, by its step.             *)
Confirming(call) ==
    LET rule == rules[call.request]
    IN  /\ call.step \in {"validate", "insert_rule"} => rule = None
        /\ call.step \in {"check", "number", "insert_version"} =>
             rule # None /\ rule.versions = {}
        /\ call.step \in {"insert_version", "preview", "activate"} => call.version = 1
        /\ call.step \in {"preview", "activate", "report", "settle"} =>
             rule # None /\ rule.versions = {VersionRow(1, call.draft)}
        /\ call.step \in {"report", "settle"} => rule.enabled /\ rule.active = 1

(* What a call knows of its request: only a stop can have come between.    *)
CallIsSound(c) ==
    LET call == calls[c]
        r    == call.request
    IN  call.step # "idle" =>
          /\ r \in Requests /\ call.key = r /\ requests[r] # None
          /\ call.op = IF call.step \in ConfirmSteps THEN "confirm" ELSE "process"
          /\ call.step = "answer" => Len(read[c]) < MaxAnswers
          /\ call.step \in DOMAIN StateAt => State(r) \in {StateAt[call.step], "STOPPED"}
          /\ call.step \in {"check_draft", "preview_draft"} =>
               call.draft \in Proposals /\ call.draft.key = r /\ WellFormed(call.draft)
          /\ call.step \in ConfirmSteps =>
               /\ State(r) = "CONFIRMED"
               /\ call.draft = requests[r].reviewed
               /\ Confirming(call)

RequestIsSound(r) ==
    /\ requests[r] # None =>
         /\ requests[r].reviewed # None =>
              requests[r].reviewed.key = r /\ WellFormed(requests[r].reviewed)
         /\ Len(requests[r].history) <= MaxAnswers
         /\ State(r) \in {"READY_FOR_REVIEW", "CONFIRMED", "ACTIVATED"} =>
              requests[r].reviewed # None
         /\ State(r) = "CONFIRMED" => requests[r].confirmed
    /\ rules[r] # None =>
         /\ State(r) \in {"CONFIRMED", "ACTIVATED", "FAILED"}
         /\ requests[r].confirmed
         /\ rules[r].versions \subseteq {VersionRow(1, requests[r].reviewed)}
    /\ State(r) = "ACTIVATED" =>
         rules[r] # None /\ rules[r].enabled /\ rules[r].active = 1

AuthoringInv ==
    /\ AuthoringTypes
    /\ \A c \in Callers : CallIsSound(c)
    /\ \A r \in Requests : RequestIsSound(r)
    /\ \A r \in Requests : State(r) # "STOPPED" =>
          \A c, d \in Drivers(r) : c = d

(* Nothing that a call may rely on is lost.                                *)
Grows ==
    \A k \in Keys : rules[k] # None =>
        /\ rules'[k] # None
        /\ Cardinality(rules[k].versions) <= Cardinality(rules'[k].versions)
        /\ rules[k].versions \subseteq rules'[k].versions
        /\ \A row \in rules'[k].versions \ rules[k].versions :
              row.version \notin Numbers(k)

-----------------------------------------------------------------------------
(* Rules as records.                                                       *)

(* The columns of a rule that is there.                                    *)
LEMMA RuleFields ==
    ASSUME RulesTypeOK, NEW k \in Keys, rules[k] # None
    PROVE  /\ rules[k] \in RuleType(Drafts)
           /\ rules[k].versions \subseteq [draft : Drafts, version : Nat]
           /\ rules[k].enabled \in BOOLEAN
           /\ rules[k].active \in Nat \cup {None}
           /\ Numbers(k) \subseteq Nat
<1>1. rules[k] \in RuleType(Drafts)
  BY DEF RulesTypeOK
<1>2. rules[k].versions \subseteq [draft : Drafts, version : Nat]
  BY <1>1 DEF RuleType
<1> QED
  BY <1>1, <1>2 DEF RuleType, Numbers

(* A rule is no None.                                                      *)
LEMMA RuleIsThere ==
    ASSUME NEW rule \in RuleType(Drafts)
    PROVE  rule # None
BY RulesNone

(* The numbers of a rule are those of its version rows.                    *)
LEMMA NumbersAreRows ==
    ASSUME RulesTypeOK, NEW k \in Keys, rules[k] # None, NEW n
    PROVE  n \in Numbers(k) <=> \E row \in rules[k].versions : row.version = n
BY DEF Numbers

(* max(version) + 1 is at most one past the number of versions.            *)
LEMMA NextIsBounded ==
    ASSUME RulesInv, NEW k \in Keys, rules[k] # None
    PROVE  Max(Numbers(k) \cup {0}) + 1 \in 1..(Cardinality(rules[k].versions) + 1)
<1> DEFINE n == Cardinality(rules[k].versions)
<1>1. n \in Nat
  BY FS_CardinalityType DEF RulesInv, VersionsAreOwn
<1>2. Numbers(k) \cup {0} = 0..n
  BY <1>1 DEF RulesInv, VersionsAreNumbered
<1> HIDE DEF n
<1>3. n \in 0..n /\ \A y \in 0..n : n >= y
  BY <1>1
<1>4. Max(0..n) \in 0..n
  BY <1>3 DEF Max
<1>5. Max(Numbers(k) \cup {0}) \in 0..n
  BY <1>2, <1>4
<1> QED
  BY <1>1, <1>5 DEF n

-----------------------------------------------------------------------------
(* Steps that change one call and no rule.                                 *)

(* A step of a call that touches no table keeps the invariant when the     *)
(* call's knowledge is established.                                        *)
LEMMA CallKeeps ==
    ASSUME RulesInv, UNCHANGED <<ontology, rules, drifts>>,
           NEW c \in Callers, NEW call \in CallType, Established(call),
           calls' = [calls EXCEPT ![c] = call]
    PROVE  RulesInv'
<1>1. RulesTypeOK'
  BY DEF RulesInv, RulesTypeOK
<1>2. \A d \in Callers : calls'[d] = IF d = c THEN call ELSE calls[d]
  BY DEF RulesInv, RulesTypeOK
<1>3. ASSUME NEW d \in Callers PROVE Established(calls[d])'
  <2>1. Established(calls'[d])
    BY <1>2 DEF RulesInv
  <2> QED
    BY <2>1 DEF Established, HasTargets, Numbers
<1>4. VersionsAreOwn' /\ VersionsAreNumbered'
  BY DEF RulesInv, VersionsAreOwn, VersionsAreNumbered, Numbers
<1>5. EnabledRuleIsRunnable' /\ EnabledRuleHasTargets'
  BY DEF RulesInv, EnabledRuleIsRunnable, EnabledRuleHasTargets
<1> QED
  BY <1>1, <1>3, <1>4, <1>5 DEF RulesInv

(* The end of a call, and every step at which nothing need be established. *)
LEMMA After_Ends ==
    ASSUME RulesInv, NEW c \in Callers,
           NEW step \in {"returned", "raised", "died", "failed", "settle", "report",
                         "orphaned"},
           Active(c)
    PROVE  After(c, step) \in CallType /\ Established(After(c, step))
<1>1. calls[c] \in CallType /\ Established(calls[c])
  BY DEF RulesInv, RulesTypeOK
<1>2. CASE step \in {"returned", "raised", "died"}
  <2>1. After(c, step) = NoCall
    BY <1>2 DEF After
  <2>2. NoCall \in CallType
    BY DEF NoCall, Call, CallType, Steps
  <2>3. NoCall.step = "idle"
    BY DEF NoCall, Call
  <2>4. Established(NoCall)
    BY <2>3 DEF Established
  <2> QED
    BY <2>1, <2>2, <2>4
<1>3. CASE step \in {"failed", "settle", "report", "orphaned"}
  <2>1. After(c, step) = [calls[c] EXCEPT !.step = step]
    BY <1>3 DEF After
  <2> QED
    BY <1>1, <1>3, <2>1 DEF CallType, Steps, Established, Active, At
<1> QED
  BY <1>2, <1>3

(* A call that raises, or dies, leaves the tables alone.                   *)
LEMMA Raises ==
    ASSUME RulesInv, NEW c \in Callers, Active(c), GoTo(c, Raised(c)),
           UNCHANGED <<ontology, rules, drifts>>
    PROVE  RulesInv'
<1>1. Raised(c) \in {"failed", "raised"}
  BY DEF Raised
<1>2. After(c, Raised(c)) \in CallType /\ Established(After(c, Raised(c)))
  BY <1>1, After_Ends
<1> QED
  BY <1>2, CallKeeps DEF GoTo

(* A call that returns leaves them alone too.                              *)
LEMMA Returns ==
    ASSUME RulesInv, NEW c \in Callers, Active(c),
           NEW step \in {"report", Returned(c)}, GoTo(c, step),
           UNCHANGED <<ontology, rules, drifts>>
    PROVE  RulesInv'
<1>1. step \in {"report", "settle", "returned"}
  BY DEF Returned
<1>2. After(c, step) \in CallType /\ Established(After(c, step))
  BY <1>1, After_Ends
<1> QED
  BY <1>2, CallKeeps DEF GoTo

(* A call on its way to a step that needs only its draft.                  *)
LEMMA Proceeds ==
    ASSUME RulesInv, NEW c \in Callers, Active(c), calls[c].draft \in Drafts,
           NEW step \in {"validate", "insert_rule", "check", "number"}, GoTo(c, step),
           UNCHANGED <<ontology, rules, drifts>>
    PROVE  RulesInv'
<1>1. calls[c] \in CallType /\ Established(calls[c])
  BY DEF RulesInv, RulesTypeOK
<1>2. After(c, step) = [calls[c] EXCEPT !.step = step]
  BY DEF After
<1>3. After(c, step) \in CallType /\ Established(After(c, step))
  BY <1>1, <1>2 DEF CallType, Steps, Established, Active, At
<1> QED
  BY <1>3, CallKeeps DEF GoTo

(* A validation lets the call go on with the draft it carries, or raises.  *)
LEMMA ValidateKeeps ==
    ASSUME RulesInv, NEW c \in Callers,
           NEW step \in {"validate", "check"}, NEW next \in {"insert_rule", "number"},
           Validate(c, step, next)
    PROVE  RulesInv'
<1>1. Active(c) /\ calls[c].draft \in Drafts
  BY DEF Validate, Active, At, RulesInv, Established
<1> QED
  BY <1>1, Raises, Proceeds DEF Validate

(* SELECT max(version) + 1 establishes a number that no older version      *)
(* exceeds.                                                                *)
LEMMA NumberKeeps ==
    ASSUME RulesInv, NEW c \in Callers, NextNumber(c)
    PROVE  RulesInv'
<1> DEFINE n    == Max(Numbers(calls[c].key) \cup {0}) + 1
           call == [calls[c] EXCEPT !.step = "insert_version", !.version = n]
<1>1. /\ calls[c] \in CallType /\ Established(calls[c])
      /\ Active(c) /\ calls[c].draft \in Drafts /\ calls[c].key \in Keys
  BY DEF NextNumber, Active, At, RulesInv, RulesTypeOK, Established
<1>2. CASE GoTo(c, Raised(c))
  BY <1>1, <1>2, Raises DEF NextNumber
<1>3. CASE RuleOf(c) # None /\ DraftOf(c).key = calls[c].key
  <2>1. n \in 1..(Cardinality(rules[calls[c].key].versions) + 1)
    BY <1>1, <1>3, NextIsBounded DEF RuleOf
  <2>2. IsFiniteSet(rules[calls[c].key].versions)
    BY <1>1, <1>3 DEF RulesInv, VersionsAreOwn, RuleOf
  <2>3. n \in Nat
    BY <2>1, <2>2, FS_CardinalityType
  <2>4. calls' = [calls EXCEPT ![c] = call]
    BY <1>1, <1>3, RulesNone DEF NextNumber, RulesInv, RulesTypeOK
  <2> HIDE DEF n
  <2>5. call \in CallType
    BY <1>1, <2>3 DEF CallType, Steps
  <2>6. /\ call.key = calls[c].key /\ call.draft = calls[c].draft
        /\ call.version = n /\ call.step = "insert_version"
    BY <1>1 DEF CallType
  <2>7. Established(call)
    BY <1>1, <1>3, <2>1, <2>6 DEF Established, RuleOf, DraftOf
  <2> QED
    BY <2>4, <2>5, <2>7, CallKeeps DEF NextNumber
<1> QED
  BY <1>2, <1>3 DEF NextNumber

(* The preview of an activation establishes that the version is there and, *)
(* as long as the ontology stands, has targets.                            *)
LEMMA PreviewKeeps ==
    ASSUME RulesInv, NEW c \in Callers, Preview(c)
    PROVE  RulesInv'
<1>1. /\ calls[c] \in CallType /\ Established(calls[c])
      /\ Active(c) /\ calls[c].key \in Keys
  BY DEF Preview, Active, At, RulesInv, RulesTypeOK, Established
<1>2. CASE GoTo(c, Raised(c))
  BY <1>1, <1>2, Raises DEF Preview
<1>3. CASE ~GoTo(c, Raised(c))
  <2> DEFINE k    == calls[c].key
             n    == calls[c].version
             call == [calls[c] EXCEPT !.step = "activate"]
  <2>1. /\ rules[k] # None
        /\ \E row \in rules[k].versions : row.version = n
        /\ \A row \in rules[k].versions : row.version = n => Activatable(ontology, row.draft)
        /\ GoTo(c, "activate")
    BY <1>3 DEF Preview, RuleOf
  <2>2. n \in Numbers(k) /\ HasTargets(k, n)
    BY <2>1 DEF Numbers, HasTargets
  <2>3. calls' = [calls EXCEPT ![c] = call]
    BY <2>1 DEF GoTo, After
  <2>4. call \in CallType
    BY <1>1 DEF CallType, Steps
  <2>5. call.key = k /\ call.version = n /\ call.step = "activate"
    BY <1>1 DEF CallType
  <2>6. Established(call)
    BY <1>1, <2>1, <2>2, <2>5 DEF Established
  <2> QED
    BY <2>3, <2>4, <2>6, CallKeeps DEF Preview
<1> QED
  BY <1>2, <1>3

-----------------------------------------------------------------------------
(* Steps that change a rule.                                               *)

(* What a call relies on survives the growth of the rules.                 *)
LEMMA EstablishedStays ==
    ASSUME RulesInv, Grows, UNCHANGED <<ontology, drifts>>,
           \A k \in Keys : rules[k] # None => Cardinality(rules[k].versions) \in Nat,
           \A k \in Keys : rules'[k] # None => Cardinality(rules'[k].versions) \in Nat,
           NEW call \in CallType, Established(call)
    PROVE  Established(call)'
<1> DEFINE k == call.key
<1>1. ASSUME call.step = "insert_version"
      PROVE  /\ rules'[k] # None
             /\ call.draft.key = k
             /\ call.version \in 1..(Cardinality(rules'[k].versions) + 1)
  <2>1. /\ k \in Keys /\ rules[k] # None /\ call.draft.key = k
        /\ call.version \in 1..(Cardinality(rules[k].versions) + 1)
    BY <1>1 DEF Established
  <2> HIDE DEF k
  <2>2. /\ rules'[k] # None
        /\ Cardinality(rules[k].versions) <= Cardinality(rules'[k].versions)
    BY <2>1 DEF Grows
  <2> QED
    BY <2>1, <2>2
<1>2. ASSUME call.step = "activate"
      PROVE  /\ rules'[k] # None
             /\ call.version \in Numbers(k)'
             /\ drifts' = 0 => HasTargets(k, call.version)'
  <2>1. /\ k \in Keys /\ rules[k] # None
        /\ call.version \in Numbers(k)
        /\ drifts = 0 => HasTargets(k, call.version)
    BY <1>2 DEF Established
  <2> HIDE DEF k
  <2>2. /\ rules'[k] # None
        /\ rules[k].versions \subseteq rules'[k].versions
        /\ \A row \in rules'[k].versions \ rules[k].versions :
              row.version \notin Numbers(k)
    BY <2>1 DEF Grows
  <2> QED
    BY <2>1, <2>2 DEF Numbers, HasTargets
<1> QED
  BY <1>1, <1>2 DEF Established

(* A step that gives rule k the row new and leaves every other rule.       *)
LEMMA RuleStepHolds ==
    ASSUME RulesInv, UNCHANGED <<ontology, drifts>>,
           NEW c \in Callers, NEW k \in Keys, NEW new \in RuleType(Drafts),
           rules' = [rules EXCEPT ![k] = new], Grows,
           IsFiniteSet(new.versions),
           \A row \in new.versions : row.draft.key = k,
           {row.version : row \in new.versions} = 1..Cardinality(new.versions),
           new.enabled => new.active # None,
           new.active # None => new.active \in Numbers(k)',
           new.enabled /\ drifts = 0 => HasTargets(k, new.active)',
           NEW call \in CallType, Established(call)',
           calls' = [calls EXCEPT ![c] = call]
    PROVE  RulesInv'
<1>1. \A j \in Keys : rules'[j] = IF j = k THEN new ELSE rules[j]
  BY DEF RulesInv, RulesTypeOK
<1>2. RulesTypeOK'
  BY DEF RulesInv, RulesTypeOK
<1>3. VersionsAreOwn'
  BY <1>1 DEF RulesInv, VersionsAreOwn
<1>4. /\ \A j \in Keys : rules[j] # None => Cardinality(rules[j].versions) \in Nat
      /\ \A j \in Keys : rules'[j] # None => Cardinality(rules'[j].versions) \in Nat
  BY <1>3, FS_CardinalityType DEF RulesInv, VersionsAreOwn
<1>5. \A d \in Callers : Established(calls[d])'
  <2> SUFFICES ASSUME NEW d \in Callers PROVE Established(calls[d])'
    OBVIOUS
  <2>1. calls'[d] = IF d = c THEN call ELSE calls[d]
    BY DEF RulesInv, RulesTypeOK
  <2>2. CASE d = c
    BY <2>1, <2>2 DEF Established, HasTargets, Numbers
  <2>3. CASE d # c
    <3>1. PICK old \in CallType : old = calls[d] /\ Established(old)
      BY DEF RulesInv, RulesTypeOK
    <3>2. Established(old)'
      BY <1>4, <3>1, EstablishedStays
    <3> QED
      BY <2>1, <2>3, <3>1, <3>2 DEF Established, HasTargets, Numbers
  <2> QED
    BY <2>2, <2>3
<1>6. VersionsAreNumbered'
  BY <1>1 DEF RulesInv, VersionsAreNumbered, Numbers
<1>7. EnabledRuleIsRunnable'
  <2> SUFFICES ASSUME NEW j \in Keys, rules'[j] # None
               PROVE  /\ rules'[j].enabled => rules'[j].active # None
                      /\ rules'[j].active # None =>
                           \E row \in rules'[j].versions :
                               row.version = rules'[j].active /\ row.draft.key = j
    BY DEF EnabledRuleIsRunnable
  <2>1. CASE j = k
    BY <1>1, <2>1 DEF Numbers
  <2>2. CASE j # k
    BY <1>1, <2>2 DEF RulesInv, EnabledRuleIsRunnable
  <2> QED
    BY <2>1, <2>2
<1>8. EnabledRuleHasTargets'
  <2> SUFFICES ASSUME NEW j \in Keys, rules'[j] # None,
                      NEW row \in rules'[j].versions,
                      rules'[j].enabled, row.version = rules'[j].active, drifts' = 0
               PROVE  ReferencesHold(ontology', row.draft) /\ Matched(ontology', row.draft) # {}
    BY DEF EnabledRuleHasTargets
  <2>1. CASE j = k
    BY <1>1, <2>1 DEF HasTargets, Activatable
  <2>2. CASE j # k
    BY <1>1, <2>2 DEF RulesInv, EnabledRuleHasTargets
  <2> QED
    BY <2>1, <2>2
<1> QED
  BY <1>2, <1>3, <1>5, <1>6, <1>7, <1>8 DEF RulesInv

(* The call c at another step.                                             *)
LEMMA CallBefore ==
    ASSUME RulesInv, NEW c \in Callers, NEW step \in Steps
    PROVE  \E call \in CallType :
              /\ call = [calls[c] EXCEPT !.step = step]
              /\ call.step = step
              /\ call.key = calls[c].key
              /\ call.draft = calls[c].draft
              /\ call.version = calls[c].version
<1>1. calls[c] \in CallType
  BY DEF RulesInv, RulesTypeOK
<1> DEFINE call == [calls[c] EXCEPT !.step = step]
<1>2. call \in CallType
  BY <1>1 DEF CallType
<1>3. /\ call.step = step /\ call.key = calls[c].key
      /\ call.draft = calls[c].draft /\ call.version = calls[c].version
  BY <1>1 DEF CallType
<1> QED
  BY <1>2, <1>3

(* A step after which a call relies on no rule.                            *)
LEMMA CallGoesOn ==
    ASSUME RulesInv, NEW c \in Callers, Active(c), calls[c].key \in Keys,
           NEW step \in {"preview", "report", "settle", "returned"}, GoTo(c, step)
    PROVE  \E call \in CallType :
              calls' = [calls EXCEPT ![c] = call] /\ Established(call)'
<1>1. CASE step = "returned"
  <2>1. PICK call \in CallType : call = NoCall /\ call.step = "idle"
    <3>1. NoCall \in CallType
      BY DEF NoCall, Call, CallType, Steps
    <3>2. NoCall.step = "idle"
      BY DEF NoCall, Call
    <3> QED
      BY <3>1, <3>2
  <2>2. Established(call)'
    BY <2>1 DEF Established
  <2>3. calls' = [calls EXCEPT ![c] = call]
    BY <1>1, <2>1 DEF GoTo, After
  <2> QED
    BY <2>2, <2>3
<1>2. CASE step # "returned"
  <2>1. PICK call \in CallType : /\ call = [calls[c] EXCEPT !.step = step]
                                /\ call.key = calls[c].key /\ call.step = step
    BY <1>2, CallBefore DEF Steps
  <2>2. Established(call)'
    BY <1>2, <2>1 DEF Established
  <2>3. calls' = [calls EXCEPT ![c] = call]
    BY <1>2, <2>1 DEF GoTo, After
  <2> QED
    BY <2>2, <2>3
<1> QED
  BY <1>1, <1>2

(* A new rule has no version and is not enabled.                           *)
LEMMA InsertRuleKeeps ==
    ASSUME RulesInv, NEW c \in Callers, InsertRule(c)
    PROVE  RulesInv'
<1>1. /\ calls[c] \in CallType /\ Established(calls[c])
      /\ Active(c) /\ calls[c].draft \in Drafts /\ calls[c].key \in Keys
  BY DEF InsertRule, Active, At, RulesInv, RulesTypeOK, Established
<1>2. CASE RuleOf(c) # None
  BY <1>1, <1>2, Raises DEF InsertRule
<1>3. CASE RuleOf(c) = None
  <2> DEFINE k == calls[c].key
  <2>1. /\ rules[k] = None
        /\ rules' = [rules EXCEPT ![k] = NewRule]
        /\ GoTo(c, "check") /\ UNCHANGED <<ontology, drifts>>
    BY <1>3 DEF InsertRule, RuleOf
  <2>2. PICK call \in CallType : /\ call = [calls[c] EXCEPT !.step = "check"]
                                /\ call.key = k /\ call.step = "check"
                                /\ call.draft = calls[c].draft
    BY CallBefore DEF Steps
  <2>3. calls' = [calls EXCEPT ![c] = call]
    BY <2>1, <2>2 DEF GoTo, After
  <2>4. Established(call)'
    BY <1>1, <2>2 DEF Established
  <2>5. /\ NewRule \in RuleType(Drafts) /\ NewRule.versions = {}
        /\ NewRule.enabled = FALSE /\ NewRule.active = None
    BY DEF NewRule, RuleType
  <2>6. IsFiniteSet({}) /\ 1..Cardinality({}) = {}
    BY FS_EmptySet
  <2>7. Grows
    <3> SUFFICES ASSUME NEW j \in Keys, rules[j] # None
                 PROVE  rules'[j] = rules[j] /\ Cardinality(rules[j].versions) \in Nat
      BY DEF Grows
    <3> QED
      BY <2>1, FS_CardinalityType DEF RulesInv, RulesTypeOK, VersionsAreOwn
  <2> QED
    BY <1>1, <2>1, <2>3, <2>4, <2>5, <2>6, <2>7, RuleStepHolds
<1> QED
  BY <1>2, <1>3

(* A new version gets the next number or the unique index refuses it.      *)
LEMMA InsertVersionKeeps ==
    ASSUME RulesInv, NEW c \in Callers, InsertVersion(c)
    PROVE  RulesInv'
<1>1. /\ calls[c] \in CallType /\ Established(calls[c])
      /\ Active(c) /\ calls[c].draft \in Drafts /\ calls[c].key \in Keys
  BY DEF InsertVersion, Active, At, RulesInv, RulesTypeOK, Established
<1>2. CASE GoTo(c, Raised(c)) /\ UNCHANGED rules
  BY <1>1, <1>2, Raises DEF InsertVersion
<1>3. CASE ~(GoTo(c, Raised(c)) /\ UNCHANGED rules)
  <2>0. PICK k \in Keys, n \in {calls[c].version}, d \in Drafts :
           k = calls[c].key /\ d = calls[c].draft
    BY <1>1
  <2> DEFINE old == rules[k].versions
             new == [rules[k] EXCEPT !.versions = @ \cup {VersionRow(n, d)}]
             m   == Cardinality(old)
  <2>1. /\ rules[k] # None /\ d.key = k /\ n \in 1..(m + 1)
        /\ n \notin Numbers(k)
        /\ rules' = [rules EXCEPT ![k].versions = @ \cup {VersionRow(n, d)}]
        /\ GoTo(c, AfterVersion(c)) /\ UNCHANGED <<ontology, drifts>>
    BY <1>1, <1>3, <2>0 DEF InsertVersion, NumberTaken, DraftOf, At, Established
  <2>2. rules' = [rules EXCEPT ![k] = new]
    BY <2>1
  <2>3. /\ rules[k] \in RuleType(Drafts) /\ Numbers(k) \subseteq Nat
        /\ old \subseteq [draft : Drafts, version : Nat]
        /\ rules[k].active \in Nat \cup {None}
    BY <1>1, <2>1, RuleFields DEF RulesInv
  <2>4. /\ IsFiniteSet(old) /\ m \in Nat
        /\ \A row \in old : row.draft.key = k
    BY <1>1, <2>1, FS_CardinalityType DEF RulesInv, VersionsAreOwn
  <2>5. Numbers(k) = 1..m /\ n = m + 1 /\ n \in Nat
    <3>1. Numbers(k) = 1..m
      BY <1>1, <2>1 DEF RulesInv, VersionsAreNumbered
    <3> HIDE DEF m
    <3> QED
      BY <2>1, <2>4, <3>1
  <2>6. PICK row \in [draft : Drafts, version : Nat] :
           row = VersionRow(n, d) /\ row.version = n /\ row.draft = d
    <3>1. VersionRow(n, d) \in [draft : Drafts, version : Nat]
      BY <2>5 DEF VersionRow
    <3>2. VersionRow(n, d).version = n /\ VersionRow(n, d).draft = d
      BY DEF VersionRow
    <3> QED
      BY <3>1, <3>2
  <2>7. /\ new.versions = old \cup {row}
        /\ new.enabled = rules[k].enabled /\ new.active = rules[k].active
        /\ new \in RuleType(Drafts)
    BY <2>3, <2>6 DEF RuleType
  <2>8. row \notin old
    BY <2>1, <2>6 DEF Numbers
  <2>9. IsFiniteSet(old \cup {row}) /\ Cardinality(old \cup {row}) = m + 1
    BY <2>4, <2>8, FS_AddElement
  <2>10. {r.version : r \in old \cup {row}} = 1..(m + 1)
    <3>1. {r.version : r \in old \cup {row}} = Numbers(k) \cup {n}
      BY <2>6 DEF Numbers
    <3> HIDE DEF m
    <3> QED
      BY <2>4, <2>5, <3>1
  <2>11. Grows
    <3>1. ASSUME NEW j \in Keys, rules[j] # None, j # k
          PROVE  rules'[j] = rules[j] /\ Cardinality(rules[j].versions) \in Nat
      BY <2>2, <3>1, FS_CardinalityType DEF RulesInv, RulesTypeOK, VersionsAreOwn
    <3>2. rules'[k] = new /\ new # None
      BY <2>2, <2>7, RuleIsThere DEF RulesInv, RulesTypeOK
    <3> HIDE DEF new
    <3>3. /\ rules'[k] # None
          /\ Cardinality(rules[k].versions) <= Cardinality(rules'[k].versions)
          /\ rules[k].versions \subseteq rules'[k].versions
      <4>1. rules'[k].versions = old \cup {row}
        BY <2>7, <3>2
      <4>2. Cardinality(rules'[k].versions) = m + 1
        BY <2>9, <4>1
      <4>3. m <= Cardinality(rules'[k].versions)
        BY <2>4, <4>2
      <4> QED
        BY <3>2, <4>1, <4>3
    <3>4. \A r \in rules'[k].versions \ rules[k].versions : r.version \notin Numbers(k)
      BY <2>1, <2>6, <2>7, <3>2
    <3> QED
      BY <3>1, <3>3, <3>4 DEF Grows
  <2>12. Numbers(k)' = Numbers(k) \cup {n}
    <3>1. rules'[k] = new
      BY <2>2 DEF RulesInv, RulesTypeOK
    <3> HIDE DEF new
    <3> QED
      BY <2>6, <2>7, <3>1 DEF Numbers
  <2>13. PICK rule \in RuleType(Drafts) : rule = new
    BY <2>7
  <2>14. rules' = [rules EXCEPT ![k] = rule] /\ rules'[k] = rule
    BY <2>2, <2>13 DEF RulesInv, RulesTypeOK
  <2> HIDE DEF new
  <2>15. /\ rule.enabled => rule.active # None
         /\ rule.active # None => rule.active \in Numbers(k)
    BY <2>1, <2>7, <2>13 DEF RulesInv, EnabledRuleIsRunnable, Numbers
  <2>16. ASSUME rule.enabled, drifts = 0 PROVE HasTargets(k, rule.active)'
    <3> SUFFICES ASSUME NEW r \in rule.versions, r.version = rule.active
                 PROVE  Activatable(ontology', r.draft)
      BY <2>14 DEF HasTargets
    <3>1. r # row
      BY <2>1, <2>6, <2>15, <2>16
    <3> QED
      BY <2>1, <2>7, <2>13, <2>16, <3>1
         DEF RulesInv, EnabledRuleHasTargets, Activatable
  <2>17. PICK call \in CallType :
            calls' = [calls EXCEPT ![c] = call] /\ Established(call)'
    <3>1. AfterVersion(c) \in {"preview", "report", "settle", "returned"}
      BY DEF AfterVersion, Returned
    <3> QED
      BY <1>1, <2>1, <3>1, CallGoesOn
  <2>18. {r.version : r \in rule.versions} = 1..Cardinality(rule.versions)
    BY <2>7, <2>9, <2>10, <2>13
  <2>19. IsFiniteSet(rule.versions) /\ \A r \in rule.versions : r.draft.key = k
    BY <2>1, <2>4, <2>6, <2>7, <2>9, <2>13
  <2>20. rule.active # None => rule.active \in Numbers(k)'
    BY <2>12, <2>15
  <2> QED
    BY <2>1, <2>11, <2>14, <2>15, <2>16, <2>17, <2>18, <2>19, <2>20, RuleStepHolds
<1> QED
  BY <1>2, <1>3

(* Activate and Disable change the flags of a rule, not its versions.      *)
LEMMA FlagKeeps ==
    ASSUME RulesInv, UNCHANGED <<ontology, drifts>>,
           NEW c \in Callers, Active(c), NEW k \in Keys, k = calls[c].key,
           rules[k] # None, GoTo(c, "report"),
           NEW rule \in RuleType(Drafts), rules' = [rules EXCEPT ![k] = rule],
           rule.versions = rules[k].versions,
           rule.enabled => rule.active # None,
           rule.active # None => rule.active \in Numbers(k),
           rule.enabled /\ drifts = 0 => HasTargets(k, rule.active)
    PROVE  RulesInv'
<1>1. rules'[k] = rule /\ \A j \in Keys \ {k} : rules'[j] = rules[j]
  BY DEF RulesInv, RulesTypeOK
<1>2. \A j \in Keys : rules[j] # None => Cardinality(rules[j].versions) \in Nat
  BY FS_CardinalityType DEF RulesInv, VersionsAreOwn
<1>3. Grows
  <2> SUFFICES ASSUME NEW j \in Keys, rules[j] # None
               PROVE  /\ rules'[j] # None
                      /\ rules'[j].versions = rules[j].versions
                      /\ Cardinality(rules[j].versions) \in Nat
    BY DEF Grows
  <2> QED
    BY <1>1, <1>2, RuleIsThere
<1>4. /\ rule.active # None => rule.active \in Numbers(k)'
      /\ rule.enabled /\ drifts = 0 => HasTargets(k, rule.active)'
  BY <1>1 DEF Numbers, HasTargets
<1>5. PICK call \in CallType :
         calls' = [calls EXCEPT ![c] = call] /\ Established(call)'
  BY CallGoesOn
<1>6. {r.version : r \in rule.versions} = 1..Cardinality(rule.versions)
  BY DEF RulesInv, VersionsAreNumbered, Numbers
<1>7. IsFiniteSet(rule.versions) /\ \A r \in rule.versions : r.draft.key = k
  BY DEF RulesInv, VersionsAreOwn
<1> QED
  BY <1>3, <1>4, <1>5, <1>6, <1>7, RuleStepHolds

(* Activation enables the version that was previewed.                      *)
LEMMA ActivateKeeps ==
    ASSUME RulesInv, NEW c \in Callers, Activate(c)
    PROVE  RulesInv'
<1>1. PICK k \in Keys, n \in {calls[c].version} :
         /\ k = calls[c].key /\ Active(c)
         /\ rules[k] # None /\ n \in Numbers(k)
         /\ drifts = 0 => HasTargets(k, n)
  BY DEF Activate, Active, At, RulesInv, Established
<1>2. rules[k] \in RuleType(Drafts) /\ n \in Nat
  BY <1>1, RuleFields DEF RulesInv
<1> DEFINE new == [rules[k] EXCEPT !.active = n, !.enabled = TRUE]
<1>3. PICK rule \in RuleType(Drafts) :
         /\ rule = new /\ rule.versions = rules[k].versions
         /\ rule.enabled = TRUE /\ rule.active = n
  <2>1. /\ new \in RuleType(Drafts) /\ new.versions = rules[k].versions
        /\ new.enabled = TRUE /\ new.active = n
    BY <1>2 DEF RuleType
  <2> QED
    BY <2>1
<1>4. rules' = [rules EXCEPT ![k] = rule] /\ GoTo(c, "report")
  BY <1>1, <1>3 DEF Activate, RulesInv, RulesTypeOK
<1>5. n # None
  BY <1>2, RulesNone
<1> QED
  BY <1>1, <1>3, <1>4, <1>5, FlagKeeps DEF Activate

(* Disabling only lowers the flag.                                         *)
LEMMA DisableKeeps ==
    ASSUME RulesInv, NEW c \in Callers, Disable(c)
    PROVE  RulesInv'
<1>1. PICK k \in Keys : k = calls[c].key /\ Active(c)
  BY DEF Disable, Active, At, RulesInv, Established
<1>2. CASE RuleOf(c) = None
  BY <1>1, <1>2, Raises DEF Disable
<1>3. CASE RuleOf(c) # None
  <2> DEFINE new == [rules[k] EXCEPT !.enabled = FALSE]
  <2>1. rules[k] # None /\ rules[k] \in RuleType(Drafts)
    BY <1>1, <1>3, RuleFields DEF RuleOf, RulesInv
  <2>2. PICK rule \in RuleType(Drafts) :
           /\ rule = new /\ rule.versions = rules[k].versions
           /\ rule.enabled = FALSE /\ rule.active = rules[k].active
    <3>1. /\ new \in RuleType(Drafts) /\ new.versions = rules[k].versions
          /\ new.enabled = FALSE /\ new.active = rules[k].active
      BY <2>1 DEF RuleType
    <3> QED
      BY <3>1
  <2>3. rules' = [rules EXCEPT ![k] = rule] /\ GoTo(c, "report")
    BY <1>1, <1>3, <2>2 DEF Disable
  <2>4. rule.active # None => rule.active \in Numbers(k)
    BY <2>1, <2>2 DEF RulesInv, EnabledRuleIsRunnable, Numbers
  <2> QED
    BY <1>1, <2>1, <2>2, <2>3, <2>4, FlagKeeps DEF Disable
<1> QED
  BY <1>2, <1>3

-----------------------------------------------------------------------------
(* The beginning and the end of calls.                                     *)

(* A call that begins knows nothing yet.                                   *)
LEMMA BeginKeeps ==
    ASSUME RulesInv, NEW c \in Callers, BeginCall(c)
    PROVE  RulesInv'
<1>1. ASSUME NEW call \in CallType, ~Active(c),
             calls' = [calls EXCEPT ![c] = call],
             UNCHANGED <<ontology, rules, faults, drifts>>,
             call.key \in Keys,
             call.step \in {"validate", "check", "lookup"} => call.draft \in Drafts,
             call.step \in {"validate", "check", "lookup", "preview", "disable"}
      PROVE  RulesInv'
  <2>1. Established(call)
    BY <1>1 DEF Established
  <2> QED
    BY <1>1, <2>1, CallKeeps
<1>2. ASSUME NEW d \in Drafts, BeginCreate(c, d)
      PROVE  RulesInv'
  <2>1. d.key \in Keys
    BY RulesAssumption DEF DraftType
  <2>2. Call(d.key, None, "validate", d, None, "create") \in CallType
    BY <2>1 DEF Call, CallType, Steps
  <2> QED
    BY <1>1, <1>2, <2>1, <2>2 DEF BeginCreate, Begin, Call
<1>3. ASSUME NEW k \in Keys, NEW d \in Drafts, BeginVersion(c, k, d)
      PROVE  RulesInv'
  <2>1. Call(k, None, "check", d, None, "version") \in CallType
    BY DEF Call, CallType, Steps
  <2> QED
    BY <1>1, <1>3, <2>1 DEF BeginVersion, Begin, Call
<1>4. ASSUME NEW k \in Keys, NEW n \in 1..MaxVersions, BeginActivate(c, k, n)
      PROVE  RulesInv'
  <2>1. Call(k, None, "preview", None, n, "activate") \in CallType
    BY RulesAssumption DEF Call, CallType, Steps
  <2> QED
    BY <1>1, <1>4, <2>1 DEF BeginActivate, Begin, Call
<1>5. ASSUME NEW k \in Keys, BeginDisable(c, k)
      PROVE  RulesInv'
  <2>1. Call(k, None, "disable", None, None, "disable") \in CallType
    BY DEF Call, CallType, Steps
  <2> QED
    BY <1>1, <1>5, <2>1 DEF BeginDisable, Begin, Call
<1>6. ASSUME BeginEnsure(c)
      PROVE  RulesInv'
  <2>1. DefaultDraft \in Drafts /\ DefaultDraft.key \in Keys
    BY RulesAssumption DEF DraftType
  <2>2. Call(DefaultDraft.key, None, "lookup", DefaultDraft, None, "ensure") \in CallType
    BY <2>1 DEF Call, CallType, Steps
  <2> QED
    BY <1>1, <1>6, <2>1, <2>2 DEF BeginEnsure, Begin, Call
<1> QED
  BY <1>2, <1>3, <1>4, <1>5, <1>6 DEF BeginCall

(* Looking for the default rule changes no table.                          *)
LEMMA LookUpKeeps ==
    ASSUME RulesInv, NEW c \in Callers, LookUpDefault(c)
    PROVE  RulesInv'
<1>1. Active(c) /\ calls[c].draft \in Drafts
  BY DEF LookUpDefault, Active, At, RulesInv, Established
<1> QED
  BY <1>1, Returns, Proceeds DEF LookUpDefault

(* Neither does reading the rule back after activation.                    *)
LEMMA ReportKeeps ==
    ASSUME RulesInv, NEW c \in Callers, Report(c)
    PROVE  RulesInv'
<1>1. Active(c)
  BY DEF Report, Active, At
<1> QED
  BY <1>1, Returns DEF Report

(* An exception, a dead process, or an id that is no more.                 *)
LEMMA EndKeeps ==
    ASSUME RulesInv, NEW c \in Callers, Fault(c) \/ Orphaned(c)
    PROVE  RulesInv'
<1>1. Active(c)
  BY DEF Fault, Orphaned, Active, At
<1>2. PICK step \in {"failed", "raised", "died"} :
         GoTo(c, step) /\ UNCHANGED <<ontology, rules, drifts>>
  BY DEF Fault, Orphaned, Raised
<1> QED
  BY <1>1, <1>2, After_Ends, CallKeeps DEF GoTo

-----------------------------------------------------------------------------
(* The inventory changes under the rules.                                  *)

(* No draft can be activated in an empty ontology.                         *)
LEMMA NothingInEmpty ==
    ASSUME NEW d
    PROVE  ~Activatable(EmptyOntology, d)
BY DEF Activatable, Matched, EmptyOntology

(* A changed ontology leaves the rules alone.                              *)
LEMMA ReseedKeeps ==
    ASSUME RulesInv, NEW o, Reseed(o)
    PROVE  RulesInv'
<1>1. UNCHANGED <<rules, calls>> /\ drifts' \in Nat
  BY DEF Reseed, RulesInv, RulesTypeOK
<1>2. RulesTypeOK'
  BY <1>1 DEF RulesInv, RulesTypeOK
<1>3. VersionsAreOwn' /\ VersionsAreNumbered' /\ EnabledRuleIsRunnable'
  BY <1>1 DEF RulesInv, VersionsAreOwn, VersionsAreNumbered, Numbers,
              EnabledRuleIsRunnable
<1>4. ASSUME drifts' = 0
      PROVE  ontology = EmptyOntology /\ drifts = 0
  BY <1>4 DEF Reseed, RulesInv, RulesTypeOK
<1>5. ASSUME NEW k \in Keys, rules[k] # None, NEW n \in Numbers(k), drifts' = 0
      PROVE  ~HasTargets(k, n)
  BY <1>4, <1>5, NothingInEmpty DEF HasTargets, Numbers
<1>6. ASSUME NEW c \in Callers PROVE Established(calls[c])'
  <2>1. PICK call \in CallType : call = calls[c] /\ Established(call)
    BY DEF RulesInv, RulesTypeOK
  <2>2. call.step = "activate" => drifts' # 0
    BY <1>4, <1>5, <2>1 DEF Established
  <2>3. Established(call)'
    BY <1>1, <2>1, <2>2 DEF Established, Numbers
  <2> QED
    BY <1>1, <2>1, <2>3 DEF Established, Numbers, HasTargets
<1>7. EnabledRuleHasTargets'
  <2> SUFFICES ASSUME NEW k \in Keys, rules[k] # None, NEW row \in rules[k].versions,
                      rules[k].enabled, row.version = rules[k].active, drifts' = 0
               PROVE  FALSE
    BY <1>1 DEF EnabledRuleHasTargets
  <2>1. row.version \in Numbers(k) /\ HasTargets(k, row.version)
    BY <1>4 DEF Numbers, HasTargets, Activatable, RulesInv, EnabledRuleHasTargets
  <2> QED
    BY <1>5, <2>1
<1> QED
  BY <1>2, <1>3, <1>6, <1>7 DEF RulesInv

(* A reset empties the rules, and no call still under way can lean on      *)
(* them.                                                                   *)
LEMMA ResetKeeps ==
    ASSUME RulesInv, ResetInventory
    PROVE  RulesInv'
<1>1. \A k \in Keys : rules'[k] = None
  BY DEF ResetInventory
<1>2. ASSUME NEW c \in Callers
      PROVE  calls'[c] \in CallType /\ Established(calls[c])'
  <2>1. PICK old \in CallType : old = calls[c] /\ Established(old)
    BY DEF RulesInv, RulesTypeOK
  <2>2. CASE old.step \in {"idle", "lookup", "validate", "insert_rule"}
    <3>1. calls'[c] = old
      BY <2>1, <2>2 DEF ResetInventory
    <3>2. Established(old)'
      BY <2>1, <2>2 DEF Established
    <3> QED
      BY <3>1, <3>2 DEF Established, Numbers, HasTargets
  <2>3. CASE old.step \notin {"idle", "lookup", "validate", "insert_rule"}
    <3>1. PICK call \in CallType : /\ call = [calls[c] EXCEPT !.step = "orphaned"]
                                  /\ call.key = old.key /\ call.step = "orphaned"
      BY <2>1, CallBefore DEF Steps
    <3>2. calls'[c] = call
      BY <2>1, <2>3, <3>1 DEF ResetInventory
    <3>3. Established(call)'
      BY <2>1, <2>3, <3>1 DEF Established
    <3> QED
      BY <3>2, <3>3 DEF Established, Numbers, HasTargets
  <2> QED
    BY <2>2, <2>3
<1>3. RulesTypeOK'
  <2>1. calls' \in [Callers -> CallType]
    BY <1>2 DEF ResetInventory
  <2> QED
    BY <2>1 DEF ResetInventory, RulesInv, RulesTypeOK
<1>4. VersionsAreOwn' /\ VersionsAreNumbered' /\ EnabledRuleIsRunnable' /\ EnabledRuleHasTargets'
  BY <1>1 DEF VersionsAreOwn, VersionsAreNumbered, EnabledRuleIsRunnable, EnabledRuleHasTargets
<1> QED
  BY <1>2, <1>3, <1>4 DEF RulesInv

-----------------------------------------------------------------------------
(* The theorems.                                                           *)

(* No rules, no calls: the invariant holds at the start.                   *)
LEMMA InitRules == RulesInit => RulesInv
<1> SUFFICES ASSUME RulesInit PROVE RulesInv
  OBVIOUS
<1>1. NoCall \in CallType
  BY DEF NoCall, Call, CallType, Steps
<1>2. NoCall.step = "idle"
  BY DEF NoCall, Call
<1>3. RulesTypeOK
  BY <1>1 DEF RulesInit, RulesTypeOK
<1>4. \A c \in Callers : Established(calls[c])
  BY <1>2 DEF RulesInit, Established
<1>5. \A k \in Keys : rules[k] = None
  BY DEF RulesInit
<1> QED
  BY <1>3, <1>4, <1>5
     DEF RulesInv, VersionsAreOwn, VersionsAreNumbered, EnabledRuleIsRunnable,
         EnabledRuleHasTargets

(* Every step keeps the invariant.                                         *)
LEMMA NextRules == RulesInv /\ [RulesNext]_ruleVars => RulesInv'
<1> SUFFICES ASSUME RulesInv, [RulesNext]_ruleVars PROVE RulesInv'
  OBVIOUS
<1>1. ASSUME NEW c \in Callers, RuleStep(c) PROVE RulesInv'
  <2>1. CASE Validate(c, "validate", "insert_rule") \/ Validate(c, "check", "number")
    BY <2>1, ValidateKeeps
  <2>2. CASE InsertRule(c) \/ NextNumber(c) \/ InsertVersion(c)
    BY <2>2, InsertRuleKeeps, NumberKeeps, InsertVersionKeeps
  <2>3. CASE Preview(c) \/ Activate(c) \/ Disable(c)
    BY <2>3, PreviewKeeps, ActivateKeeps, DisableKeeps
  <2>4. CASE Report(c) \/ LookUpDefault(c)
    BY <2>4, ReportKeeps, LookUpKeeps
  <2> QED
    BY <1>1, <2>1, <2>2, <2>3, <2>4 DEF RuleStep
<1>2. CASE UNCHANGED ruleVars
  BY <1>2 DEF ruleVars, RulesInv, RulesTypeOK, VersionsAreOwn, Established,
              HasTargets, Numbers, VersionsAreNumbered, EnabledRuleIsRunnable,
              EnabledRuleHasTargets
<1> QED
  BY <1>1, <1>2, BeginKeeps, EndKeeps, ReseedKeeps, ResetKeeps DEF RulesNext

(* The rows, the calls and what the calls rely on stay consistent, however *)
(* many calls, failures and resets there are.                              *)
THEOREM RulesInvariant == RulesSpec => []RulesInv
BY InitRules, NextRules, PTL DEF RulesSpec

(* Concurrent calls of create_rule_version number the versions of a rule   *)
(* 1, 2, 3 without a gap and never twice.                                  *)
THEOREM NumberedVersions == RulesSpec => []VersionsAreNumbered
<1>1. RulesInv => VersionsAreNumbered
  BY DEF RulesInv
<1> QED
  BY <1>1, RulesInvariant, PTL

(* An enabled rule has an active version, and the active version is one of *)
(* the rule's own.                                                         *)
THEOREM RunnableRules == RulesSpec => []EnabledRuleIsRunnable
<1>1. RulesInv => EnabledRuleIsRunnable
  BY DEF RulesInv
<1> QED
  BY <1>1, RulesInvariant, PTL

(* While the ontology stays, an enabled rule has a target, although the    *)
(* preview and the activation are separate transactions.                   *)
THEOREM TargetedRules == RulesSpec => []EnabledRuleHasTargets
<1>1. RulesInv => EnabledRuleHasTargets
  BY DEF RulesInv
<1> QED
  BY <1>1, RulesInvariant, PTL
-----------------------------------------------------------------------------
(* Lemmas about requests and states.                                       *)

(* The state in which a request is at each step of _process.               *)
LEMMA StateAtStep ==
    /\ DOMAIN StateAt = {"start", "interpret", "resolve", "check_draft", "preview_draft"}
    /\ StateAt["start"] = "RECEIVED"
    /\ StateAt["interpret"] = "INTERPRETING"
    /\ StateAt["resolve"] = "DISCOVERING"
    /\ StateAt["check_draft"] = "VALIDATING"
    /\ StateAt["preview_draft"] = "PREVIEWING"
BY DEF StateAt

(* Steps of a process, of a confirmation and of an answer are different.   *)
LEMMA StepKinds ==
    ASSUME NEW step
    PROVE  /\ step \in DOMAIN StateAt =>
                /\ step \notin ConfirmSteps /\ step \notin {"idle", "answer"}
                /\ StateAt[step] \in {"RECEIVED", "INTERPRETING", "DISCOVERING",
                                      "VALIDATING", "PREVIEWING"}
           /\ step \in ConfirmSteps => step \notin {"idle", "answer"}
BY StateAtStep DEF ConfirmSteps

(* The columns of a request that is there.                                 *)
LEMMA RequestFields ==
    ASSUME AuthoringTypes, NEW r \in Requests, requests[r] # None
    PROVE  /\ requests[r] \in RequestType
           /\ requests[r].state \in States
           /\ requests[r].reviewed \in Proposals \cup {None}
           /\ requests[r].history \in Seq(Callers)
           /\ requests[r].confirmed \in BOOLEAN
           /\ State(r) = requests[r].state
           /\ State(r) # None
<1>1. requests[r] \in RequestType
  BY DEF AuthoringTypes
<1>2. requests[r].state \in States
  BY <1>1 DEF RequestType
<1>3. State(r) = requests[r].state
  BY DEF State
<1> QED
  BY <1>1, <1>2, <1>3, AuthoringNone DEF RequestType

(* A stopped request goes nowhere.                                         *)
LEMMA StopIsFinal ==
    ASSUME NEW t
    PROVE  ~MayBecome("STOPPED", t)
BY DEF MayBecome, AllowedTransitions, States

(* Only a clarification leads back to RECEIVED.                            *)
LEMMA AnswerableOnly ==
    ASSUME NEW s \in States, MayBecome(s, "RECEIVED")
    PROVE  s = "NEEDS_CLARIFICATION"
BY DEF MayBecome, AllowedTransitions, States

(* What is confirmed, activated or failed cannot be cancelled.             *)
LEMMA NotStoppable ==
    /\ ~MayBecome("CONFIRMED", "STOPPED")
    /\ ~MayBecome("ACTIVATED", "STOPPED")
    /\ ~MayBecome("FAILED", "STOPPED")
BY DEF MayBecome, AllowedTransitions, States

(* A set with one possible member has at most one.                         *)
LEMMA AtMostOne ==
    ASSUME NEW x, NEW S \in SUBSET {x}
    PROVE  Cardinality(S) <= 1
<1>1. IsFiniteSet({x}) /\ Cardinality({x}) = 1
  BY FS_Singleton
<1> QED
  BY <1>1, FS_Subset

-----------------------------------------------------------------------------
(* Steps are local.                                                        *)

(* A driver of a request that is not stopped is alone.                     *)
LEMMA SoleDriver ==
    ASSUME AuthoringInv, NEW r \in Requests, State(r) # "STOPPED",
           NEW c \in Drivers(r)
    PROVE  \A d \in Callers \ {c} : d \notin Drivers(r)
BY DEF AuthoringInv

(* A request in none of the states of a step has no driver.                *)
LEMMA NoDriver ==
    ASSUME AuthoringInv, NEW r \in Requests,
           requests[r] = None
           \/ State(r) \in {"NEEDS_CLARIFICATION", "READY_FOR_REVIEW"},
           NEW d \in Callers
    PROVE  d \notin Drivers(r)
<1> SUFFICES ASSUME d \in Drivers(r) PROVE FALSE
  OBVIOUS
<1>1. CallIsSound(d) /\ calls[d] \in AuthoringCallType
  BY DEF AuthoringInv, AuthoringTypes
<1>2. calls[d].request = r /\ calls[d].step \notin {"idle", "answer"}
  BY DEF Drivers, Active, At
<1>3. calls[d].step \in DOMAIN StateAt \cup ConfirmSteps
  BY <1>1, <1>2 DEF AuthoringCallType, ProcessSteps
<1>4. requests[r] # None
  BY <1>1, <1>2 DEF CallIsSound
<1>5. State(r) = "STOPPED" \/ State(r) = "CONFIRMED"
      \/ State(r) \in {"RECEIVED", "INTERPRETING", "DISCOVERING",
                       "VALIDATING", "PREVIEWING"}
  BY <1>1, <1>2, <1>3, StepKinds DEF CallIsSound
<1> QED
  BY <1>4, <1>5

(* c changes itself and a request that nobody else drives.                 *)
LEMMA OwnStep ==
    ASSUME AuthoringInv, AuthoringTypes',
           NEW c \in Callers, NEW r \in Requests,
           \A d \in Callers \ {c} : /\ d \notin Drivers(r)
                                    /\ calls'[d] = calls[d] /\ read'[d] = read[d],
           \A s \in Requests \ {r} : requests'[s] = requests[s] /\ rules'[s] = rules[s],
           calls'[c].step = "idle" \/ calls'[c].request = r,
           requests'[r] # None,
           CallIsSound(c)', RequestIsSound(r)'
    PROVE  AuthoringInv'
<1>1. ASSUME NEW d \in Callers PROVE CallIsSound(d)'
  <2>1. CASE d = c
    BY <2>1
  <2>2. CASE d # c
    <3>1. CallIsSound(d) /\ calls'[d] = calls[d] /\ read'[d] = read[d]
      BY <2>2 DEF AuthoringInv
    <3>2. CASE calls[d].step = "idle"
      BY <3>1, <3>2 DEF CallIsSound
    <3>3. CASE calls[d].step # "idle" /\ calls[d].request # r
      <4>1. PICK s \in Requests \ {r} : s = calls[d].request
        BY <3>1, <3>3 DEF CallIsSound
      <4>2. requests'[s] = requests[s] /\ rules'[s] = rules[s]
        BY <4>1
      <4> QED
        BY <3>1, <4>1, <4>2 DEF CallIsSound, State, Confirming
    <3>4. CASE calls[d].step # "idle" /\ calls[d].request = r
      <4>1. calls[d].step = "answer"
        BY <2>2, <3>4 DEF Drivers, Active, At
      <4>2. /\ calls[d].key = r /\ Len(read[d]) < MaxAnswers
            /\ calls[d].op = "process"
        BY <3>1, <3>4, <4>1 DEF CallIsSound, ConfirmSteps
      <4> QED
        BY <3>1, <3>4, <4>1, <4>2, StateAtStep DEF CallIsSound, ConfirmSteps
    <3> QED
      BY <3>2, <3>3, <3>4
  <2> QED
    BY <2>1, <2>2
<1>2. ASSUME NEW s \in Requests PROVE RequestIsSound(s)'
  BY DEF AuthoringInv, RequestIsSound, State
<1>3. ASSUME NEW s \in Requests, State(s)' # "STOPPED",
             NEW d \in Drivers(s)', NEW e \in Drivers(s)'
      PROVE  d = e
  <2>1. CASE s = r
    <3>1. ASSUME NEW x \in Drivers(r)' PROVE x = c
      BY <3>1 DEF Drivers, Active, At
    <3> QED
      BY <1>3, <2>1, <3>1
  <2>2. CASE s # r
    <3>1. State(s) # "STOPPED"
      BY <1>3, <2>2 DEF State
    <3>2. ASSUME NEW x \in Drivers(s)' PROVE x \in Drivers(s)
      BY <2>2, <3>2 DEF Drivers, Active, At
    <3> QED
      BY <1>3, <3>1, <3>2 DEF AuthoringInv
  <2> QED
    BY <2>1, <2>2
<1> QED
  BY <1>1, <1>2, <1>3 DEF AuthoringInv

(* c changes only itself, and takes nothing over.                          *)
LEMMA CallOnly ==
    ASSUME AuthoringInv, AuthoringTypes', UNCHANGED <<rules, requests>>,
           NEW c \in Callers,
           \A d \in Callers \ {c} : calls'[d] = calls[d] /\ read'[d] = read[d],
           \/ calls'[c].step \in {"idle", "answer"}
           \/ /\ calls'[c].request = calls[c].request
              /\ calls[c].step \notin {"idle", "answer"},
           CallIsSound(c)'
    PROVE  AuthoringInv'
<1>1. ASSUME NEW d \in Callers PROVE CallIsSound(d)'
  <2>1. CASE d = c
    BY <2>1
  <2>2. CASE d # c
    <3>1. CallIsSound(d) /\ calls'[d] = calls[d] /\ read'[d] = read[d]
      BY <2>2 DEF AuthoringInv
    <3> QED
      BY <3>1 DEF CallIsSound, State, Confirming
  <2> QED
    BY <2>1, <2>2
<1>2. \A s \in Requests : RequestIsSound(s)'
  BY DEF AuthoringInv, RequestIsSound, State
<1>3. ASSUME NEW s \in Requests, State(s)' # "STOPPED",
             NEW d \in Drivers(s)', NEW e \in Drivers(s)'
      PROVE  d = e
  <2>1. State(s) # "STOPPED"
    BY <1>3 DEF State
  <2>2. ASSUME NEW x \in Drivers(s)' PROVE x \in Drivers(s)
    BY <2>2 DEF Drivers, Active, At
  <2> QED
    BY <1>3, <2>1, <2>2 DEF AuthoringInv
<1> QED
  BY <1>1, <1>2, <1>3 DEF AuthoringInv

-----------------------------------------------------------------------------
(* Calls as records.                                                       *)

(* What the invariant says of a call under way.                            *)
LEMMA CallFields ==
    ASSUME AuthoringInv, NEW c \in Callers, Active(c)
    PROVE  /\ calls[c] \in AuthoringCallType
           /\ calls[c].request \in Requests /\ calls[c].key = calls[c].request
           /\ requests[calls[c].request] # None
           /\ calls[c].op = IF calls[c].step \in ConfirmSteps THEN "confirm" ELSE "process"
BY DEF AuthoringInv, AuthoringTypes, CallIsSound, Active, At

(* A call at another step.                                                 *)
LEMMA CallAt ==
    ASSUME AuthoringInv, NEW c \in Callers,
           NEW step \in {"idle"} \cup ProcessSteps \cup ConfirmSteps
    PROVE  \E call \in AuthoringCallType :
              /\ call = [calls[c] EXCEPT !.step = step]
              /\ call.step = step
              /\ call.key = calls[c].key /\ call.request = calls[c].request
              /\ call.op = calls[c].op
              /\ call.draft = calls[c].draft /\ call.version = calls[c].version
<1>1. calls[c] \in AuthoringCallType
  BY DEF AuthoringInv, AuthoringTypes
<1> DEFINE call == [calls[c] EXCEPT !.step = step]
<1>2. call \in AuthoringCallType
  BY <1>1 DEF AuthoringCallType
<1>3. /\ call.step = step /\ call.op = calls[c].op
      /\ call.key = calls[c].key /\ call.request = calls[c].request
      /\ call.draft = calls[c].draft /\ call.version = calls[c].version
  BY <1>1 DEF AuthoringCallType
<1> QED
  BY <1>2, <1>3

(* The place of no call is idle.                                           *)
LEMMA NoCallIsIdle == NoCall \in AuthoringCallType /\ NoCall.step = "idle"
<1>1. NoCall \in AuthoringCallType
  BY DEF NoCall, Call, AuthoringCallType
<1>2. NoCall.step = "idle"
  BY DEF NoCall, Call
<1> QED
  BY <1>1, <1>2

(* A call ends: with an exception, a dead process or its last return.      *)
LEMMA CallEnds ==
    ASSUME AuthoringInv, NEW c \in Callers, calls' = [calls EXCEPT ![c] = NoCall],
           UNCHANGED <<rules, requests, read>>
    PROVE  AuthoringInv'
<1>1. AuthoringTypes'
  BY NoCallIsIdle DEF AuthoringInv, AuthoringTypes
<1>2. calls'[c].step = "idle" /\ \A d \in Callers \ {c} : calls'[d] = calls[d]
  BY NoCallIsIdle DEF AuthoringInv, AuthoringTypes
<1>3. CallIsSound(c)'
  BY <1>2 DEF CallIsSound
<1> QED
  BY <1>1, <1>2, <1>3, CallOnly

(* A call that raises or dies takes nothing with it but itself.            *)
LEMMA CallFails ==
    ASSUME AuthoringInv, NEW c \in Callers, Active(c),
           GoTo(c, Raised(c)) \/ GoTo(c, "died"),
           UNCHANGED <<rules, requests, read>>
    PROVE  AuthoringInv'
<1>1. CASE GoTo(c, "raised") \/ GoTo(c, "died")
  BY <1>1, CallEnds DEF GoTo, After
<1>2. CASE GoTo(c, "failed") /\ calls[c].op = "confirm"
  <2>1. CallIsSound(c) /\ calls[c].step \in ConfirmSteps
    BY <1>2, CallFields DEF AuthoringInv
  <2>2. PICK call \in AuthoringCallType :
           /\ call = [calls[c] EXCEPT !.step = "failed"]
           /\ call.step = "failed" /\ call.op = "confirm"
           /\ call.key = calls[c].key /\ call.request = calls[c].request
           /\ call.draft = calls[c].draft
    <3>1. "failed" \in {"idle"} \cup ProcessSteps \cup ConfirmSteps
      BY DEF ConfirmSteps
    <3> QED
      BY <1>2, <3>1, CallAt
  <2>3. calls' = [calls EXCEPT ![c] = call]
    BY <1>2, <2>2 DEF GoTo, After
  <2>4. calls'[c] = call /\ \A d \in Callers \ {c} : calls'[d] = calls[d]
    BY <2>3 DEF AuthoringInv, AuthoringTypes
  <2>5. AuthoringTypes'
    BY <2>3 DEF AuthoringInv, AuthoringTypes
  <2>6. /\ calls[c].request \in Requests /\ calls[c].key = calls[c].request
        /\ requests[calls[c].request] # None
        /\ State(calls[c].request) = "CONFIRMED"
        /\ calls[c].draft = requests[calls[c].request].reviewed
        /\ calls[c].step \notin {"idle", "answer"}
    BY <2>1, StepKinds DEF CallIsSound
  <2>7. Confirming(call)'
    BY <2>2 DEF Confirming
  <2>8. CallIsSound(c)'
    BY <2>2, <2>4, <2>6, <2>7, StateAtStep DEF CallIsSound, State, ConfirmSteps, Confirming
  <2> QED
    BY <2>2, <2>4, <2>5, <2>6, <2>8, CallOnly
<1> QED
  BY <1>1, <1>2 DEF Raised

-----------------------------------------------------------------------------
(* The steps of _process.                                                  *)

(* The row of a request after a transition.                                *)
LEMMA Written ==
    ASSUME AuthoringInv, NEW r \in Requests, NEW request \in RequestType,
           requests' = [requests EXCEPT ![r] = request]
    PROVE  /\ requests'[r] = request /\ request # None
           /\ State(r)' = request.state
           /\ requests' \in [Requests -> RequestType \cup {None}]
           /\ \A s \in Requests \ {r} : requests'[s] = requests[s]
<1>1. request # None
  BY AuthoringNone
<1>2. requests'[r] = request
  BY DEF AuthoringInv, AuthoringTypes
<1> QED
  BY <1>1, <1>2 DEF AuthoringInv, AuthoringTypes, State

(* A driver takes its request to a state in which there is no rule to      *)
(* speak of yet, and goes on or ends.                                      *)
LEMMA ProcessStep ==
    ASSUME AuthoringInv, NEW c \in Callers, NEW r \in Requests, r = calls[c].request,
           calls[c].step \in DOMAIN StateAt,
           NEW request \in RequestType, NEW call \in AuthoringCallType,
           Transition(c, request, call),
           request.state \notin {"CONFIRMED", "ACTIVATED"},
           request.state = "READY_FOR_REVIEW" => request.reviewed # None,
           request.reviewed # None => request.reviewed.key = r /\ WellFormed(request.reviewed),
           request.history = requests[r].history,
           \/ call.step = "idle"
           \/ /\ call.step \in DOMAIN StateAt /\ StateAt[call.step] = request.state
              /\ call.request = r /\ call.key = r /\ call.op = "process"
              /\ call.step \in {"check_draft", "preview_draft"} =>
                    /\ call.draft \in Proposals /\ call.draft.key = r
                    /\ WellFormed(call.draft)
    PROVE  AuthoringInv'
<1>1. Active(c) /\ c \in Drivers(r) /\ CallIsSound(c)
  BY StepKinds DEF Active, At, Drivers, AuthoringInv
<1>2. UNCHANGED <<rules, read>>
  BY DEF Transition, rest
<1>3. CASE ~MayBecome(State(r), request.state)
  BY <1>1, <1>2, <1>3, CallFails DEF Transition
<1>4. CASE MayBecome(State(r), request.state)
  <2>1. /\ requests' = [requests EXCEPT ![r] = request]
        /\ calls' = [calls EXCEPT ![c] = call]
    BY <1>4 DEF Transition
  <2>2. requests[r] # None /\ State(r) \in {StateAt[calls[c].step], "STOPPED"}
    BY <1>1, StepKinds DEF CallIsSound
  <2>3. State(r) = StateAt[calls[c].step] /\ State(r) # "STOPPED"
    BY <1>4, <2>2, StopIsFinal, StepKinds
  <2>4. \A d \in Callers \ {c} : d \notin Drivers(r)
    BY <1>1, <2>3, SoleDriver
  <2>5. /\ requests'[r] = request /\ request # None /\ State(r)' = request.state
        /\ requests' \in [Requests -> RequestType \cup {None}]
        /\ \A s \in Requests \ {r} : requests'[s] = requests[s]
    BY <2>1, Written
  <2>6. calls'[c] = call /\ \A d \in Callers \ {c} : calls'[d] = calls[d]
    BY <2>1 DEF AuthoringInv, AuthoringTypes
  <2>7. AuthoringTypes'
    BY <1>2, <2>1, <2>5 DEF AuthoringInv, AuthoringTypes
  <2>8. rules[r] = None /\ Len(request.history) <= MaxAnswers
    <3>1. State(r) \notin {"CONFIRMED", "ACTIVATED", "FAILED"}
      BY <2>3, StepKinds
    <3> QED
      BY <2>2, <3>1 DEF AuthoringInv, RequestIsSound
  <2>9. RequestIsSound(r)'
    BY <1>2, <2>5, <2>8 DEF RequestIsSound
  <2>10. CallIsSound(c)'
    <3>1. CASE call.step = "idle"
      BY <2>6, <3>1 DEF CallIsSound
    <3>2. CASE call.step # "idle"
      <4>1. /\ call.step \in DOMAIN StateAt /\ StateAt[call.step] = request.state
            /\ call.request = r /\ call.key = r /\ call.op = "process"
        BY <3>2
      <4>2. call.step \notin ConfirmSteps /\ call.step # "answer"
        BY <4>1, StepKinds
      <4> QED
        BY <2>5, <2>6, <4>1, <4>2 DEF CallIsSound
    <3> QED
      BY <3>1, <3>2
  <2>11. calls'[c].step = "idle" \/ calls'[c].request = r
    BY <2>6
  <2> QED
    BY <1>2, <2>4, <2>5, <2>6, <2>7, <2>9, <2>10, <2>11, OwnStep
<1> QED
  BY <1>3, <1>4

(* The row of the call's request in another state.                         *)
LEMMA Becomes ==
    ASSUME AuthoringInv, NEW c \in Callers, Active(c), NEW state \in States
    PROVE  /\ Become(c, state) \in RequestType
           /\ Become(c, state).state = state
           /\ Become(c, state).reviewed = requests[calls[c].request].reviewed
           /\ Become(c, state).history = requests[calls[c].request].history
           /\ Become(c, state).confirmed = requests[calls[c].request].confirmed
<1>1. requests[calls[c].request] \in RequestType
  BY CallFields, RequestFields DEF AuthoringInv
<1> QED
  BY <1>1 DEF Become, RequestType

(* _process goes on, or comes to an end of its own.                        *)
LEMMA GoesOn ==
    ASSUME AuthoringInv, NEW c \in Callers, calls[c].step \in DOMAIN StateAt,
           NEW state \in States \ {"CONFIRMED", "ACTIVATED", "READY_FOR_REVIEW"},
           NEW call \in AuthoringCallType,
           Transition(c, Become(c, state), call),
           \/ call.step = "idle"
           \/ /\ call.step \in DOMAIN StateAt /\ StateAt[call.step] = state
              /\ call.request = calls[c].request /\ call.key = calls[c].key
              /\ call.op = calls[c].op
              /\ call.step \in {"check_draft", "preview_draft"} =>
                    /\ call.draft \in Proposals /\ call.draft.key = calls[c].key
                    /\ WellFormed(call.draft)
    PROVE  AuthoringInv'
<1>1. Active(c) /\ calls[c].step \notin ConfirmSteps
  BY StepKinds DEF Active, At
<1>2. PICK r \in Requests :
         /\ r = calls[c].request /\ calls[c].key = r /\ requests[r] # None
         /\ calls[c].op = "process"
  BY <1>1, CallFields
<1>3. PICK request \in RequestType :
         /\ request = Become(c, state) /\ request.state = state
         /\ request.reviewed = requests[r].reviewed
         /\ request.history = requests[r].history
  BY <1>1, <1>2, Becomes
<1>4. request.reviewed # None => request.reviewed.key = r /\ WellFormed(request.reviewed)
  BY <1>2, <1>3 DEF AuthoringInv, RequestIsSound
<1>5. Transition(c, request, call)
  BY <1>3
<1> QED
  BY <1>2, <1>3, <1>4, <1>5, ProcessStep

(* A process that ends in a state where nobody works gives the request up. *)
LEMMA EndsIn ==
    ASSUME AuthoringInv, NEW c \in Callers, calls[c].step \in DOMAIN StateAt,
           NEW states \in SUBSET (States \ {"CONFIRMED", "ACTIVATED", "READY_FOR_REVIEW"}),
           EndIn(c, states)
    PROVE  AuthoringInv'
<1>1. PICK state \in states : Transition(c, Become(c, state), NoCall)
  BY DEF EndIn, After
<1> QED
  BY <1>1, NoCallIsIdle, GoesOn

(* A step that leads to the next step of _process, with the same draft.    *)
LEMMA NextStep ==
    ASSUME AuthoringInv, NEW c \in Callers, calls[c].step \in DOMAIN StateAt,
           NEW step \in {"interpret", "resolve", "preview_draft"},
           Transition(c, Become(c, StateAt[step]), After(c, step)),
           step = "preview_draft" =>
               /\ calls[c].draft \in Proposals /\ calls[c].draft.key = calls[c].key
               /\ WellFormed(calls[c].draft)
    PROVE  AuthoringInv'
<1>1. step \in {"idle"} \cup ProcessSteps \cup ConfirmSteps
  BY StateAtStep DEF ProcessSteps
<1>2. PICK call \in AuthoringCallType :
         /\ call = [calls[c] EXCEPT !.step = step]
         /\ call.step = step /\ call.op = calls[c].op
         /\ call.key = calls[c].key /\ call.request = calls[c].request
         /\ call.draft = calls[c].draft
  BY <1>1, CallAt
<1>3. Transition(c, Become(c, StateAt[step]), call)
  BY <1>2 DEF After
<1>4. StateAt[step] \in States \ {"CONFIRMED", "ACTIVATED", "READY_FOR_REVIEW"}
  BY StateAtStep DEF States
<1>5. step \in DOMAIN StateAt
  BY StateAtStep
<1> QED
  BY <1>2, <1>3, <1>4, <1>5, GoesOn

(* The first two transitions of a process.                                 *)
LEMMA StartAndInterpret ==
    ASSUME AuthoringInv, NEW c \in Callers, Start(c) \/ Interpret(c)
    PROVE  AuthoringInv'
<1>1. calls[c].step \in DOMAIN StateAt
  BY StateAtStep DEF Start, Interpret, At
<1>2. CASE EndIn(c, {"FAILED"}) \/ EndIn(c, {"FAILED", "REJECTED", "NEEDS_CLARIFICATION"})
  <2>1. {"FAILED", "REJECTED", "NEEDS_CLARIFICATION"} \in
           SUBSET (States \ {"CONFIRMED", "ACTIVATED", "READY_FOR_REVIEW"})
    BY DEF States
  <2>2. {"FAILED"} \in SUBSET (States \ {"CONFIRMED", "ACTIVATED", "READY_FOR_REVIEW"})
    BY DEF States
  <2> QED
    BY <1>1, <1>2, <2>1, <2>2, EndsIn
<1>3. CASE Transition(c, Become(c, "INTERPRETING"), After(c, "interpret"))
  BY <1>1, <1>3, NextStep, StateAtStep
<1>4. CASE Transition(c, Become(c, "DISCOVERING"), After(c, "resolve"))
  BY <1>1, <1>4, NextStep, StateAtStep
<1> QED
  BY <1>2, <1>3, <1>4 DEF Start, Interpret

(* The scope is found, is asked for, or ends the request.                  *)
LEMMA ResolveStep ==
    ASSUME AuthoringInv, NEW c \in Callers, Resolve(c)
    PROVE  AuthoringInv'
<1>1. calls[c].step \in DOMAIN StateAt /\ Active(c)
  BY StateAtStep DEF Resolve, At, Active
<1>2. CASE EndIn(c, {"NEEDS_CLARIFICATION", "REJECTED"})
  <2>1. {"NEEDS_CLARIFICATION", "REJECTED"} \in
           SUBSET (States \ {"CONFIRMED", "ACTIVATED", "READY_FOR_REVIEW"})
    BY DEF States
  <2> QED
    BY <1>1, <1>2, <2>1, EndsIn
<1>3. ASSUME NEW p \in Proposals, p.key = calls[c].request, Propose(c, p)
      PROVE  AuthoringInv'
  <2>1. CASE ~WellFormed(p)
    BY <1>1, <1>3, <2>1, CallFails DEF Propose, rest
  <2>2. CASE WellFormed(p)
    <3>1. calls[c] \in AuthoringCallType /\ calls[c].key = calls[c].request
      BY <1>1, CallFields
    <3> DEFINE next == [calls[c] EXCEPT !.step = "check_draft", !.draft = p]
    <3>2. next \in AuthoringCallType
      BY <3>1, StateAtStep DEF AuthoringCallType, ProcessSteps
    <3>3. /\ next.step = "check_draft" /\ next.draft = p
          /\ next.request = calls[c].request /\ next.key = calls[c].key
          /\ next.op = calls[c].op
      BY <3>1 DEF AuthoringCallType
    <3>4. Transition(c, Become(c, "VALIDATING"), next)
      BY <1>3, <2>2 DEF Propose, Resolved
    <3>5. PICK call \in AuthoringCallType : call = next
      BY <3>2
    <3> HIDE DEF next
    <3>6. "VALIDATING" \in States \ {"CONFIRMED", "ACTIVATED", "READY_FOR_REVIEW"}
      BY DEF States
    <3> QED
      BY <1>1, <1>3, <2>2, <3>1, <3>3, <3>4, <3>5, <3>6, StateAtStep, GoesOn
  <2> QED
    BY <2>1, <2>2
<1> QED
  BY <1>2, <1>3 DEF Resolve

(* Validation of the draft goes on to the preview or ends the request.     *)
LEMMA CheckStep ==
    ASSUME AuthoringInv, NEW c \in Callers, CheckDraft(c)
    PROVE  AuthoringInv'
<1>1. calls[c].step = "check_draft" /\ calls[c].step \in DOMAIN StateAt /\ Active(c)
  BY StateAtStep DEF CheckDraft, At, Active
<1>2. CASE EndIn(c, {"REJECTED"})
  <2>1. {"REJECTED"} \in SUBSET (States \ {"CONFIRMED", "ACTIVATED", "READY_FOR_REVIEW"})
    BY DEF States
  <2> QED
    BY <1>1, <1>2, <2>1, EndsIn
<1>3. CASE Transition(c, Become(c, "PREVIEWING"), After(c, "preview_draft"))
  <2>1. /\ calls[c].draft \in Proposals /\ calls[c].draft.key = calls[c].key
        /\ WellFormed(calls[c].draft)
    BY <1>1 DEF AuthoringInv, CallIsSound
  <2> QED
    BY <1>1, <1>3, <2>1, NextStep, StateAtStep
<1> QED
  BY <1>2, <1>3 DEF CheckDraft

(* The preview makes the request ready for the review of this very draft.  *)
LEMMA PreviewDraftStep ==
    ASSUME AuthoringInv, NEW c \in Callers, PreviewDraft(c)
    PROVE  AuthoringInv'
<1>1. calls[c].step = "preview_draft" /\ calls[c].step \in DOMAIN StateAt /\ Active(c)
  BY StateAtStep DEF PreviewDraft, At, Active
<1>2. CASE GoTo(c, Raised(c)) /\ UNCHANGED rest /\ UNCHANGED <<requests, read>>
  BY <1>1, <1>2, CallFails DEF rest
<1>3. CASE EndIn(c, {"REJECTED"})
  <2>1. {"REJECTED"} \in SUBSET (States \ {"CONFIRMED", "ACTIVATED", "READY_FOR_REVIEW"})
    BY DEF States
  <2> QED
    BY <1>1, <1>3, <2>1, EndsIn
<1>4. CASE Transition(c,
              [Become(c, "READY_FOR_REVIEW") EXCEPT !.reviewed = DraftOf(c)],
              After(c, "returned"))
  <2>1. PICK r \in Requests : r = calls[c].request /\ calls[c].key = r
    BY <1>1, CallFields
  <2>2. /\ calls[c].draft \in Proposals /\ calls[c].draft.key = r
        /\ WellFormed(calls[c].draft)
    BY <1>1, <2>1 DEF AuthoringInv, CallIsSound
  <2> DEFINE next == [Become(c, "READY_FOR_REVIEW") EXCEPT !.reviewed = DraftOf(c)]
  <2>3. /\ Become(c, "READY_FOR_REVIEW") \in RequestType
        /\ Become(c, "READY_FOR_REVIEW").state = "READY_FOR_REVIEW"
        /\ Become(c, "READY_FOR_REVIEW").history = requests[r].history
    BY <1>1, <2>1, Becomes DEF States
  <2>4. PICK request \in RequestType :
           /\ request = next /\ request.state = "READY_FOR_REVIEW"
           /\ request.reviewed = calls[c].draft
           /\ request.history = requests[r].history
    <3>1. next \in RequestType
      BY <2>2, <2>3 DEF RequestType, DraftOf
    <3>2. /\ next.state = "READY_FOR_REVIEW" /\ next.reviewed = calls[c].draft
          /\ next.history = requests[r].history
      BY <2>3 DEF RequestType, DraftOf
    <3> QED
      BY <3>1, <3>2
  <2>5. Transition(c, request, NoCall)
    BY <1>4, <2>4 DEF After
  <2>6. request.reviewed # None
    BY <2>2, <2>4, AuthoringAssumption
  <2> HIDE DEF next
  <2> QED
    BY <1>1, <2>1, <2>2, <2>4, <2>5, <2>6, NoCallIsIdle, ProcessStep
<1> QED
  BY <1>2, <1>3, <1>4 DEF PreviewDraft

-----------------------------------------------------------------------------
(* Calls that people make.                                                 *)

(* An answer that was read before puts the request back to RECEIVED.       *)
LEMMA AnswerStep ==
    ASSUME AuthoringInv, NEW c \in Callers, Answer(c)
    PROVE  AuthoringInv'
<1>1. calls[c].step = "answer" /\ Active(c) /\ CallIsSound(c)
  BY DEF Answer, At, Active, AuthoringInv
<1>2. PICK r \in Requests :
         /\ r = calls[c].request /\ calls[c].key = r /\ requests[r] # None
         /\ calls[c].op = "process" /\ Len(read[c]) < MaxAnswers
  BY <1>1 DEF CallIsSound, ConfirmSteps
<1>3. UNCHANGED <<rules, read>>
  BY DEF Answer, Transition, rest
<1> DEFINE next == [Become(c, "RECEIVED") EXCEPT !.history = Append(read[c], c)]
<1>4. /\ Append(read[c], c) \in Seq(Callers)
      /\ Len(Append(read[c], c)) <= MaxAnswers
  <2>1. read[c] \in Seq(Callers) /\ MaxAnswers \in Nat
    BY AuthoringAssumption DEF AuthoringInv, AuthoringTypes
  <2> QED
    BY <1>2, <2>1
<1>5. PICK request \in RequestType :
         /\ request = next /\ request.state = "RECEIVED"
         /\ request.history = Append(read[c], c)
         /\ request.reviewed = requests[r].reviewed
  <2>1. /\ Become(c, "RECEIVED") \in RequestType
        /\ Become(c, "RECEIVED").state = "RECEIVED"
        /\ Become(c, "RECEIVED").reviewed = requests[r].reviewed
    BY <1>1, <1>2, Becomes DEF States
  <2>2. next \in RequestType
    BY <1>4, <2>1 DEF RequestType
  <2>3. /\ next.state = "RECEIVED" /\ next.history = Append(read[c], c)
        /\ next.reviewed = requests[r].reviewed
    BY <2>1 DEF RequestType
  <2> QED
    BY <2>2, <2>3
<1>6. CASE ~MayBecome(State(r), "RECEIVED")
  BY <1>1, <1>2, <1>3, <1>5, <1>6, CallFails DEF Answer, Transition
<1>7. CASE MayBecome(State(r), "RECEIVED")
  <2>1. State(r) = "NEEDS_CLARIFICATION"
    BY <1>2, <1>7, RequestFields, AnswerableOnly DEF AuthoringInv
  <2>2. \A d \in Callers : d \notin Drivers(r)
    BY <2>1, NoDriver
  <2>3. PICK call \in AuthoringCallType :
           /\ call = [calls[c] EXCEPT !.step = "start"]
           /\ call.step = "start" /\ call.op = "process"
           /\ call.key = r /\ call.request = r
    <3>1. "start" \in {"idle"} \cup ProcessSteps \cup ConfirmSteps
      BY StateAtStep DEF ProcessSteps
    <3> QED
      BY <1>2, <3>1, CallAt
  <2>4. /\ requests' = [requests EXCEPT ![r] = request]
        /\ calls' = [calls EXCEPT ![c] = call]
    BY <1>2, <1>5, <1>7, <2>3 DEF Answer, Transition, After
  <2>5. /\ requests'[r] = request /\ request # None /\ State(r)' = "RECEIVED"
        /\ requests' \in [Requests -> RequestType \cup {None}]
        /\ \A s \in Requests \ {r} : requests'[s] = requests[s]
    BY <1>5, <2>4, Written
  <2>6. calls'[c] = call /\ \A d \in Callers \ {c} : calls'[d] = calls[d]
    BY <2>4 DEF AuthoringInv, AuthoringTypes
  <2>7. AuthoringTypes'
    BY <1>3, <2>4, <2>5 DEF AuthoringInv, AuthoringTypes
  <2>8. RequestIsSound(r)'
    BY <1>2, <1>3, <1>4, <1>5, <2>1, <2>5 DEF AuthoringInv, RequestIsSound
  <2>9. CallIsSound(c)'
    BY <2>3, <2>5, <2>6, StateAtStep DEF CallIsSound, ConfirmSteps
  <2> QED
    BY <1>3, <2>2, <2>3, <2>5, <2>6, <2>7, <2>8, <2>9, OwnStep
<1> QED
  BY <1>6, <1>7

(* A call that begins.                                                     *)
LEMMA CallBegins ==
    ASSUME AuthoringInv, NEW c \in Callers, NEW r \in Requests,
           NEW step \in ProcessSteps \cup ConfirmSteps,
           NEW draft \in Proposals \cup {None}, NEW op \in {"process", "confirm"},
           Begin(c, r, r, step, draft, None, op)
    PROVE  /\ \E call \in AuthoringCallType :
                 /\ calls' = [calls EXCEPT ![c] = call] /\ calls'[c] = call
                 /\ call.key = r /\ call.request = r /\ call.step = step
                 /\ call.draft = draft /\ call.op = op
           /\ \A d \in Callers \ {c} : calls'[d] = calls[d]
           /\ UNCHANGED <<ontology, rules>>
           /\ calls[c].step = "idle"
<1> DEFINE new == Call(r, r, step, draft, None, op)
<1>1. new \in AuthoringCallType
  BY DEF Call, AuthoringCallType
<1>2. /\ new.key = r /\ new.request = r /\ new.step = step
      /\ new.draft = draft /\ new.op = op
  BY DEF Call
<1>3. calls' = [calls EXCEPT ![c] = new] /\ UNCHANGED <<ontology, rules>>
  BY DEF Begin
<1> HIDE DEF new
<1>4. calls'[c] = new /\ \A d \in Callers \ {c} : calls'[d] = calls[d]
  BY <1>3 DEF AuthoringInv, AuthoringTypes
<1>5. calls[c].step = "idle"
  BY DEF Begin, Active, At
<1> QED
  BY <1>1, <1>2, <1>3, <1>4, <1>5

(* A new request has its creator as the only driver.                       *)
LEMMA CreateStep ==
    ASSUME AuthoringInv, NEW c \in Callers, NEW r \in Requests, CreateRequest(c, r)
    PROVE  AuthoringInv'
<1>1. requests[r] = None /\ requests' = [requests EXCEPT ![r] = NewRequest]
      /\ Begin(c, r, r, "start", None, None, "process") /\ UNCHANGED read
  BY DEF CreateRequest
<1>2. PICK request \in RequestType :
         /\ request = NewRequest /\ request.state = "RECEIVED"
         /\ request.reviewed = None /\ request.history = <<>>
  <2>1. NewRequest \in RequestType
    BY DEF NewRequest, RequestType, States
  <2> QED
    BY <2>1 DEF NewRequest
<1>3. /\ requests'[r] = request /\ request # None /\ State(r)' = "RECEIVED"
      /\ requests' \in [Requests -> RequestType \cup {None}]
      /\ \A s \in Requests \ {r} : requests'[s] = requests[s]
  BY <1>1, <1>2, Written
<1>4. /\ "start" \in ProcessSteps \cup ConfirmSteps
      /\ "start" \in DOMAIN StateAt /\ "start" \notin ConfirmSteps
  BY StateAtStep DEF ProcessSteps, ConfirmSteps
<1>5. PICK call \in AuthoringCallType :
         /\ calls' = [calls EXCEPT ![c] = call] /\ calls'[c] = call
         /\ call.key = r /\ call.request = r /\ call.step = "start"
         /\ call.op = "process"
  BY <1>1, <1>4, CallBegins
<1>6. UNCHANGED rules /\ \A d \in Callers \ {c} : calls'[d] = calls[d]
  BY <1>1, <1>4, CallBegins
<1>7. AuthoringTypes'
  BY <1>1, <1>3, <1>5, <1>6 DEF AuthoringInv, AuthoringTypes
<1>8. RequestIsSound(r)'
  <2>1. rules[r] = None
    BY <1>1, AuthoringNone DEF AuthoringInv, RequestIsSound, State, States
  <2>2. Len(request.history) <= MaxAnswers
    BY <1>2, AuthoringAssumption
  <2> QED
    BY <1>2, <1>3, <1>6, <2>1, <2>2 DEF RequestIsSound
<1>9. CallIsSound(c)'
  BY <1>3, <1>4, <1>5, StateAtStep DEF CallIsSound
<1>10. \A d \in Callers : d \notin Drivers(r)
  BY <1>1, NoDriver
<1> QED
  BY <1>1, <1>3, <1>5, <1>6, <1>7, <1>8, <1>9, <1>10, OwnStep

(* Reading a request for an answer claims nothing.                         *)
LEMMA BeginAnswerStep ==
    ASSUME AuthoringInv, NEW c \in Callers, NEW r \in Requests, BeginAnswer(c, r)
    PROVE  AuthoringInv'
<1>1. /\ requests[r] # None
      /\ Len(requests[r].history) < MaxAnswers
      /\ read' = [read EXCEPT ![c] = requests[r].history]
      /\ Begin(c, r, r, "answer", None, None, "process") /\ UNCHANGED requests
  BY AuthoringNone DEF BeginAnswer, State, States
<1>2. requests[r].history \in Seq(Callers)
  BY <1>1, RequestFields DEF AuthoringInv
<1>3. "answer" \in ProcessSteps /\ "answer" \notin ConfirmSteps
  BY DEF ProcessSteps, ConfirmSteps
<1>4. PICK call \in AuthoringCallType :
         /\ calls' = [calls EXCEPT ![c] = call] /\ calls'[c] = call
         /\ call.key = r /\ call.request = r /\ call.step = "answer"
         /\ call.op = "process"
  BY <1>1, <1>3, CallBegins
<1>5. UNCHANGED rules /\ \A d \in Callers \ {c} : calls'[d] = calls[d]
  BY <1>1, <1>3, CallBegins
<1>6. /\ read' \in [Callers -> Seq(Callers)]
      /\ read'[c] = requests[r].history
      /\ \A d \in Callers \ {c} : read'[d] = read[d]
  BY <1>1, <1>2 DEF AuthoringInv, AuthoringTypes
<1>7. AuthoringTypes'
  BY <1>1, <1>4, <1>5, <1>6 DEF AuthoringInv, AuthoringTypes
<1>8. CallIsSound(c)'
  BY <1>1, <1>3, <1>4, <1>6, StateAtStep DEF CallIsSound
<1> QED
  BY <1>1, <1>4, <1>5, <1>6, <1>7, <1>8, CallOnly

(* A cancellation never takes a request from a confirmation.               *)
LEMMA CancelStep ==
    ASSUME AuthoringInv, NEW r \in Requests, CancelRequest(r)
    PROVE  AuthoringInv'
<1>1. /\ requests[r] # None /\ MayBecome(State(r), "STOPPED")
      /\ requests' = [requests EXCEPT ![r].state = "STOPPED"]
      /\ UNCHANGED <<rules, calls, read>>
  BY DEF CancelRequest, rest
<1>2. requests[r] \in RequestType
  BY <1>1, RequestFields DEF AuthoringInv
<1>3. PICK request \in RequestType :
         /\ request = [requests[r] EXCEPT !.state = "STOPPED"]
         /\ request.state = "STOPPED" /\ request.reviewed = requests[r].reviewed
         /\ request.history = requests[r].history
  <2> DEFINE new == [requests[r] EXCEPT !.state = "STOPPED"]
  <2>1. new \in RequestType
    BY <1>2 DEF RequestType, States
  <2>2. /\ new.state = "STOPPED" /\ new.reviewed = requests[r].reviewed
        /\ new.history = requests[r].history
    BY <1>2 DEF RequestType
  <2> QED
    BY <2>1, <2>2
<1>4. requests' = [requests EXCEPT ![r] = request]
  BY <1>1, <1>3
<1>5. /\ requests'[r] = request /\ request # None /\ State(r)' = "STOPPED"
      /\ requests' \in [Requests -> RequestType \cup {None}]
      /\ \A s \in Requests \ {r} : requests'[s] = requests[s]
  BY <1>3, <1>4, Written
<1>6. AuthoringTypes'
  BY <1>1, <1>5 DEF AuthoringInv, AuthoringTypes
<1>7. rules[r] = None /\ State(r) # "CONFIRMED"
  BY <1>1, NotStoppable DEF AuthoringInv, RequestIsSound
<1>8. ASSUME NEW s \in Requests PROVE RequestIsSound(s)'
  <2>1. CASE s = r
    BY <1>1, <1>3, <1>5, <1>7, <2>1 DEF AuthoringInv, RequestIsSound
  <2>2. CASE s # r
    BY <1>1, <1>5, <2>2 DEF AuthoringInv, RequestIsSound, State
  <2> QED
    BY <2>1, <2>2
<1>9. ASSUME NEW d \in Callers PROVE CallIsSound(d)'
  <2>1. CallIsSound(d)
    BY DEF AuthoringInv
  <2>2. CASE calls[d].step = "idle"
    BY <1>1, <2>2 DEF CallIsSound
  <2>3. CASE calls[d].step # "idle" /\ calls[d].request = r
    <3>1. calls[d].step \notin ConfirmSteps
      BY <1>7, <2>1, <2>3 DEF CallIsSound
    <3> QED
      BY <1>1, <1>5, <2>1, <2>3, <3>1 DEF CallIsSound
  <2>4. CASE calls[d].step # "idle" /\ calls[d].request # r
    <3>1. PICK s \in Requests \ {r} : s = calls[d].request
      BY <2>1, <2>4 DEF CallIsSound
    <3>2. requests'[s] = requests[s]
      BY <1>5, <3>1
    <3> QED
      BY <1>1, <2>1, <3>1, <3>2 DEF CallIsSound, State, Confirming
  <2> QED
    BY <2>2, <2>3, <2>4
<1>10. ASSUME NEW s \in Requests, State(s)' # "STOPPED",
              NEW d \in Drivers(s)', NEW e \in Drivers(s)'
       PROVE  d = e
  BY <1>1, <1>5, <1>10 DEF AuthoringInv, Drivers, Active, At, State
<1> QED
  BY <1>6, <1>8, <1>9, <1>10 DEF AuthoringInv

(* A confirmation takes the row lock, and with it a request that nobody    *)
(* drives.                                                                 *)
LEMMA ConfirmStep ==
    ASSUME AuthoringInv, NEW c \in Callers, NEW r \in Requests, ConfirmRequest(c, r)
    PROVE  AuthoringInv'
<1>1. /\ State(r) = "READY_FOR_REVIEW" /\ requests[r] # None
      /\ requests' = [requests EXCEPT ![r].state = "CONFIRMED", ![r].confirmed = TRUE]
      /\ Begin(c, r, r, "validate", requests[r].reviewed, None, "confirm")
      /\ UNCHANGED read
  BY AuthoringNone DEF ConfirmRequest, Confirmable, State, States
<1>2. /\ requests[r] \in RequestType /\ requests[r].reviewed \in Proposals \cup {None}
      /\ rules[r] = None /\ requests[r].reviewed # None
      /\ requests[r].reviewed.key = r /\ WellFormed(requests[r].reviewed)
      /\ Len(requests[r].history) <= MaxAnswers
  BY <1>1, RequestFields DEF AuthoringInv, RequestIsSound
<1>3. PICK request \in RequestType :
         /\ request = [requests[r] EXCEPT !.state = "CONFIRMED", !.confirmed = TRUE]
         /\ request.state = "CONFIRMED" /\ request.confirmed = TRUE
         /\ request.reviewed = requests[r].reviewed
         /\ request.history = requests[r].history
  <2> DEFINE new == [requests[r] EXCEPT !.state = "CONFIRMED", !.confirmed = TRUE]
  <2>1. new \in RequestType
    BY <1>2 DEF RequestType, States
  <2>2. /\ new.state = "CONFIRMED" /\ new.confirmed = TRUE
        /\ new.reviewed = requests[r].reviewed
        /\ new.history = requests[r].history
    BY <1>2 DEF RequestType
  <2> QED
    BY <2>1, <2>2
<1>4. requests' = [requests EXCEPT ![r] = request]
  BY <1>1, <1>3 DEF AuthoringInv, AuthoringTypes
<1>5. /\ requests'[r] = request /\ request # None /\ State(r)' = "CONFIRMED"
      /\ requests' \in [Requests -> RequestType \cup {None}]
      /\ \A s \in Requests \ {r} : requests'[s] = requests[s]
  BY <1>3, <1>4, Written
<1>6. "validate" \in ConfirmSteps /\ "validate" \notin DOMAIN StateAt
  BY StateAtStep DEF ConfirmSteps
<1>7. PICK call \in AuthoringCallType :
         /\ calls' = [calls EXCEPT ![c] = call] /\ calls'[c] = call
         /\ call.key = r /\ call.request = r /\ call.step = "validate"
         /\ call.op = "confirm" /\ call.draft = requests[r].reviewed
  BY <1>1, <1>2, <1>6, CallBegins
<1>8. UNCHANGED rules /\ \A d \in Callers \ {c} : calls'[d] = calls[d]
  BY <1>1, <1>2, <1>6, CallBegins
<1>9. AuthoringTypes'
  BY <1>1, <1>5, <1>7, <1>8 DEF AuthoringInv, AuthoringTypes
<1>10. RequestIsSound(r)'
  BY <1>2, <1>3, <1>5, <1>8 DEF RequestIsSound
<1>11. CallIsSound(c)'
  <2>1. Confirming(call)'
    BY <1>2, <1>7, <1>8 DEF Confirming
  <2>2. /\ requests'[r] # None /\ requests'[r].reviewed = call.draft
        /\ call.step \in ConfirmSteps /\ call.step # "answer"
        /\ call.step \notin {"check_draft", "preview_draft"}
    BY <1>3, <1>5, <1>6, <1>7
  <2> QED
    BY <1>5, <1>6, <1>7, <2>1, <2>2 DEF CallIsSound, Confirming
<1>12. \A d \in Callers : d \notin Drivers(r)
  BY <1>1, NoDriver
<1> QED
  BY <1>1, <1>5, <1>7, <1>8, <1>9, <1>10, <1>11, <1>12, OwnStep

-----------------------------------------------------------------------------
(* The steps of a confirmation.                                            *)

(* What a confirmation knows.                                              *)
LEMMA ConfirmationKnows ==
    ASSUME AuthoringInv, NEW c \in Callers, calls[c].step \in ConfirmSteps
    PROVE  /\ Active(c)
           /\ calls[c].request \in Requests /\ calls[c].key = calls[c].request
           /\ calls[c].op = "confirm" /\ Confirming(calls[c])
           /\ requests[calls[c].request] # None
           /\ State(calls[c].request) = "CONFIRMED"
           /\ requests[calls[c].request].confirmed
           /\ calls[c].draft = requests[calls[c].request].reviewed
           /\ calls[c].draft \in Proposals /\ calls[c].draft.key = calls[c].request
           /\ \A d \in Callers \ {c} : d \notin Drivers(calls[c].request)
<1>1. Active(c) /\ calls[c].step # "answer" /\ CallIsSound(c)
  BY StepKinds DEF Active, At, AuthoringInv
<1>2. PICK r \in Requests :
         /\ r = calls[c].request /\ calls[c].key = r /\ requests[r] # None
         /\ calls[c].op = "confirm" /\ State(r) = "CONFIRMED"
         /\ calls[c].draft = requests[r].reviewed /\ Confirming(calls[c])
  BY <1>1 DEF CallIsSound, Active, At
<1>3. /\ requests[r].confirmed
      /\ requests[r].reviewed # None /\ requests[r].reviewed.key = r
  BY <1>2 DEF AuthoringInv, RequestIsSound
<1>4. requests[r].reviewed \in Proposals
  BY <1>2, <1>3, RequestFields DEF AuthoringInv
<1>5. c \in Drivers(r)
  BY <1>1, <1>2 DEF Drivers, At
<1>6. \A d \in Callers \ {c} : d \notin Drivers(r)
  BY <1>2, <1>5, SoleDriver
<1> QED
  BY <1>1, <1>2, <1>3, <1>4, <1>6

(* A confirmation changes its rule, or nothing, and goes on.               *)
LEMMA Confirms ==
    ASSUME AuthoringInv, UNCHANGED <<requests, read>>,
           NEW c \in Callers, calls[c].step \in ConfirmSteps,
           NEW r \in Requests, r = calls[c].request,
           NEW rule \in RuleType(Proposals) \cup {None},
           rules' = [rules EXCEPT ![r] = rule],
           NEW call \in AuthoringCallType, calls' = [calls EXCEPT ![c] = call],
           call.step \in ConfirmSteps,
           call.key = r, call.request = r, call.op = "confirm",
           call.draft = calls[c].draft,
           rule # None => rule.versions \subseteq {VersionRow(1, calls[c].draft)},
           call.step \in {"validate", "insert_rule"} => rule = None,
           call.step \in {"check", "number", "insert_version"} =>
               rule # None /\ rule.versions = {},
           call.step \in {"insert_version", "preview", "activate"} => call.version = 1,
           call.step \in {"preview", "activate", "report", "settle"} =>
               rule # None /\ rule.versions = {VersionRow(1, calls[c].draft)},
           call.step \in {"report", "settle"} => rule.enabled /\ rule.active = 1
    PROVE  AuthoringInv'
<1>1. r \in Keys
  BY AuthoringAssumption
<1>2. rules'[r] = rule /\ \A s \in Requests \ {r} : rules'[s] = rules[s]
  BY <1>1, AuthoringAssumption DEF AuthoringInv, AuthoringTypes
<1>3. calls'[c] = call /\ \A d \in Callers \ {c} : calls'[d] = calls[d]
  BY DEF AuthoringInv, AuthoringTypes
<1>4. AuthoringTypes'
  BY DEF AuthoringInv, AuthoringTypes
<1>5. /\ requests[r] # None /\ State(r) = "CONFIRMED" /\ requests[r].confirmed
      /\ calls[c].draft = requests[r].reviewed
      /\ \A d \in Callers \ {c} : d \notin Drivers(r)
  BY ConfirmationKnows
<1>6. State(r)' = "CONFIRMED" /\ requests'[r] # None
  BY <1>5 DEF State
<1>7. RequestIsSound(r)'
  <2>1. RequestIsSound(r)
    BY DEF AuthoringInv
  <2> QED
    BY <1>2, <1>5, <1>6, <2>1 DEF RequestIsSound
<1>8. Confirming(call)'
  BY <1>2 DEF Confirming
<1>9. call.step \notin DOMAIN StateAt /\ call.step \notin {"idle", "answer"}
  BY StepKinds
<1>10. CallIsSound(c)'
  BY <1>3, <1>5, <1>6, <1>8, <1>9, StateAtStep DEF CallIsSound, Confirming
<1> QED
  BY <1>2, <1>3, <1>4, <1>5, <1>6, <1>7, <1>10, OwnStep

(* The next step of a confirmation that changes no rule.                   *)
LEMMA ConfirmationGoesOn ==
    ASSUME AuthoringInv, UNCHANGED <<rules, requests, read>>,
           NEW c \in Callers, calls[c].step \in ConfirmSteps,
           NEW step \in ConfirmSteps, GoTo(c, step),
           \/ step = "insert_rule" /\ calls[c].step = "validate"
           \/ step = "number" /\ calls[c].step = "check"
           \/ step = "activate" /\ calls[c].step = "preview"
           \/ step = "settle" /\ calls[c].step = "report"
    PROVE  AuthoringInv'
<1>1. PICK r \in Requests :
         /\ r = calls[c].request /\ calls[c].key = r /\ calls[c].op = "confirm"
         /\ calls[c].draft = requests[r].reviewed /\ Confirming(calls[c])
  BY ConfirmationKnows
<1>2. PICK call \in AuthoringCallType :
         /\ call = [calls[c] EXCEPT !.step = step]
         /\ call.step = step /\ call.op = "confirm"
         /\ call.key = r /\ call.request = r
         /\ call.draft = calls[c].draft /\ call.version = calls[c].version
  BY <1>1, CallAt
<1>3. calls' = [calls EXCEPT ![c] = call]
  BY <1>2 DEF GoTo, After
<1>4. PICK rule \in RuleType(Proposals) \cup {None} : rule = rules[r]
  BY AuthoringAssumption DEF AuthoringInv, AuthoringTypes
<1>5. rules' = [rules EXCEPT ![r] = rule]
  BY <1>4 DEF AuthoringInv, AuthoringTypes
<1>6. rule # None => rule.versions \subseteq {VersionRow(1, calls[c].draft)}
  BY <1>1, <1>4 DEF AuthoringInv, RequestIsSound
<1>7. /\ call.step \in {"validate", "insert_rule"} => rule = None
      /\ call.step \in {"check", "number", "insert_version"} =>
            rule # None /\ rule.versions = {}
      /\ call.step \in {"insert_version", "preview", "activate"} => call.version = 1
      /\ call.step \in {"preview", "activate", "report", "settle"} =>
            rule # None /\ rule.versions = {VersionRow(1, calls[c].draft)}
      /\ call.step \in {"report", "settle"} => rule.enabled /\ rule.active = 1
  BY <1>1, <1>2, <1>4 DEF Confirming
<1>8. UNCHANGED <<requests, read>> /\ call.step \in ConfirmSteps
  BY <1>2
<1> QED
  BY <1>1, <1>2, <1>3, <1>5, <1>6, <1>7, <1>8, Confirms

(* The steps of create_rule and activate_rule that write.                  *)
LEMMA InsertRuleStep ==
    ASSUME AuthoringInv, UNCHANGED <<requests, read>>,
           NEW c \in Callers, InsertRule(c)
    PROVE  AuthoringInv'
<1>1. calls[c].step = "insert_rule" /\ calls[c].step \in ConfirmSteps
  BY DEF InsertRule, At, ConfirmSteps
<1>2. PICK r \in Requests :
         /\ r = calls[c].request /\ calls[c].key = r /\ calls[c].op = "confirm"
         /\ rules[r] = None
  BY <1>1, ConfirmationKnows DEF Confirming
<1>3. PICK call \in AuthoringCallType :
         /\ call = [calls[c] EXCEPT !.step = "check"]
         /\ call.step = "check" /\ call.op = "confirm"
         /\ call.key = r /\ call.request = r /\ call.draft = calls[c].draft
  <2>1. "check" \in {"idle"} \cup ProcessSteps \cup ConfirmSteps
    BY DEF ConfirmSteps
  <2> QED
    BY <1>2, <2>1, CallAt
<1>4. calls' = [calls EXCEPT ![c] = call]
  BY <1>2, <1>3 DEF InsertRule, RuleOf, GoTo, After
<1>5. PICK rule \in RuleType(Proposals) \cup {None} :
         rule = NewRule /\ rule # None /\ rule.versions = {}
  <2>1. NewRule \in RuleType(Proposals) /\ NewRule.versions = {}
    BY DEF NewRule, RuleType
  <2> QED
    BY <2>1, AuthoringNone
<1>6. rules' = [rules EXCEPT ![r] = rule]
  BY <1>2, <1>5 DEF InsertRule, RuleOf
<1>7. call.step \in ConfirmSteps
  BY <1>3 DEF ConfirmSteps
<1> QED
  BY <1>1, <1>2, <1>3, <1>4, <1>5, <1>6, <1>7, Confirms

(* The first version of a confirmed request's rule gets the number 1.      *)
LEMMA NumberStep ==
    ASSUME AuthoringInv, UNCHANGED <<requests, read>>,
           NEW c \in Callers, NextNumber(c)
    PROVE  AuthoringInv'
<1>1. calls[c].step = "number" /\ calls[c].step \in ConfirmSteps
  BY DEF NextNumber, At, ConfirmSteps
<1>2. PICK r \in Requests :
         /\ r = calls[c].request /\ calls[c].key = r /\ calls[c].op = "confirm"
         /\ rules[r] # None /\ rules[r].versions = {} /\ calls[c].draft.key = r
         /\ calls[c] \in AuthoringCallType
  BY <1>1, ConfirmationKnows DEF Confirming, AuthoringInv, AuthoringTypes
<1>3. Max(Numbers(r) \cup {0}) + 1 = 1
  <2>1. Numbers(r) \cup {0} = {0}
    BY <1>2 DEF Numbers
  <2>2. Max({0}) = 0
    BY DEF Max
  <2>3. Max(Numbers(r) \cup {0}) = 0
    BY <2>1, <2>2
  <2> QED
    BY <2>3
<1>4. calls' = [calls EXCEPT ![c].step = "insert_version", ![c].version = 1]
  BY <1>2, <1>3 DEF NextNumber, RuleOf, DraftOf
<1>5. PICK call \in AuthoringCallType :
         /\ call = [calls[c] EXCEPT !.step = "insert_version", !.version = 1]
         /\ call.step = "insert_version" /\ call.version = 1 /\ call.op = "confirm"
         /\ call.key = r /\ call.request = r /\ call.draft = calls[c].draft
  <2> DEFINE new == [calls[c] EXCEPT !.step = "insert_version", !.version = 1]
  <2>1. new \in AuthoringCallType
    BY <1>2 DEF AuthoringCallType, ConfirmSteps
  <2>2. /\ new.step = "insert_version" /\ new.version = 1 /\ new.op = "confirm"
        /\ new.key = r /\ new.request = r /\ new.draft = calls[c].draft
    BY <1>2 DEF AuthoringCallType
  <2> QED
    BY <2>1, <2>2
<1>6. calls' = [calls EXCEPT ![c] = call]
  BY <1>4, <1>5 DEF AuthoringInv, AuthoringTypes
<1>7. PICK rule \in RuleType(Proposals) \cup {None} : rule = rules[r]
  BY AuthoringAssumption DEF AuthoringInv, AuthoringTypes
<1>8. rules' = [rules EXCEPT ![r] = rule]
  BY <1>7 DEF NextNumber, AuthoringInv, AuthoringTypes
<1>9. call.step \in ConfirmSteps /\ rule # None /\ rule.versions = {}
  BY <1>2, <1>5, <1>7 DEF ConfirmSteps
<1> QED
  BY <1>1, <1>2, <1>5, <1>6, <1>8, <1>9, Confirms

(* The version of a confirmed rule holds the reviewed draft.               *)
LEMMA InsertVersionStep ==
    ASSUME AuthoringInv, UNCHANGED <<requests, read>>,
           NEW c \in Callers, InsertVersion(c)
    PROVE  AuthoringInv'
<1>1. calls[c].step = "insert_version" /\ calls[c].step \in ConfirmSteps
  BY DEF InsertVersion, At, ConfirmSteps
<1>2. PICK r \in Requests :
         /\ r = calls[c].request /\ calls[c].key = r /\ calls[c].op = "confirm"
         /\ rules[r] # None /\ rules[r].versions = {} /\ calls[c].version = 1
         /\ calls[c].draft \in Proposals /\ Active(c)
  BY <1>1, ConfirmationKnows DEF Confirming
<1>3. CASE GoTo(c, Raised(c)) /\ UNCHANGED rules
  BY <1>2, <1>3, CallFails
<1>4. CASE ~(GoTo(c, Raised(c)) /\ UNCHANGED rules)
  <2>1. /\ rules' = [rules EXCEPT ![r].versions =
                        @ \cup {VersionRow(1, calls[c].draft)}]
        /\ GoTo(c, "preview")
    BY <1>2, <1>4 DEF InsertVersion, AfterVersion, DraftOf
  <2>2. PICK call \in AuthoringCallType :
           /\ call = [calls[c] EXCEPT !.step = "preview"]
           /\ call.step = "preview" /\ call.op = "confirm" /\ call.version = 1
           /\ call.key = r /\ call.request = r /\ call.draft = calls[c].draft
    <3>1. "preview" \in {"idle"} \cup ProcessSteps \cup ConfirmSteps
      BY DEF ConfirmSteps
    <3> QED
      BY <1>2, <3>1, CallAt
  <2>3. calls' = [calls EXCEPT ![c] = call]
    BY <2>1, <2>2 DEF GoTo, After
  <2> DEFINE new == [rules[r] EXCEPT !.versions = {VersionRow(1, calls[c].draft)}]
  <2>4. rules[r] \in RuleType(Proposals)
    BY <1>2, AuthoringAssumption DEF AuthoringInv, AuthoringTypes
  <2>5. VersionRow(1, calls[c].draft) \in [draft : Proposals, version : Nat]
    BY <1>2 DEF VersionRow
  <2>6. PICK rule \in RuleType(Proposals) \cup {None} :
           /\ rule = new /\ rule # None
           /\ rule.versions = {VersionRow(1, calls[c].draft)}
    <3>1. new \in RuleType(Proposals) /\ new.versions = {VersionRow(1, calls[c].draft)}
      BY <2>4, <2>5 DEF RuleType
    <3> QED
      BY <3>1, AuthoringNone
  <2>7. rules' = [rules EXCEPT ![r] = rule]
    BY <1>2, <2>1, <2>6
  <2>8. call.step \in ConfirmSteps
    BY <2>2 DEF ConfirmSteps
  <2> HIDE DEF new
  <2> QED
    BY <1>1, <1>2, <2>2, <2>3, <2>6, <2>7, <2>8, Confirms
<1> QED
  BY <1>3, <1>4

(* The activation of a confirmed rule happens in the one call that         *)
(* confirmed it.                                                           *)
LEMMA ActivateStep ==
    ASSUME AuthoringInv, UNCHANGED <<requests, read>>,
           NEW c \in Callers, Activate(c)
    PROVE  AuthoringInv'
<1>1. calls[c].step = "activate" /\ calls[c].step \in ConfirmSteps
  BY DEF Activate, At, ConfirmSteps
<1>2. PICK r \in Requests :
         /\ r = calls[c].request /\ calls[c].key = r /\ calls[c].op = "confirm"
         /\ rules[r] # None /\ calls[c].version = 1
         /\ rules[r].versions = {VersionRow(1, calls[c].draft)}
  BY <1>1, ConfirmationKnows DEF Confirming
<1>3. PICK call \in AuthoringCallType :
         /\ call = [calls[c] EXCEPT !.step = "report"]
         /\ call.step = "report" /\ call.op = "confirm"
         /\ call.key = r /\ call.request = r /\ call.draft = calls[c].draft
  <2>1. "report" \in {"idle"} \cup ProcessSteps \cup ConfirmSteps
    BY DEF ConfirmSteps
  <2> QED
    BY <1>2, <2>1, CallAt
<1>4. calls' = [calls EXCEPT ![c] = call]
  BY <1>3 DEF Activate, GoTo, After
<1> DEFINE new == [rules[r] EXCEPT !.active = 1, !.enabled = TRUE]
<1>5. rules[r] \in RuleType(Proposals)
  BY <1>2, AuthoringAssumption DEF AuthoringInv, AuthoringTypes
<1>6. PICK rule \in RuleType(Proposals) \cup {None} :
         /\ rule = new /\ rule # None /\ rule.versions = rules[r].versions
         /\ rule.enabled = TRUE /\ rule.active = 1
  <2>1. /\ new \in RuleType(Proposals) /\ new.versions = rules[r].versions
        /\ new.enabled = TRUE /\ new.active = 1
    BY <1>5 DEF RuleType
  <2> QED
    BY <2>1, AuthoringNone
<1>7. rules' = [rules EXCEPT ![r] = rule]
  BY <1>2, <1>6, AuthoringAssumption DEF Activate, AuthoringInv, AuthoringTypes
<1>8. call.step \in ConfirmSteps
  BY <1>3 DEF ConfirmSteps
<1> HIDE DEF new
<1> QED
  BY <1>1, <1>2, <1>3, <1>4, <1>6, <1>7, <1>8, Confirms

(* Whichever transaction of the repository it is, a confirmation keeps the *)
(* invariant.                                                              *)
LEMMA RuleStepKeeps ==
    ASSUME AuthoringInv, UNCHANGED <<requests, read>>,
           NEW c \in Callers, RuleStep(c)
    PROVE  AuthoringInv'
<1>1. CASE InsertRule(c) \/ NextNumber(c) \/ InsertVersion(c) \/ Activate(c)
  BY <1>1, InsertRuleStep, NumberStep, InsertVersionStep, ActivateStep
<1>2. CASE Validate(c, "validate", "insert_rule") \/ Validate(c, "check", "number")
           \/ Preview(c) \/ Report(c)
  <2>1. calls[c].step \in ConfirmSteps /\ UNCHANGED <<rules, requests, read>>
    BY <1>2 DEF Validate, Preview, Report, At, ConfirmSteps
  <2>2. Active(c) /\ Returned(c) = "settle"
    BY <2>1, ConfirmationKnows DEF Returned
  <2>3. CASE GoTo(c, Raised(c))
    BY <2>1, <2>2, <2>3, CallFails
  <2>4. CASE ~GoTo(c, Raised(c))
    <3>1. \/ calls[c].step = "validate" /\ GoTo(c, "insert_rule")
          \/ calls[c].step = "check" /\ GoTo(c, "number")
          \/ calls[c].step = "preview" /\ GoTo(c, "activate")
          \/ calls[c].step = "report" /\ GoTo(c, "settle")
      BY <1>2, <2>2, <2>4 DEF Validate, Preview, Report, At
    <3>2. {"insert_rule", "number", "activate", "settle"} \subseteq ConfirmSteps
      BY DEF ConfirmSteps
    <3> QED
      BY <2>1, <3>1, <3>2, ConfirmationGoesOn
  <2> QED
    BY <2>3, <2>4
<1>3. ~Disable(c) /\ ~LookUpDefault(c)
  <2>1. calls[c].step \in {"idle"} \cup ProcessSteps \cup ConfirmSteps
    BY DEF AuthoringInv, AuthoringTypes, AuthoringCallType
  <2> QED
    BY <2>1, StateAtStep DEF Disable, LookUpDefault, At, ProcessSteps, ConfirmSteps
<1> QED
  BY <1>1, <1>2, <1>3 DEF RuleStep

(* The end of a confirmation: what came of the rule is recorded.           *)
LEMMA SettleStep ==
    ASSUME AuthoringInv, NEW c \in Callers, Settle(c) \/ RecordFailure(c)
    PROVE  AuthoringInv'
<1>1. PICK state \in {"ACTIVATED", "FAILED"} :
         /\ calls[c].step = IF state = "ACTIVATED" THEN "settle" ELSE "failed"
         /\ Transition(c, Become(c, state), NoCall)
  BY DEF Settle, RecordFailure, At, After
<1>2. calls[c].step \in ConfirmSteps /\ UNCHANGED <<rules, read>>
  BY <1>1 DEF ConfirmSteps, Transition, rest
<1>3. PICK r \in Requests :
         /\ r = calls[c].request /\ Active(c) /\ requests[r] # None
         /\ State(r) = "CONFIRMED" /\ requests[r].confirmed
         /\ calls[c].draft = requests[r].reviewed /\ calls[c].draft \in Proposals
         /\ Confirming(calls[c])
         /\ \A d \in Callers \ {c} : d \notin Drivers(r)
  BY <1>2, ConfirmationKnows
<1>4. PICK request \in RequestType :
         /\ request = Become(c, state) /\ request.state = state
         /\ request.reviewed = requests[r].reviewed
         /\ request.history = requests[r].history
         /\ request.confirmed = requests[r].confirmed
  <2>1. state \in States
    BY DEF States
  <2> QED
    BY <1>3, <2>1, Becomes
<1>5. CASE ~MayBecome(State(r), state)
  BY <1>1, <1>2, <1>3, <1>4, <1>5, CallFails DEF Transition
<1>6. CASE MayBecome(State(r), state)
  <2>1. /\ requests' = [requests EXCEPT ![r] = request]
        /\ calls' = [calls EXCEPT ![c] = NoCall]
    BY <1>1, <1>3, <1>4, <1>6 DEF Transition
  <2>2. /\ requests'[r] = request /\ request # None /\ State(r)' = state
        /\ requests' \in [Requests -> RequestType \cup {None}]
        /\ \A s \in Requests \ {r} : requests'[s] = requests[s]
    BY <1>4, <2>1, Written
  <2>3. calls'[c].step = "idle" /\ \A d \in Callers \ {c} : calls'[d] = calls[d]
    BY <2>1, NoCallIsIdle DEF AuthoringInv, AuthoringTypes
  <2>4. AuthoringTypes'
    BY <1>2, <2>1, <2>2, NoCallIsIdle DEF AuthoringInv, AuthoringTypes
  <2>5. CallIsSound(c)'
    BY <2>3 DEF CallIsSound
  <2>6. RequestIsSound(r)'
    <3>1. RequestIsSound(r)
      BY DEF AuthoringInv
    <3>2. state = "ACTIVATED" => rules[r] # None /\ rules[r].enabled /\ rules[r].active = 1
      BY <1>1, <1>3 DEF Confirming
    <3>3. requests[r].reviewed # None
      BY <1>3, AuthoringAssumption
    <3> QED
      BY <1>2, <1>3, <1>4, <2>2, <3>1, <3>2, <3>3 DEF RequestIsSound
  <2> QED
    BY <1>2, <1>3, <2>2, <2>3, <2>4, <2>5, <2>6, OwnStep
<1> QED
  BY <1>5, <1>6

-----------------------------------------------------------------------------
(* The theorems.                                                           *)

(* No requests, no calls: the invariant holds at the start.                *)
LEMMA InitAuthoring == AuthoringInit => AuthoringInv
<1> SUFFICES ASSUME AuthoringInit PROVE AuthoringInv
  OBVIOUS
<1>1. /\ \A k \in Keys : rules[k] = None
      /\ \A r \in Requests : requests[r] = None /\ rules[r] = None
      /\ \A c \in Callers : calls[c].step = "idle"
  BY NoCallIsIdle, AuthoringAssumption DEF AuthoringInit, RulesInit
<1>2. AuthoringTypes
  BY NoCallIsIdle DEF AuthoringInit, RulesInit, AuthoringTypes
<1>3. \A c \in Callers : CallIsSound(c)
  BY <1>1 DEF CallIsSound
<1>4. \A r \in Requests : RequestIsSound(r)
  BY <1>1, AuthoringNone DEF RequestIsSound, State, States
<1>5. \A r \in Requests : Drivers(r) = {}
  BY <1>1 DEF Drivers, Active, At
<1> QED
  BY <1>2, <1>3, <1>4, <1>5 DEF AuthoringInv

(* Every step keeps the invariant.                                         *)
LEMMA NextAuthoring == AuthoringInv /\ [AuthoringNext]_authoringVars => AuthoringInv'
<1> SUFFICES ASSUME AuthoringInv, [AuthoringNext]_authoringVars PROVE AuthoringInv'
  OBVIOUS
<1>1. ASSUME NEW c \in Callers, AuthoringStep(c) PROVE AuthoringInv'
  BY <1>1, StartAndInterpret, ResolveStep, CheckStep, PreviewDraftStep, AnswerStep,
     SettleStep DEF AuthoringStep
<1>2. ASSUME NEW c \in Callers, RuleStep(c), UNCHANGED <<requests, read>>
      PROVE  AuthoringInv'
  BY <1>2, RuleStepKeeps
<1>3. ASSUME NEW c \in Callers, Fault(c), UNCHANGED <<requests, read>>
      PROVE  AuthoringInv'
  <2>1. Active(c) /\ UNCHANGED rules /\ (GoTo(c, Raised(c)) \/ GoTo(c, "died"))
    BY <1>3 DEF Fault
  <2> QED
    BY <1>3, <2>1, CallFails
<1>4. ASSUME UNCHANGED <<rules, calls, requests, read>>
      PROVE  AuthoringInv'
  <2>1. AuthoringTypes'
    BY <1>4 DEF AuthoringInv, AuthoringTypes
  <2>2. ASSUME NEW c \in Callers PROVE CallIsSound(c)'
    <3>1. CallIsSound(c)
      BY DEF AuthoringInv
    <3> QED
      BY <1>4, <3>1 DEF CallIsSound, Confirming, State
  <2>3. ASSUME NEW r \in Requests PROVE RequestIsSound(r)'
    <3>1. RequestIsSound(r)
      BY DEF AuthoringInv
    <3> QED
      BY <1>4, <3>1 DEF RequestIsSound, State
  <2>4. ASSUME NEW r \in Requests
        PROVE  Drivers(r)' = Drivers(r) /\ State(r)' = State(r)
    BY <1>4 DEF Drivers, Active, At, State
  <2> QED
    BY <2>1, <2>2, <2>3, <2>4 DEF AuthoringInv
<1>5. ASSUME NEW o, Reseed(o), UNCHANGED <<requests, read>>
      PROVE  AuthoringInv'
  BY <1>4, <1>5 DEF Reseed
<1>6. CASE UNCHANGED authoringVars
  BY <1>4, <1>6 DEF authoringVars
<1> QED
  BY <1>1, <1>2, <1>3, <1>5, <1>6, CreateStep, BeginAnswerStep, ConfirmStep, CancelStep
     DEF AuthoringNext

(* Calls, requests and rules stay consistent, whatever overlaps, fails or  *)
(* is stopped.                                                             *)
THEOREM AuthoringInvariant == AuthoringSpec => []AuthoringInv
BY InitAuthoring, NextAuthoring, PTL DEF AuthoringSpec

(* A request is in a state of the table, and what is stored for review is  *)
(* a well formed draft of its own.                                         *)
THEOREM AuthoringIsTyped == AuthoringSpec => []AuthoringTypeOK
<1>1. AuthoringInv => AuthoringTypeOK
  <2> SUFFICES ASSUME AuthoringInv, NEW r \in Requests, requests[r] # None
               PROVE  /\ requests[r].state \in States
                      /\ requests[r].reviewed # None =>
                            /\ requests[r].reviewed \in Proposals
                            /\ requests[r].reviewed.key = r
                            /\ WellFormed(requests[r].reviewed)
                      /\ Len(requests[r].history) <= MaxAnswers
    BY DEF AuthoringTypeOK
  <2> QED
    BY RequestFields DEF AuthoringInv, RequestIsSound
<1> QED
  BY <1>1, AuthoringInvariant, PTL

(* No rule without a confirmation, and no rule but what was reviewed.      *)
THEOREM ConfirmedRules == AuthoringSpec => []RulesNeedConfirmation
<1>1. AuthoringInv => RulesNeedConfirmation
  <2> SUFFICES ASSUME AuthoringInv, NEW r \in Requests, rules[r] # None
               PROVE  /\ State(r) \in {"CONFIRMED", "ACTIVATED", "FAILED"}
                      /\ requests[r].confirmed
                      /\ \A row \in rules[r].versions : row.draft = requests[r].reviewed
    BY DEF RulesNeedConfirmation
  <2> QED
    BY DEF AuthoringInv, RequestIsSound, VersionRow
<1> QED
  BY <1>1, AuthoringInvariant, PTL

(* A confirmation makes one version at most, and an ACTIVATED request has  *)
(* its rule enabled in it.                                                 *)
THEOREM ActivatedOnce == AuthoringSpec => []ActivatedExactlyOnce
<1>1. AuthoringInv => ActivatedExactlyOnce
  <2> SUFFICES ASSUME AuthoringInv, NEW r \in Requests
               PROVE  /\ rules[r] # None => Cardinality(rules[r].versions) <= 1
                      /\ State(r) = "ACTIVATED" =>
                            rules[r] # None /\ rules[r].enabled /\ rules[r].active = 1
    BY DEF ActivatedExactlyOnce
  <2>1. RequestIsSound(r)
    BY DEF AuthoringInv
  <2>2. ASSUME rules[r] # None PROVE Cardinality(rules[r].versions) <= 1
    <3>1. rules[r].versions \subseteq {VersionRow(1, requests[r].reviewed)}
      BY <2>1, <2>2 DEF RequestIsSound
    <3> QED
      BY <3>1, AtMostOne
  <2> QED
    BY <2>1, <2>2 DEF RequestIsSound
<1> QED
  BY <1>1, AuthoringInvariant, PTL

(* Never two calls at work on a request that can still change.             *)
THEOREM DrivenByOne == AuthoringSpec => []OneDriver
<1>1. AuthoringInv => OneDriver
  <2> SUFFICES ASSUME AuthoringInv, NEW r \in Requests, State(r) # "STOPPED"
               PROVE  Cardinality(Drivers(r)) <= 1
    BY DEF OneDriver
  <2>1. \A c, d \in Drivers(r) : c = d
    BY DEF AuthoringInv
  <2>2. \E c : Drivers(r) \subseteq {c}
    BY <2>1
  <2> QED
    BY <2>2, AtMostOne
<1> QED
  BY <1>1, AuthoringInvariant, PTL
=============================================================================
