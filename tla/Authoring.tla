------------------------------ MODULE Authoring ------------------------------
(***************************************************************************)
(* Requests to author a rule in free text (src/afdd/ai_authoring.py).  A   *)
(* call takes a request from RECEIVED to READY_FOR_REVIEW in a row of      *)
(* transactions, a person answers, cancels or confirms, and the            *)
(* confirmation creates and activates a rule with the steps of module      *)
(* Rules.  Every other call may run between two steps.                     *)
(*                                                                         *)
(* The model provider and the resolution of scope references are choices   *)
(* over what they can come to; the state machine, the database and the     *)
(* checks against the ontology are the code's.                             *)
(***************************************************************************)
EXTENDS Rules

CONSTANTS
    Requests,    \* named by the keys of their rules: one key, one request
    Proposals,   \* the drafts interpretations can lead to
    MaxAnswers   \* bound on the clarifications of a request

WellFormed(p) == p.threshold > 0      \* FaultLogic

ASSUME AuthoringAssumption ==
    /\ Requests \subseteq Keys
    /\ \A p \in Proposals : p \in DraftType /\ p.overrides = {}
    /\ MaxAnswers \in Nat
    /\ None \notin Requests \cup Proposals

(* A row of ai_authoring_requests.                                         *)
States == { "RECEIVED", "INTERPRETING", "DISCOVERING", "VALIDATING",
            "PREVIEWING", "NEEDS_CLARIFICATION", "READY_FOR_REVIEW",
            "CONFIRMED", "ACTIVATED", "REJECTED", "FAILED", "STOPPED" }

RequestType == [ state : States, reviewed : Proposals \cup {None},
                 history : Seq(Callers), confirmed : BOOLEAN ]

ASSUME AuthoringNone ==
    None \notin States \cup RequestType \cup RuleType(Proposals)

VARIABLES
    requests,   \* requests[r]: None or a row of ai_authoring_requests
    read        \* read[c]: the clarification history a call has read

authoringVars == <<ontology, rules, calls, faults, drifts, requests, read>>

rest == <<ontology, rules, faults, drifts>>

AllowedTransitions ==
    [s \in States |->
        CASE s = "RECEIVED"            -> {"INTERPRETING", "FAILED", "STOPPED"}
          [] s = "INTERPRETING"        -> {"DISCOVERING", "NEEDS_CLARIFICATION",
                                           "REJECTED", "FAILED", "STOPPED"}
          [] s = "DISCOVERING"         -> {"VALIDATING", "NEEDS_CLARIFICATION",
                                           "REJECTED", "FAILED", "STOPPED"}
          [] s = "VALIDATING"          -> {"PREVIEWING", "REJECTED", "FAILED",
                                           "STOPPED"}
          [] s = "PREVIEWING"          -> {"READY_FOR_REVIEW", "REJECTED",
                                           "FAILED", "STOPPED"}
          [] s = "NEEDS_CLARIFICATION" -> {"RECEIVED", "STOPPED"}
          [] s = "READY_FOR_REVIEW"    -> {"CONFIRMED", "STOPPED"}
          [] s = "CONFIRMED"           -> {"ACTIVATED", "FAILED"}
          [] OTHER                     -> {} ]

(* Variant: a confirmed request may still be stopped.                      *)
MayBecome_StopConfirmed(s, t) ==
    t \in AllowedTransitions[s] \/ <<s, t>> = <<"CONFIRMED", "STOPPED">>

(* Variant: a preview without targets may not be rejected.                 *)
MayBecome_NoEmptyPreview(s, t) ==
    t \in AllowedTransitions[s] /\ <<s, t>> # <<"PREVIEWING", "REJECTED">>

MayBecome(s, t) == t \in AllowedTransitions[s]

NewRequest == [ state |-> "RECEIVED", reviewed |-> None, history |-> <<>>,
                confirmed |-> FALSE ]

AuthoringInit ==
    /\ RulesInit
    /\ requests = [r \in Requests |-> None]
    /\ read = [c \in Callers |-> <<>>]

State(r) == IF requests[r] = None THEN None ELSE requests[r].state

-----------------------------------------------------------------------------
(* _transition: under a row lock, to a state that may follow the present   *)
(* one; otherwise ValueError, which ends the call.                         *)

Transition(c, request, call) ==
    LET r == calls[c].request
    IN  /\ IF MayBecome(State(r), request.state)
           THEN /\ requests' = [requests EXCEPT ![r] = request]
                /\ calls' = [calls EXCEPT ![c] = call]
           ELSE /\ GoTo(c, Raised(c))
                /\ UNCHANGED requests
        /\ UNCHANGED rest
        /\ UNCHANGED read

Become(c, state) == [requests[calls[c].request] EXCEPT !.state = state]

(* To a state in which _process returns.                                   *)
EndIn(c, states) ==
    \E state \in states : Transition(c, Become(c, state), After(c, "returned"))

-----------------------------------------------------------------------------
(* _process.                                                               *)

(* Without an API key the request fails before _process.                   *)
Start(c) ==
    /\ At(c, "start")
    /\ \/ Transition(c, Become(c, "INTERPRETING"), After(c, "interpret"))
       \/ EndIn(c, {"FAILED"})

(* The provider answers, or fails on every attempt.                        *)
Interpret(c) ==
    /\ At(c, "interpret")
    /\ \/ Transition(c, Become(c, "DISCOVERING"), After(c, "resolve"))
       \/ EndIn(c, {"FAILED", "REJECTED", "NEEDS_CLARIFICATION"})

Resolved(c, p) ==
    Transition(c, Become(c, "VALIDATING"),
               [calls[c] EXCEPT !.step = "check_draft", !.draft = p])

(* The draft is built; FaultLogic refuses a threshold that is not          *)
(* positive, and nothing catches its ValidationError.                      *)
Propose(c, p) ==
    IF WellFormed(p)
    THEN Resolved(c, p)
    ELSE /\ GoTo(c, Raised(c))
         /\ UNCHANGED rest
         /\ UNCHANGED <<requests, read>>

(* search_ontology and _resolve_scope: the draft's properties and floors   *)
(* are spaces of the ontology as it is now.                                *)
Resolve(c) ==
    /\ At(c, "resolve")
    /\ \/ EndIn(c, {"NEEDS_CLARIFICATION", "REJECTED"})
       \/ \E p \in Proposals :
             /\ p.key = calls[c].request
             /\ ReferencesHold(ontology, p)
             /\ Propose(c, p)

CheckDraft(c) ==
    /\ At(c, "check_draft")
    /\ IF ReferencesHold(ontology, DraftOf(c))
       THEN Transition(c, Become(c, "PREVIEWING"), After(c, "preview_draft"))
       ELSE EndIn(c, {"REJECTED"})

(* An invalid preview has no matched_count, which raises KeyError.         *)
PreviewDraft(c) ==
    /\ At(c, "preview_draft")
    /\ IF ~ReferencesHold(ontology, DraftOf(c))
       THEN /\ GoTo(c, Raised(c))
            /\ UNCHANGED rest
            /\ UNCHANGED <<requests, read>>
       ELSE IF Matched(ontology, DraftOf(c)) = {}
       THEN EndIn(c, {"REJECTED"})
       ELSE Transition(c,
                [Become(c, "READY_FOR_REVIEW") EXCEPT !.reviewed = DraftOf(c)],
                After(c, "returned"))

(* answer_clarification: the history as it was read, and the answer.  An   *)
(* answer is named by the call that brings it.                             *)
Answer(c) ==
    /\ At(c, "answer")
    /\ Transition(c,
           [Become(c, "RECEIVED") EXCEPT !.history = Append(read[c], c)],
           After(c, "start"))

(* confirm_request: what create_rule and activate_rule came to.            *)
Settle(c) ==
    /\ At(c, "settle")
    /\ Transition(c, Become(c, "ACTIVATED"), After(c, "returned"))

RecordFailure(c) ==
    /\ At(c, "failed")
    /\ Transition(c, Become(c, "FAILED"), After(c, "returned"))

AuthoringStep(c) ==
    \/ Start(c)
    \/ Interpret(c)
    \/ Resolve(c)
    \/ CheckDraft(c)
    \/ PreviewDraft(c)
    \/ Answer(c)
    \/ Settle(c)
    \/ RecordFailure(c)

-----------------------------------------------------------------------------
(* Calls begin.                                                            *)

CreateRequest(c, r) ==
    /\ requests[r] = None
    /\ requests' = [requests EXCEPT ![r] = NewRequest]
    /\ Begin(c, r, r, "start", None, None, "process")
    /\ UNCHANGED read

BeginAnswer(c, r) ==
    /\ State(r) = "NEEDS_CLARIFICATION"
    /\ Len(requests[r].history) < MaxAnswers
    /\ read' = [read EXCEPT ![c] = requests[r].history]
    /\ Begin(c, r, r, "answer", None, None, "process")
    /\ UNCHANGED requests

CancelRequest(r) ==
    /\ requests[r] # None
    /\ MayBecome(State(r), "STOPPED")
    /\ requests' = [requests EXCEPT ![r].state = "STOPPED"]
    /\ UNCHANGED rest
    /\ UNCHANGED <<calls, read>>

(* Variant: a confirmation may be taken up again.                          *)
Confirmable_Again(r) == State(r) \in {"READY_FOR_REVIEW", "CONFIRMED"}

Confirmable(r) == State(r) = "READY_FOR_REVIEW"

(* The transaction of confirm_request.  In any other state the call        *)
(* returns what is stored or raises, and changes nothing.                  *)
ConfirmRequest(c, r) ==
    /\ Confirmable(r)
    /\ requests' = [requests EXCEPT ![r].state = "CONFIRMED",
                                    ![r].confirmed = TRUE]
    /\ Begin(c, r, r, "validate", requests[r].reviewed, None, "confirm")
    /\ UNCHANGED read

AuthoringNext ==
    \/ \E c \in Callers :
          \/ AuthoringStep(c)
          \/ (RuleStep(c) \/ Fault(c)) /\ UNCHANGED <<requests, read>>
          \/ \E r \in Requests :
                CreateRequest(c, r) \/ BeginAnswer(c, r) \/ ConfirmRequest(c, r)
    \/ \E r \in Requests : CancelRequest(r)
    \/ \E o \in Ontologies : Reseed(o) /\ UNCHANGED <<requests, read>>

AuthoringSpec == AuthoringInit /\ [][AuthoringNext]_authoringVars

(* A call that has begun goes on: the API runs each call to its end in a   *)
(* thread of its own.                                                      *)
Proceed(c) == AuthoringStep(c) \/ (RuleStep(c) /\ UNCHANGED <<requests, read>>)

AuthoringFairSpec ==
    AuthoringSpec /\ \A c \in Callers : WF_authoringVars(Proceed(c))

-----------------------------------------------------------------------------
(* Properties.                                                             *)

(* A stored request is in one of the states the table allows, and a draft  *)
(* is stored for review only when it is well formed and the request's own. *)
AuthoringTypeOK ==
    \A r \in Requests : requests[r] # None =>
        /\ requests[r].state \in States
        /\ requests[r].reviewed # None =>
              /\ requests[r].reviewed \in Proposals
              /\ requests[r].reviewed.key = r
              /\ WellFormed(requests[r].reviewed)
        /\ Len(requests[r].history) <= MaxAnswers

(* Only a confirmed request has a rule, and what the rule's versions say   *)
(* is the draft that was reviewed (docs/ai-authoring.md:19).  In           *)
(* particular no rule comes out of a request that was rejected, stopped or *)
(* is still processed, whatever its calls were doing when it was stopped.  *)
RulesNeedConfirmation ==
    \A r \in Requests : rules[r] # None =>
        /\ State(r) \in {"CONFIRMED", "ACTIVATED", "FAILED"}
        /\ requests[r].confirmed
        /\ \A row \in rules[r].versions : row.draft = requests[r].reviewed

(* A confirmation creates one version at most, and an ACTIVATED request    *)
(* has its rule enabled in that version (docs/reviewer-notes.md:49-50).    *)
ActivatedExactlyOnce ==
    \A r \in Requests :
        /\ rules[r] # None => Cardinality(rules[r].versions) <= 1
        /\ State(r) = "ACTIVATED" =>
              rules[r] # None /\ rules[r].enabled /\ rules[r].active = 1

(* The calls that are past the check that let them work on a request.      *)
Drivers(r) == {c \in Callers : /\ Active(c)
                               /\ calls[c].request = r
                               /\ ~At(c, "answer")}

(* Answers, confirmations and the calls that process a request overlap,    *)
(* but never two work on a request whose state can still change: each      *)
(* takes the request over in a locked transaction that no second one       *)
(* passes.  (A call of a stopped request may be under way; it will raise.) *)
OneDriver ==
    \A r \in Requests :
        State(r) # "STOPPED" => Cardinality(Drivers(r)) <= 1

InFlight(r) ==
    State(r) \in { "RECEIVED", "INTERPRETING", "DISCOVERING", "VALIDATING",
                   "PREVIEWING", "CONFIRMED" }

(* What strands a request for good: a failed or dead call, a change of the *)
(* ontology just before the preview, a draft FaultLogic refuses.           *)
Stranded(r) ==
    \/ faults > 0
    \/ drifts > 0
    \/ State(r) = "DISCOVERING" /\ Drivers(r) = {}

(* A request that is being processed or confirmed comes to rest: ready for *)
(* review, in need of an answer, or ended; unless it is stranded.          *)
RequestsComeToRest ==
    \A r \in Requests : InFlight(r) ~> (~InFlight(r) \/ Stranded(r))

(* docs/architecture.md:98-99: "Provider errors, malformed output, unknown *)
(* assets, unsupported logic, and ontology drift stop safely": while no    *)
(* call fails for another reason, a request in flight has a call that is   *)
(* going to end it.                                                        *)
NoRequestAbandoned ==
    \A r \in Requests : InFlight(r) /\ faults = 0 => Drivers(r) # {}
=============================================================================
