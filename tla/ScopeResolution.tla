--------------------------- MODULE ScopeResolution ---------------------------
(***************************************************************************)
(* How the words of an interpretation become the scope of a draft          *)
(* (_resolve_scope of src/afdd/ai_authoring.py and what _process makes of  *)
(* its result), as operators on what search_ontology returned              *)
(* (Ontology!Discovery).                                                   *)
(*                                                                         *)
(* A query is [properties, floors, usages], three sets of words.  Both     *)
(* sides of every comparison are case-folded in the code, so here a string *)
(* stands for all its spellings.                                           *)
(***************************************************************************)
EXTENDS Integers, FiniteSets

Words(query) == query.properties \cup query.floors \cup query.usages

Named(disc, type, word) ==
    {s \in disc.spaces : s.type = type /\ word \in {s.id, s.name}}

PropertyMatches(disc, word) == {s.id : s \in Named(disc, "Building", word)}

(* The properties that some word, of whichever kind, names alone.          *)
SelectedProperties(disc, query) ==
    UNION {m \in {PropertyMatches(disc, word) : word \in Words(query)} :
              Cardinality(m) = 1}

(* Variant: floors of every property.                                      *)
FloorMatches_Everywhere(disc, query, word) ==
    {s.id : s \in Named(disc, "Floor", word)}

FloorMatches(disc, query, word) ==
    LET selected == SelectedProperties(disc, query)
    IN  {s.id : s \in {f \in Named(disc, "Floor", word) :
                          selected = {} \/ f.parent \in selected}}

(* A word is the usage of zones itself, or of the property around them.    *)
UsageMatches(disc, word) ==
    LET direct == {u.usage : u \in {x \in disc.served_usages : x.usage = word}}
        around == {u.usage : u \in {x \in disc.served_usages : x.property_usage = word}}
    IN  IF direct # {} THEN direct ELSE around

Matches(disc, query, word) ==
    ({"property"} \X PropertyMatches(disc, word))
        \cup ({"floor"} \X FloorMatches(disc, query, word))
        \cup ({"served_usage"} \X UsageMatches(disc, word))

Unresolved(disc, query) == {w \in Words(query) : Matches(disc, query, w) = {}}

Ambiguous(disc, query) ==
    {w \in Words(query) : Cardinality(Matches(disc, query, w)) > 1}

(* What the words with one meaning stand for.                              *)
Resolved(disc, query, dimension) ==
    {m[2] : m \in {x \in UNION {Matches(disc, query, w) :
                                   w \in Words(query) \ Ambiguous(disc, query)} :
                      x[1] = dimension}}

(* Without a word for floors, all floors of the properties.                *)
ResolvedFloors(disc, query) ==
    LET properties == Resolved(disc, query, "property")
        floors     == Resolved(disc, query, "floor")
    IN  IF floors = {} /\ query.floors = {}
        THEN {s.id : s \in {f \in disc.spaces : f.type = "Floor" /\ f.parent \in properties}}
        ELSE floors

(* What _process goes on to do.                                            *)
Outcome(disc, query) ==
    IF Ambiguous(disc, query) # {} THEN "NEEDS_CLARIFICATION"
    ELSE IF Unresolved(disc, query) # {} THEN "REJECTED"
    ELSE IF Resolved(disc, query, "property") = {} THEN "NEEDS_CLARIFICATION"
    ELSE IF ResolvedFloors(disc, query) = {} THEN "REJECTED"
    ELSE "DRAFT"

(* The scope of the draft, with the defaults of TargetScope.               *)
ScopeOf(disc, query) ==
    LET usages == Resolved(disc, query, "served_usage")
    IN  [ properties    |-> Resolved(disc, query, "property"),
          floors        |-> ResolvedFloors(disc, query),
          property_type |-> "Office",
          zone_usages   |-> IF usages = {} THEN {"Tenant Area"} ELSE usages,
          room_usages   |-> {"Office Room"},
          overrides     |-> {} ]
=============================================================================
