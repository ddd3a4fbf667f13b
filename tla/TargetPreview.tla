---------------------------- MODULE TargetPreview ----------------------------
(***************************************************************************)
(* Which AHUs a rule draft applies to (validate_references and             *)
(* preview_draft of src/afdd/rules.py), as operators on an ontology        *)
(* [spaces, facts]: spaces maps the known spaces to their types, and facts *)
(* holds the rows of _target_facts (module Ontology).                      *)
(***************************************************************************)
EXTENDS Integers, FiniteSets

Points == {"RUN", "SAT", "SAT_SP"}

ReferencesHold(o, d) ==
    LET Is(x, type) == x \in DOMAIN o.spaces /\ o.spaces[x] = type
    IN  /\ \A p \in d.properties : Is(p, "Building")
        /\ \A f \in d.floors : Is(f, "Floor")
        /\ d.overrides \subseteq d.properties

InSelectedScope(d, f) ==
    /\ f.property \in d.properties
    /\ f.floor \in d.floors
    /\ f.property_type = d.property_type

EligibleRooms(d, f) == {room \in f.rooms : room.usage \in d.room_usages}

ServesTenantArea(d, f) == f.usage \in d.zone_usages /\ EligibleRooms(d, f) # {}

(* The AHUs of a valid preview that have no exclusion reason.              *)
Matched(o, d) ==
    {f \in o.facts : /\ InSelectedScope(d, f)
                     /\ ServesTenantArea(d, f)
                     /\ Points \subseteq f.points}
=============================================================================
