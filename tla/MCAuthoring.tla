----------------------------- MODULE MCAuthoring -----------------------------
(***************************************************************************)
(* Small instances of Authoring: interpretations that lead to a draft with *)
(* targets, one without, and one whose threshold is zero; an ontology with *)
(* an AHU, and what it becomes when a register takes the usage of its zone *)
(* or the type of its building away.                                       *)
(***************************************************************************)
EXTENDS Authoring, TLC

CONSTANTS r1, c1, c2, c3

Draft(usages, degrees) ==
    [ key |-> r1, properties |-> {"a"}, floors |-> {"f1"},
      property_type |-> "Office", zone_usages |-> usages,
      room_usages |-> {"Office Room"}, overrides |-> {},
      threshold |-> degrees ]

good == Draft({"Tenant Area"}, 3)
idle == Draft({"Lobby"}, 3)
zero == Draft({"Tenant Area"}, 0)

SoundProposals == {good, idle}
AllProposals   == {good, idle, zero}

Seed == INSTANCE Ontology

Space(id, type, parent, usage) ==
    [ id |-> id, name |-> id, type |-> type, parent |-> parent,
      usage |-> usage, property_type |-> IF parent = None THEN "Office" ELSE None ]

(* The ontology the seed makes of a register with one AHU.                 *)
Made(type_of_a, usage) ==
    Seed!View(Seed!Seeded(Seed!EmptyDb,
        [ spaces |-> << Space("a", type_of_a, None, "Office"),
                        Space("f1", "Floor", "a", None),
                        Space("z", "HVAC Zone", "f1", usage),
                        Space("r", "Room", "z", "Office Room") >>,
          equipment |-> << [ id |-> "ahu", type |-> "AHU", property |-> "a",
                             installed |-> "r", served |-> "z", scope |-> None ] >>,
          points |-> << [id |-> "p1", owner |-> "ahu", name |-> "RUN"],
                        [id |-> "p2", owner |-> "ahu", name |-> "SAT"],
                        [id |-> "p3", owner |-> "ahu", name |-> "SAT_SP"] >> ]))

whole   == Made("Building", "Tenant Area")
idled   == Made("Building", "Plant Area")
retyped == Made("Room", "Tenant Area")

MCOntologies == {whole, idled, retyped}
OneOntology  == {whole}

Symmetry == Permutations(Callers)
=============================================================================
