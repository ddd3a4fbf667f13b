------------------------------- MODULE MCRules -------------------------------
(***************************************************************************)
(* A small instance of Rules.  Its ontologies are what the seed makes of   *)
(* three registers: two buildings and an AHU; the same after the second    *)
(* building and the usage of the zone were changed; and one that lacks the *)
(* second building.  Of three drafts, the first refers to the second       *)
(* building and overrides it, and the last is of another rule.             *)
(***************************************************************************)
EXTENDS Rules, TLC

CONSTANTS k1, k2, c1, c2

Draft(k, buildings) ==
    [ key |-> k, properties |-> buildings, floors |-> {"f1"},
      property_type |-> "Office", zone_usages |-> {"Tenant Area"},
      room_usages |-> {"Office Room"}, overrides |-> buildings \ {"a"},
      threshold |-> 3 ]

overridden == Draft(k1, {"a", "b"})
plain      == Draft(k1, {"a"})
other      == Draft(k2, {"a"})

Seed == INSTANCE Ontology

Space(id, type, parent, usage) ==
    [ id |-> id, name |-> id, type |-> type, parent |-> parent,
      usage |-> usage, property_type |-> IF type = "Building" THEN "Office" ELSE None ]

Register(usage, buildings) ==
    [ spaces |-> << Space("a", "Building", None, "Office"),
                    Space("f1", "Floor", "a", None),
                    Space("z", "HVAC Zone", "f1", usage),
                    Space("r", "Room", "z", "Office Room") >> \o buildings,
      equipment |-> << [ id |-> "ahu", type |-> "AHU", property |-> "a",
                         installed |-> "r", served |-> "z", scope |-> None ] >>,
      points |-> << [id |-> "p1", owner |-> "ahu", name |-> "RUN"],
                    [id |-> "p2", owner |-> "ahu", name |-> "SAT"],
                    [id |-> "p3", owner |-> "ahu", name |-> "SAT_SP"] >> ]

B(type) == <<Space("b", type, None, "Office")>>

Made(register) == Seed!View(Seed!Seeded(Seed!EmptyDb, register))

whole   == Made(Register("Tenant Area", B("Building")))
retyped == Made(Register("Lobby", B("Room")))
lacking == Made(Register("Tenant Area", <<>>))

MCDrafts     == {overridden, plain, other}
MCOntologies == {whole, retyped, lacking}
Symmetry     == Permutations(Callers)
=============================================================================
