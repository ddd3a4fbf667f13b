------------------------------- MODULE Ontology -------------------------------
(***************************************************************************)
(* The inventory: what src/afdd/seed.py makes of the source registers, and *)
(* what the readers make of the tables it writes (_target_facts in         *)
(* rules.py, search_ontology in ai_authoring.py, ontology.py and           *)
(* dashboard.py).                                                          *)
(*                                                                         *)
(* A register is what the three CSV files say: sequences of rows.          *)
(*   spaces     [id, name, type, parent, usage, property_type]             *)
(*   equipment  [id, type, property, installed, served, scope]             *)
(*   points     [id, owner, name]                                          *)
(* An empty field is None.  A database holds a table, a function from ids  *)
(* to rows, for each of the three, and the edges <<subject, predicate,     *)
(* object>> of ontology_relationships.  Ids of different kinds differ.     *)
(***************************************************************************)
EXTENDS Integers, Sequences, FiniteSets, SequencesExt

CONSTANT None

EmptyDb == [spaces |-> <<>>, equipment |-> <<>>, points |-> <<>>, edges |-> {}]

-----------------------------------------------------------------------------
(* validate_source.                                                        *)

Ids(rows) == {rows[i].id : i \in DOMAIN rows}

RowOf(rows, x) == rows[CHOOSE i \in DOMAIN rows : rows[i].id = x]

Unique(rows) == Cardinality(Ids(rows)) = Len(rows)

ParentOf(spaces, x) == IF x \in Ids(spaces) THEN RowOf(spaces, x).parent ELSE None

(* The walk of context_for_space: x, its parent, and so on, then None.     *)
Walk(spaces, x) ==
    LET up[n \in 0..Len(spaces)] ==
            IF n = 0 THEN x ELSE ParentOf(spaces, up[n - 1])
    IN  up

(* The walk meets no space twice, so it ends within one step per space.    *)
Rooted(spaces, x) == Walk(spaces, x)[Len(spaces)] = None

(* The last space of a type that the walk meets.                           *)
ContextOf(spaces, x, type) ==
    LET up == Walk(spaces, x)
        at == {n \in DOMAIN up : up[n] # None /\ RowOf(spaces, up[n]).type = type}
    IN  IF at = {} THEN None ELSE up[Max(at)]

ValidSource(reg) ==
    LET Known(x) == x = None \/ x \in Ids(reg.spaces)
    IN  /\ Unique(reg.spaces) /\ Unique(reg.equipment) /\ Unique(reg.points)
        /\ \A s \in ToSet(reg.spaces) : Known(s.parent) /\ Rooted(reg.spaces, s.id)
        /\ \A e \in ToSet(reg.equipment) :
             /\ Known(e.property) /\ Known(e.installed)
             /\ Known(e.served) /\ Known(e.scope)
             /\ e.served # None => e.type = "AHU"
        /\ \A p \in ToSet(reg.points) : p.owner \in Ids(reg.equipment)

-----------------------------------------------------------------------------
(* seed_inventory.                                                         *)

(* Variant: ON CONFLICT DO NOTHING.                                        *)
Upsert_Keeps(table, rows) ==
    [x \in DOMAIN table \cup Ids(rows) |->
        IF x \in DOMAIN table THEN table[x] ELSE RowOf(rows, x)]

(* ON CONFLICT (entity_id) DO UPDATE; rows no register names any more stay.*)
Upsert(table, rows) ==
    [x \in DOMAIN table \cup Ids(rows) |->
        IF x \in Ids(rows) THEN RowOf(rows, x) ELSE table[x]]

(* The metadata of an asset holds the floor its context space lies on.     *)
WithContext(reg, e) ==
    LET space == IF e.served # None THEN e.served
                 ELSE IF e.scope # None THEN e.scope ELSE e.installed
    IN  [ id |-> e.id, type |-> e.type, building |-> e.property,
          floor |-> ContextOf(reg.spaces, space, "Floor") ]

EquipmentRows(reg) ==
    [i \in DOMAIN reg.equipment |-> WithContext(reg, reg.equipment[i])]

SpaceTypes     == {"Building", "Floor", "HVAC Zone", "Room"}
EquipmentTypes == {"AHU", "IAQ Sensor", "Electricity Meter"}

(* What makes a statement of the import fail: a type without a Brick       *)
(* class, an edge to no entity, UNIQUE (owner_equipment_id, source_name).  *)
Importable(db, reg) ==
    /\ \A s \in ToSet(reg.spaces) : s.type \in SpaceTypes
    /\ \A e \in ToSet(reg.equipment) : e.type \in EquipmentTypes /\ e.property # None
    /\ \A i \in DOMAIN reg.points :
         LET row    == reg.points[i]
             before == Upsert(db.points, SubSeq(reg.points, 1, i - 1))
         IN  \A x \in DOMAIN before \ {row.id} :
               <<before[x].owner, before[x].name>> # <<row.owner, row.name>>

Both(x, part) == {<<x, "hasPart", part>>, <<part, "isPartOf", x>>}

(* Variant: the zone an AHU feeds is the space it is installed in.         *)
EquipmentEdges_FeedsLocation(e) ==
    Both(e.property, e.id) \cup
    {edge \in { <<e.id, "hasLocation", e.installed>>,
                <<e.installed, "isLocationOf", e.id>>,
                <<e.id, "feeds", IF e.served = None THEN None ELSE e.installed>>,
                <<e.id, "meters", e.scope>> } : None \notin {edge[1], edge[3]}}

EquipmentEdges(e) ==
    Both(e.property, e.id) \cup
    {edge \in { <<e.id, "hasLocation", e.installed>>,
                <<e.installed, "isLocationOf", e.id>>,
                <<e.id, "feeds", e.served>>,
                <<e.id, "meters", e.scope>> } : None \notin {edge[1], edge[3]}}

Edges(reg) ==
    (UNION {Both(s.parent, s.id) : s \in {x \in ToSet(reg.spaces) : x.parent # None}})
    \cup (UNION {EquipmentEdges(e) : e \in ToSet(reg.equipment)})
    \cup {<<p.owner, "hasPoint", p.id>> : p \in ToSet(reg.points)}

(* The tables after the import: ON CONFLICT DO NOTHING keeps every edge.   *)
Seeded(db, reg) ==
    [ spaces    |-> Upsert(db.spaces, reg.spaces),
      equipment |-> Upsert(db.equipment, EquipmentRows(reg)),
      points    |-> Upsert(db.points, reg.points),
      edges     |-> db.edges \cup Edges(reg) ]

-----------------------------------------------------------------------------
(* The pieces queries are made of.                                         *)

Objects(db, x, predicate) ==
    {e[3] : e \in {edge \in db.edges : edge[1] = x /\ edge[2] = predicate}}

Subjects(db, predicate, x) ==
    {e[1] : e \in {edge \in db.edges : edge[3] = x /\ edge[2] = predicate}}

(* A column of the spaces table after a LEFT JOIN.                         *)
Column(db, x, field) == IF x \in DOMAIN db.spaces THEN db.spaces[x][field] ELSE None

Equipment(db, type) == {x \in DOMAIN db.equipment : db.equipment[x].type = type}

Rooms(db, zone) ==
    {x \in Objects(db, zone, "hasPart") : Column(db, x, "type") = "Room"}

PointNames(db, x) == {db.points[p].name : p \in Objects(db, x, "hasPoint")}

OrNone(set) == IF set = {} THEN {None} ELSE set

(* LEFT JOIN: every path goes on along every edge, or with None.           *)
Along(db, paths, predicate) ==
    UNION {{Append(path, x) : x \in OrNone(Objects(db, Last(path), predicate))} :
              path \in paths}

(* <<AHU, zone, floor, property>>.                                         *)
Routes(db, ahu) ==
    Along(db, Along(db, Along(db, {<<ahu>>}, "feeds"), "isPartOf"), "isPartOf")

-----------------------------------------------------------------------------
(* The readers.                                                            *)

Fact(db, route, location) ==
    [ ahu |-> route[1], zone |-> route[2], floor |-> route[3],
      property |-> route[4], location |-> location,
      property_type |-> Column(db, route[4], "property_type"),
      usage  |-> Column(db, route[2], "usage"),
      rooms  |-> {[id |-> x, usage |-> Column(db, x, "usage")] : x \in Rooms(db, route[2])},
      points |-> PointNames(db, route[1]) ]

(* One row for every combination of edges, so an AHU with two zones has    *)
(* two.                                                                    *)
TargetFacts(db) ==
    UNION {{Fact(db, route, location) :
                route \in Routes(db, ahu),
                location \in OrNone(Objects(db, ahu, "hasLocation"))} :
              ahu \in Equipment(db, "AHU")}

(* The ontology that module TargetPreview looks at.                        *)
View(db) ==
    [ spaces |-> [x \in DOMAIN db.spaces |-> db.spaces[x].type],
      facts  |-> TargetFacts(db) ]

(* equipment_topology takes the first row of each query, in no order.      *)
Topologies(db, x) ==
    UNION {{[ location |-> location, zone |-> zone, rooms |-> Rooms(db, zone),
              points |-> Objects(db, x, "hasPoint") ] :
                location \in OrNone(Objects(db, x, "hasLocation"))} :
              zone \in OrNone(Objects(db, x, "feeds"))}

(* portfolio: the places <<building, floor, zone, AHU>> of the tree.       *)
Portfolio(db) ==
    LET Typed(x, type) == Column(db, x, "type") = type
        Parts(x, type) == {s \in Subjects(db, "isPartOf", x) : Typed(s, type)}
        Ahus(zone)     == Subjects(db, "feeds", zone) \cap Equipment(db, "AHU")
        Under(b)       ==
            UNION {UNION {{<<b, f, z, a>> : a \in Ahus(z)} : z \in Parts(f, "HVAC Zone")} :
                      f \in Parts(b, "Floor")}
    IN  UNION {Under(b) : b \in {x \in DOMAIN db.spaces : Typed(x, "Building")}}

(* The rows an issue of an AHU contributes to the counts of a building.    *)
CountedRows(db, ahu, building) == {route \in Routes(db, ahu) : route[4] = building}

(* equipment_context: the devices that measure the rooms and the floor of  *)
(* the zone, with the space they measure.                                  *)
DevicesOn(db, spaces, type) ==
    UNION {{<<x, s>> : x \in Subjects(db, "meters", s) \cap Equipment(db, type)} :
              s \in spaces}

EquipmentContext(db, ahu) ==
    LET zones == Objects(db, ahu, "feeds")
    IN  [ room_iaq     |-> DevicesOn(db, UNION {Objects(db, z, "hasPart") : z \in zones},
                                     "IAQ Sensor"),
          floor_meters |-> DevicesOn(db, UNION {Objects(db, z, "isPartOf") : z \in zones},
                                     "Electricity Meter") ]

(* search_ontology.                                                        *)
Discovery(db) ==
    LET listed == {x \in DOMAIN db.spaces : db.spaces[x].type \in {"Building", "Floor"}}
        zones  == {x \in DOMAIN db.spaces : /\ db.spaces[x].type = "HVAC Zone"
                                            /\ db.spaces[x].usage # None}
        Above(x) == Objects(db, x, "isPartOf")
        Buildings(zone) == {b \in UNION {Above(f) : f \in Above(zone)} : b \in DOMAIN db.spaces}
    IN  [ spaces |->
            UNION {{[ id |-> x, name |-> db.spaces[x].name, type |-> db.spaces[x].type,
                      parent |-> parent ] : parent \in OrNone(Above(x))} : x \in listed},
          served_usages |->
            UNION {{[ usage |-> db.spaces[z].usage, property |-> b,
                      property_usage |-> db.spaces[b].usage ] : b \in Buildings(z)} : z \in zones} ]
=============================================================================
