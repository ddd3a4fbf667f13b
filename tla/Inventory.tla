------------------------------ MODULE Inventory ------------------------------
(***************************************************************************)
(* The inventory over time: the seed is run again and again, with          *)
(* registers that change in between, and with or without --reset.  Two     *)
(* transactions write: reset_inventory, after which the process may die or *)
(* the seed be refused, and seed_inventory, which writes all or nothing.   *)
(***************************************************************************)
EXTENDS Ontology, ScopeResolution, TargetPreview

CONSTANTS
    Registers,   \* what the CSV files may say, valid or not
    Queries      \* the words of interpretations

(* The rows of a file, none of them without an id.                         *)
IsTable(rows) == rows \in Seq(ToSet(rows)) /\ None \notin Ids(rows)

(* Ids are unique in ontology_entities, so a space and an asset have       *)
(* different ones; an empty field is none of the names of the types.       *)
ASSUME RegisterAssumption ==
    /\ None \notin SpaceTypes
    /\ \A reg \in Registers :
         /\ IsTable(reg.spaces) /\ IsTable(reg.equipment) /\ IsTable(reg.points)
         /\ \A other \in Registers : Ids(reg.spaces) \cap Ids(other.equipment) = {}

VARIABLES
    db,
    newest       \* history: the register imported last since a reset, or None

inventoryVars == <<db, newest>>

InventoryInit ==
    /\ db = EmptyDb
    /\ newest = None

(* python -m afdd.seed; a register that is refused leaves no trace.        *)
Seed(reg) ==
    IF ValidSource(reg) /\ Importable(db, reg)
    THEN db' = Seeded(db, reg) /\ newest' = reg
    ELSE UNCHANGED inventoryVars

ResetInventory ==
    /\ db' = EmptyDb
    /\ newest' = None

InventoryNext ==
    \/ \E reg \in Registers : Seed(reg)
    \/ ResetInventory

InventorySpec == InventoryInit /\ [][InventoryNext]_inventoryVars

-----------------------------------------------------------------------------
(* What a register says of one of its AHUs, read without the database.     *)

AhusOf(reg) == {e \in ToSet(reg.equipment) : e.type = "AHU"}

Said(reg, x, field) ==
    IF x \in Ids(reg.spaces) THEN RowOf(reg.spaces, x)[field] ELSE None

RoomsOf(reg, zone) ==
    {s \in ToSet(reg.spaces) : zone # None /\ s.parent = zone /\ s.type = "Room"}

Home(reg, e) ==
    LET floor    == Said(reg, e.served, "parent")
        property == Said(reg, floor, "parent")
    IN  [ ahu |-> e.id, zone |-> e.served, floor |-> floor,
          property |-> property, location |-> e.installed,
          property_type |-> Said(reg, property, "property_type"),
          usage  |-> Said(reg, e.served, "usage"),
          rooms  |-> {[id |-> s.id, usage |-> s.usage] : s \in RoomsOf(reg, e.served)},
          points |-> {p.name : p \in {q \in ToSet(reg.points) : q.owner = e.id}} ]

(* The spaces that lie directly in one, whatever their type.               *)
PartsOf(reg, zone) == {s \in ToSet(reg.spaces) : zone # None /\ s.parent = zone}

(* The devices that measure one of a set of spaces.                        *)
Measuring(reg, spaces, type) ==
    {<<e.id, e.scope>> : e \in {x \in ToSet(reg.equipment) :
                                   x.type = type /\ x.scope \in spaces}}

(* A home on the plan building, floor, zone.                               *)
Placed(reg, h) ==
    /\ Said(reg, h.zone, "type") = "HVAC Zone"
    /\ Said(reg, h.floor, "type") = "Floor"
    /\ Said(reg, h.property, "type") = "Building"

-----------------------------------------------------------------------------
(* Properties.                                                             *)

(* The readers see this home of the AHU and no other.                      *)
SeenAt(reg, h) ==
    /\ {f \in TargetFacts(db) : f.ahu = h.ahu} = {h}
    /\ {[location |-> t.location, zone |-> t.zone] : t \in Topologies(db, h.ahu)}
           = {[location |-> h.location, zone |-> h.zone]}
    /\ {place \in Portfolio(db) : place[4] = h.ahu}
           = IF Placed(reg, h) THEN {<<h.property, h.floor, h.zone, h.ahu>>} ELSE {}
    /\ h.property # None => Cardinality(CountedRows(db, h.ahu, h.property)) = 1
    /\ Placed(reg, h) /\ Said(reg, h.property, "parent") = None
           => db.equipment[h.ahu].floor = h.floor
    /\ LET context == EquipmentContext(db, h.ahu)
       IN  /\ context.room_iaq = Measuring(reg, {s.id : s \in PartsOf(reg, h.zone)}, "IAQ Sensor")
           /\ context.floor_meters = Measuring(reg, {h.floor} \ {None}, "Electricity Meter")

(* As long as registers change attributes only and no relation, the rule   *)
(* preview, the topology, the portfolio with its issue counts, the context *)
(* and the stored metadata, each of which joins the edges its own way,     *)
(* place every AHU where the last register says, once                      *)
(* (docs/architecture.md:70-79).  The metadata is the one of them that is  *)
(* no join: it names the topmost floor above the AHU, which is the floor   *)
(* of the others where the building has nothing above it.                  *)
ReadersAgree ==
    newest # None /\ db.edges = Edges(newest)
        => \A e \in AhusOf(newest) : SeenAt(newest, Home(newest, e))

(* Whatever was imported before, the place the last register gives an AHU  *)
(* is among the rows a rule preview reads, with current names, usages and  *)
(* types, and with all its rooms and points: stale relations add rows and  *)
(* never hide a place.                                                     *)
NewestIsVisible ==
    newest # None => \A e \in AhusOf(newest) :
        LET h == Home(newest, e)
        IN  None \notin {h.zone, h.floor, h.property, h.location} =>
            \E f \in TargetFacts(db) :
                /\ h.rooms \subseteq f.rooms
                /\ h.points \subseteq f.points
                /\ f = [h EXCEPT !.rooms = f.rooms, !.points = f.points]

(* A draft made of words covers what the words name and nothing else: each *)
(* word names one property, floor or usage of the draft, each property was *)
(* named, each floor lies in one of the properties and was named unless no *)
(* floor was, and the references hold, whatever the inventory has become.  *)
WordsDecideTheScope ==
    LET disc == Discovery(db)
    IN  \A query \in Queries : Outcome(disc, query) = "DRAFT" =>
          LET d         == ScopeOf(disc, query)
              Called(x, word) == word \in {x, db.spaces[x].name}
              Lies(f)   == Objects(db, f, "isPartOf") \cap d.properties # {}
          IN  /\ ReferencesHold(View(db), d)
              /\ \A word \in Words(query) :
                   \/ /\ Cardinality({x \in d.properties \cup d.floors : Called(x, word)}) = 1
                   \/ UsageMatches(disc, word) # {} /\ UsageMatches(disc, word) \subseteq d.zone_usages
              /\ \A p \in d.properties : \E word \in Words(query) : Called(p, word)
              /\ \A f \in d.floors :
                   /\ Lies(f)
                   /\ query.floors # {} => \E word \in Words(query) : Called(f, word)
=============================================================================
