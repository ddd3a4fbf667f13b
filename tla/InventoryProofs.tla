---------------------------- MODULE InventoryProofs ----------------------------
(***************************************************************************)
(* Proofs about Inventory for any registers and any words: whatever was    *)
(* imported before, nothing the last register says is hidden; while no     *)
(* relation has changed, all readers place an AHU alike; and a draft made  *)
(* of words covers what they name.                                         *)
(***************************************************************************)
EXTENDS Inventory, FiniteSetTheorems, SequenceTheorems, WellFoundedInduction, TLAPS

-----------------------------------------------------------------------------
(* The inductive invariant.                                                *)

(* A table has what the rows say.                                          *)
Holds(table, rows) ==
    \A x \in Ids(rows) : x \in DOMAIN table /\ table[x] = RowOf(rows, x)

(* Nothing that the last register said has been lost.                      *)
Remembers(reg) ==
    /\ ValidSource(reg)
    /\ \A e \in ToSet(reg.equipment) : e.property # None
    /\ Holds(db.spaces, reg.spaces)
    /\ Holds(db.equipment, EquipmentRows(reg))
    /\ Holds(db.points, reg.points)
    /\ Edges(reg) \subseteq db.edges

InventoryInv ==
    /\ newest = None \/ newest \in Registers
    /\ newest # None => Remembers(newest)
    /\ IsFiniteSet(DOMAIN db.spaces)
    /\ DOMAIN db.spaces \subseteq UNION {Ids(reg.spaces) : reg \in Registers}

-----------------------------------------------------------------------------
(* Rows and tables.                                                        *)

(* With ids that are all there and all different, an id is a row.          *)
LEMMA RowsAreUnique ==
    ASSUME NEW rows, IsTable(rows), Unique(rows)
    PROVE  /\ IsFiniteSet(Ids(rows))
           /\ \A r \in ToSet(rows) : r.id \in Ids(rows) /\ RowOf(rows, r.id) = r
           /\ \A x \in Ids(rows) : /\ RowOf(rows, x) \in ToSet(rows)
                                   /\ RowOf(rows, x).id = x
                                   /\ x # None
<1>1. Len(rows) \in Nat /\ DOMAIN rows = 1..Len(rows)
  BY DEF IsTable
<1> DEFINE ids == [i \in 1..Len(rows) |-> rows[i].id]
<1>2. ids \in Surjection(1..Len(rows), Ids(rows))
  <2>1. ids \in [1..Len(rows) -> Ids(rows)]
    BY <1>1 DEF Ids
  <2>2. \A x \in Ids(rows) : \E i \in 1..Len(rows) : ids[i] = x
    BY <1>1 DEF Ids
  <2> HIDE DEF ids
  <2> QED
    BY <2>1, <2>2 DEF Surjection
<1>3. IsFiniteSet(1..Len(rows)) /\ Cardinality(1..Len(rows)) = Len(rows)
  <2> DEFINE n == Len(rows)
  <2>1. n \in Nat
    BY <1>1
  <2> HIDE DEF n
  <2>2. IsFiniteSet(1..n) /\ Cardinality(1..n) = IF 1 > n THEN 0 ELSE n - 1 + 1
    BY <2>1, FS_Interval
  <2>3. Cardinality(1..n) = n
    BY <2>1, <2>2
  <2> QED
    BY <2>2, <2>3 DEF n
<1>4. IsFiniteSet(Ids(rows)) /\ ids \in Injection(1..Len(rows), Ids(rows))
  <2> HIDE DEF ids
  <2> QED
    BY <1>2, <1>3, FS_Surjection DEF Unique
<1>5. \A i, j \in DOMAIN rows : rows[i].id = rows[j].id => i = j
  <2>1. \A i, j \in 1..Len(rows) : ids[i] = ids[j] => i = j
    <3> HIDE DEF ids
    <3> QED
      BY <1>4 DEF Injection, IsInjective
  <2> QED
    BY <1>1, <2>1
<1>6. \A i \in DOMAIN rows : RowOf(rows, rows[i].id) = rows[i]
  BY <1>5 DEF RowOf
<1> QED
  BY <1>4, <1>6 DEF ToSet, Ids, IsTable

LEMMA TablesAreSequences ==
    ASSUME NEW rows, IsTable(rows)
    PROVE  /\ Len(rows) \in Nat /\ DOMAIN rows = 1..Len(rows)
           /\ None \notin Ids(rows)
BY DEF IsTable

(* The rows an import writes for assets are those of the register.         *)
LEMMA EquipmentRowsAreUnique ==
    ASSUME NEW reg, IsTable(reg.equipment), Unique(reg.equipment)
    PROVE  /\ Ids(EquipmentRows(reg)) = Ids(reg.equipment)
           /\ \A e \in ToSet(reg.equipment) :
                RowOf(EquipmentRows(reg), e.id) = WithContext(reg, e)
<1> DEFINE rows == EquipmentRows(reg)
<1>1. /\ DOMAIN rows = DOMAIN reg.equipment
      /\ \A i \in DOMAIN reg.equipment : /\ rows[i] = WithContext(reg, reg.equipment[i])
                                         /\ rows[i].id = reg.equipment[i].id
  BY DEF EquipmentRows, WithContext
<1> HIDE DEF rows
<1>2. Ids(rows) = Ids(reg.equipment)
  BY <1>1 DEF Ids
<1>3. ASSUME NEW e \in ToSet(reg.equipment)
      PROVE  RowOf(rows, e.id) = WithContext(reg, e)
  <2>1. PICK i \in DOMAIN reg.equipment : reg.equipment[i] = e
    BY DEF ToSet
  <2> DEFINE j == CHOOSE n \in DOMAIN rows : rows[n].id = e.id
  <2>2. j \in DOMAIN rows /\ rows[j].id = e.id
    BY <1>1, <2>1
  <2>3. reg.equipment[j] \in ToSet(reg.equipment) /\ reg.equipment[j].id = e.id
    BY <1>1, <2>2 DEF ToSet
  <2>4. reg.equipment[j] = e
    BY <2>3, RowsAreUnique
  <2>5. RowOf(rows, e.id) = rows[j]
    BY DEF RowOf
  <2> HIDE DEF j
  <2> QED
    BY <1>1, <2>2, <2>4, <2>5
<1> QED
  BY <1>2, <1>3 DEF rows

(* An import leaves the rows it wrote.                                     *)
LEMMA UpsertHolds ==
    ASSUME NEW table, NEW rows
    PROVE  /\ Holds(Upsert(table, rows), rows)
           /\ DOMAIN Upsert(table, rows) = DOMAIN table \cup Ids(rows)
BY DEF Holds, Upsert

-----------------------------------------------------------------------------
(* The edges of a register, one kind of relation at a time.                *)

Parented(reg) == {x \in ToSet(reg.spaces) : x.parent # None}

(* Where an edge comes from.                                               *)
LEMMA EdgeSource ==
    ASSUME NEW reg, NEW edge
    PROVE  edge \in Edges(reg) <=>
             \/ \E s \in Parented(reg) : edge \in Both(s.parent, s.id)
             \/ \E e \in ToSet(reg.equipment) : edge \in EquipmentEdges(e)
             \/ \E p \in ToSet(reg.points) : edge = <<p.owner, "hasPoint", p.id>>
<1> DEFINE spaces    == UNION {Both(s.parent, s.id) : s \in Parented(reg)}
           equipment == UNION {EquipmentEdges(e) : e \in ToSet(reg.equipment)}
           points    == {<<p.owner, "hasPoint", p.id>> : p \in ToSet(reg.points)}
<1>1. edge \in spaces <=> \E s \in Parented(reg) : edge \in Both(s.parent, s.id)
  BY Zenon
<1>2. edge \in equipment <=> \E e \in ToSet(reg.equipment) : edge \in EquipmentEdges(e)
  BY Zenon
<1>3. edge \in points <=> \E p \in ToSet(reg.points) : edge = <<p.owner, "hasPoint", p.id>>
  BY Zenon
<1>4. Edges(reg) = spaces \cup equipment \cup points
  BY Zenon DEF Edges, Parented
<1> HIDE DEF spaces, equipment, points
<1> QED
  BY <1>1, <1>2, <1>3, <1>4, Zenon

LEMMA EquipmentEdge ==
    ASSUME NEW e, NEW x, NEW predicate, NEW y
    PROVE  <<x, predicate, y>> \in EquipmentEdges(e) <=>
             \/ x = e.property /\ predicate = "hasPart" /\ y = e.id
             \/ x = e.id /\ predicate = "isPartOf" /\ y = e.property
             \/ /\ x # None /\ y # None
                /\ \/ x = e.id /\ predicate = "hasLocation" /\ y = e.installed
                   \/ x = e.installed /\ predicate = "isLocationOf" /\ y = e.id
                   \/ x = e.id /\ predicate = "feeds" /\ y = e.served
                   \/ x = e.id /\ predicate = "meters" /\ y = e.scope
<1> DEFINE edge == <<x, predicate, y>>
           some == { <<e.id, "hasLocation", e.installed>>,
                     <<e.installed, "isLocationOf", e.id>>,
                     <<e.id, "feeds", e.served>>,
                     <<e.id, "meters", e.scope>> }
<1>1. edge \in Both(e.property, e.id) <=>
        \/ x = e.property /\ predicate = "hasPart" /\ y = e.id
        \/ x = e.id /\ predicate = "isPartOf" /\ y = e.property
  BY DEF Both
<1>2. edge \in some <=>
        \/ x = e.id /\ predicate = "hasLocation" /\ y = e.installed
        \/ x = e.installed /\ predicate = "isLocationOf" /\ y = e.id
        \/ x = e.id /\ predicate = "feeds" /\ y = e.served
        \/ x = e.id /\ predicate = "meters" /\ y = e.scope
  OBVIOUS
<1>3. edge[1] = x /\ edge[3] = y
  OBVIOUS
<1>4. edge \in EquipmentEdges(e) <=>
        \/ edge \in Both(e.property, e.id)
        \/ edge \in some /\ None \notin {edge[1], edge[3]}
  <2> HIDE DEF edge
  <2> QED
    BY DEF EquipmentEdges
<1> QED
  BY <1>1, <1>2, <1>3, <1>4

(* Any edge, from what it says.                                            *)
LEMMA EdgesAre ==
    ASSUME NEW reg, NEW x, NEW predicate, NEW y
    PROVE  <<x, predicate, y>> \in Edges(reg) <=>
             \/ \E s \in Parented(reg) :
                  \/ x = s.parent /\ predicate = "hasPart" /\ y = s.id
                  \/ x = s.id /\ predicate = "isPartOf" /\ y = s.parent
             \/ \E e \in ToSet(reg.equipment) : <<x, predicate, y>> \in EquipmentEdges(e)
             \/ \E p \in ToSet(reg.points) :
                  x = p.owner /\ predicate = "hasPoint" /\ y = p.id
<1>1. \A s \in Parented(reg) :
        <<x, predicate, y>> \in Both(s.parent, s.id) <=>
          \/ x = s.parent /\ predicate = "hasPart" /\ y = s.id
          \/ x = s.id /\ predicate = "isPartOf" /\ y = s.parent
  BY DEF Both
<1>2. \A p \in ToSet(reg.points) :
        <<x, predicate, y>> = <<p.owner, "hasPoint", p.id>> <=>
          x = p.owner /\ predicate = "hasPoint" /\ y = p.id
  OBVIOUS
<1> QED
  BY <1>1, <1>2, EdgeSource

(* What each relation says.                                                *)
LEMMA FeedsSays ==
    ASSUME NEW reg, NEW x, NEW y
    PROVE  <<x, "feeds", y>> \in Edges(reg) <=>
             x # None /\ y # None /\ \E e \in ToSet(reg.equipment) : x = e.id /\ y = e.served
BY EdgesAre, EquipmentEdge

LEMMA LocationSays ==
    ASSUME NEW reg, NEW x, NEW y
    PROVE  <<x, "hasLocation", y>> \in Edges(reg) <=>
             x # None /\ y # None /\ \E e \in ToSet(reg.equipment) : x = e.id /\ y = e.installed
BY EdgesAre, EquipmentEdge

LEMMA MetersSays ==
    ASSUME NEW reg, NEW x, NEW y
    PROVE  <<x, "meters", y>> \in Edges(reg) <=>
             x # None /\ y # None /\ \E e \in ToSet(reg.equipment) : x = e.id /\ y = e.scope
BY EdgesAre, EquipmentEdge

LEMMA PointSays ==
    ASSUME NEW reg, NEW x, NEW y
    PROVE  <<x, "hasPoint", y>> \in Edges(reg) <=>
             \E p \in ToSet(reg.points) : x = p.owner /\ y = p.id
BY EdgesAre, EquipmentEdge

LEMMA PartSays ==
    ASSUME NEW reg, NEW x, NEW y
    PROVE  <<x, "isPartOf", y>> \in Edges(reg) <=>
             \/ \E s \in Parented(reg) : x = s.id /\ y = s.parent
             \/ \E e \in ToSet(reg.equipment) : x = e.id /\ y = e.property
BY EdgesAre, EquipmentEdge

LEMMA PartIsWhole ==
    ASSUME NEW reg, NEW x, NEW y
    PROVE  <<y, "hasPart", x>> \in Edges(reg) <=> <<x, "isPartOf", y>> \in Edges(reg)
<1>1. <<y, "hasPart", x>> \in Edges(reg) <=>
        \/ \E s \in Parented(reg) : x = s.id /\ y = s.parent
        \/ \E e \in ToSet(reg.equipment) : x = e.id /\ y = e.property
  BY EdgesAre, EquipmentEdge
<1> QED
  BY <1>1, PartSays

-----------------------------------------------------------------------------
(* The invariant.                                                          *)

LEMMA RegistersAreTables ==
    ASSUME NEW reg \in Registers, ValidSource(reg)
    PROVE  /\ IsTable(reg.spaces) /\ Unique(reg.spaces)
           /\ IsTable(reg.equipment) /\ Unique(reg.equipment)
           /\ IsTable(reg.points) /\ Unique(reg.points)
BY RegisterAssumption DEF ValidSource

(* The import of a register makes the database remember it.                *)
LEMMA SeedRemembers ==
    ASSUME NEW reg \in Registers, InventoryInv, ValidSource(reg), Importable(db, reg),
           db' = Seeded(db, reg), newest' = reg
    PROVE  InventoryInv'
<1>1. /\ db'.spaces = Upsert(db.spaces, reg.spaces)
      /\ db'.equipment = Upsert(db.equipment, EquipmentRows(reg))
      /\ db'.points = Upsert(db.points, reg.points)
      /\ db'.edges = db.edges \cup Edges(reg)
  BY DEF Seeded
<1>2. Remembers(reg)'
  <2>1. /\ Holds(db'.spaces, reg.spaces)
        /\ Holds(db'.equipment, EquipmentRows(reg))
        /\ Holds(db'.points, reg.points)
    <3>1. /\ Holds(Upsert(db.spaces, reg.spaces), reg.spaces)
          /\ Holds(Upsert(db.equipment, EquipmentRows(reg)), EquipmentRows(reg))
          /\ Holds(Upsert(db.points, reg.points), reg.points)
      BY UpsertHolds
    <3> QED
      BY <1>1, <3>1
  <2>2. \A e \in ToSet(reg.equipment) : e.property # None
    BY DEF Importable
  <2>3. Edges(reg) \subseteq db'.edges
    BY <1>1
  <2> QED
    BY <2>1, <2>2, <2>3 DEF Remembers
<1>3. Remembers(newest)'
  BY <1>2
<1>4. DOMAIN db'.spaces = DOMAIN db.spaces \cup Ids(reg.spaces)
  BY <1>1, UpsertHolds
<1>5. IsFiniteSet(Ids(reg.spaces)) /\ IsFiniteSet(DOMAIN db.spaces)
  BY RegistersAreTables, RowsAreUnique DEF InventoryInv
<1>6. IsFiniteSet(DOMAIN db'.spaces)
  BY <1>4, <1>5, FS_Union
<1>7. DOMAIN db'.spaces \subseteq UNION {Ids(r.spaces) : r \in Registers}
  BY <1>4 DEF InventoryInv
<1> QED
  BY <1>3, <1>6, <1>7 DEF InventoryInv

LEMMA EmptyRemembersNothing ==
    ASSUME newest = None, db = EmptyDb
    PROVE  InventoryInv
<1>1. db.spaces = <<>>
  BY DEF EmptyDb
<1>2. DOMAIN db.spaces = {}
  BY <1>1
<1> QED
  BY <1>2, FS_EmptySet DEF InventoryInv

(* However often registers are imported over one another or the inventory  *)
(* is reset (seed_inventory, reset_inventory), the columns are those of    *)
(* the last register, all its edges are there, and the table of spaces     *)
(* holds nothing that no register has.                                     *)
THEOREM InventoryInvHolds == InventorySpec => []InventoryInv
<1>1. InventoryInit => InventoryInv
  BY EmptyRemembersNothing DEF InventoryInit
<1>2. InventoryInv /\ [InventoryNext]_inventoryVars => InventoryInv'
  <2> SUFFICES ASSUME InventoryInv, [InventoryNext]_inventoryVars
               PROVE  InventoryInv'
    OBVIOUS
  <2>1. ASSUME NEW reg \in Registers, Seed(reg)
        PROVE  InventoryInv'
    <3>1. CASE ValidSource(reg) /\ Importable(db, reg)
      BY <2>1, <3>1, SeedRemembers DEF Seed
    <3>2. CASE ~(ValidSource(reg) /\ Importable(db, reg))
      <4>1. db' = db /\ newest' = newest
        BY <2>1, <3>2 DEF Seed, inventoryVars
      <4> QED
        BY <4>1 DEF InventoryInv, Remembers
    <3> QED
      BY <3>1, <3>2
  <2>2. CASE ResetInventory
    <3>1. db' = EmptyDb /\ newest' = None
      BY <2>2 DEF ResetInventory
    <3>2. db'.spaces = <<>>
      BY <3>1 DEF EmptyDb
    <3>3. DOMAIN db'.spaces = {}
      BY <3>2
    <3> QED
      BY <3>1, <3>3, FS_EmptySet DEF InventoryInv
  <2>3. CASE UNCHANGED inventoryVars
    BY <2>3 DEF InventoryInv, Remembers, inventoryVars
  <2> QED
    BY <2>1, <2>2, <2>3 DEF InventoryNext
<1> QED
  BY <1>1, <1>2, PTL DEF InventorySpec

-----------------------------------------------------------------------------
(* What a valid register says, and what the tables say after it.           *)

(* The parent of a space is a space, and an edge leads to it.              *)
LEMMA ParentIsThere ==
    ASSUME NEW reg \in Registers, ValidSource(reg), NEW x,
           Said(reg, x, "parent") # None
    PROVE  /\ x \in Ids(reg.spaces)
           /\ Said(reg, x, "parent") \in Ids(reg.spaces)
           /\ <<x, "isPartOf", Said(reg, x, "parent")>> \in Edges(reg)
<1>1. x \in Ids(reg.spaces) /\ Said(reg, x, "parent") = RowOf(reg.spaces, x).parent
  BY DEF Said
<1>2. RowOf(reg.spaces, x) \in ToSet(reg.spaces) /\ RowOf(reg.spaces, x).id = x
  BY <1>1, RegistersAreTables, RowsAreUnique
<1>3. RowOf(reg.spaces, x) \in Parented(reg)
  BY <1>1, <1>2 DEF Parented
<1>4. RowOf(reg.spaces, x).parent \in Ids(reg.spaces)
  BY <1>1, <1>2 DEF ValidSource
<1> QED
  BY <1>1, <1>2, <1>3, <1>4, PartSays

(* So are the spaces an asset names.                                       *)
LEMMA PlacesAreThere ==
    ASSUME NEW reg \in Registers, ValidSource(reg), NEW e \in ToSet(reg.equipment)
    PROVE  /\ e.id # None
           /\ e.served # None => /\ e.served \in Ids(reg.spaces)
                                 /\ <<e.id, "feeds", e.served>> \in Edges(reg)
           /\ e.installed # None => /\ e.installed \in Ids(reg.spaces)
                                    /\ <<e.id, "hasLocation", e.installed>> \in Edges(reg)
           /\ e.scope # None => /\ e.scope \in Ids(reg.spaces)
                                /\ <<e.id, "meters", e.scope>> \in Edges(reg)
<1>1. e.id # None
  BY RegistersAreTables, RowsAreUnique
<1>2. /\ e.served # None => e.served \in Ids(reg.spaces)
      /\ e.installed # None => e.installed \in Ids(reg.spaces)
      /\ e.scope # None => e.scope \in Ids(reg.spaces)
  BY DEF ValidSource
<1> QED
  BY <1>1, <1>2, FeedsSays, LocationSays, MetersSays

(* The columns of a space the last register names are current.             *)
LEMMA ColumnIsCurrent ==
    ASSUME InventoryInv, newest # None, NEW x \in Ids(newest.spaces), NEW field
    PROVE  Column(db, x, field) = Said(newest, x, field)
<1>1. x \in DOMAIN db.spaces /\ db.spaces[x] = RowOf(newest.spaces, x)
  BY DEF InventoryInv, Remembers, Holds
<1> QED
  BY <1>1 DEF Column, Said

(* So is the row of an asset.                                              *)
LEMMA AssetIsCurrent ==
    ASSUME InventoryInv, newest # None, NEW e \in ToSet(newest.equipment)
    PROVE  /\ e.id \in DOMAIN db.equipment
           /\ db.equipment[e.id] = WithContext(newest, e)
           /\ \A type : e.id \in Equipment(db, type) <=> e.type = type
<1>1. newest \in Registers /\ ValidSource(newest)
  BY DEF InventoryInv, Remembers
<1>2. IsTable(newest.equipment) /\ Unique(newest.equipment)
  BY <1>1, RegistersAreTables
<1>3. e.id \in Ids(newest.equipment)
  BY <1>2, RowsAreUnique
<1>4. /\ e.id \in Ids(EquipmentRows(newest))
      /\ RowOf(EquipmentRows(newest), e.id) = WithContext(newest, e)
  BY <1>2, <1>3, EquipmentRowsAreUnique
<1>5. e.id \in DOMAIN db.equipment /\ db.equipment[e.id] = WithContext(newest, e)
  BY <1>4 DEF InventoryInv, Remembers, Holds
<1>6. WithContext(newest, e).type = e.type
  BY DEF WithContext
<1> QED
  BY <1>5, <1>6 DEF Equipment

(* And the name of a point.                                                *)
LEMMA PointIsCurrent ==
    ASSUME InventoryInv, newest # None, NEW p \in ToSet(newest.points)
    PROVE  db.points[p.id].name = p.name
<1>1. newest \in Registers /\ ValidSource(newest)
  BY DEF InventoryInv, Remembers
<1>2. p.id \in Ids(newest.points) /\ RowOf(newest.points, p.id) = p
  BY <1>1, RegistersAreTables, RowsAreUnique
<1> QED
  BY <1>2 DEF InventoryInv, Remembers, Holds

(* A space of the register is the row of its id.                           *)
LEMMA SpaceSays ==
    ASSUME NEW reg \in Registers, ValidSource(reg), NEW s \in ToSet(reg.spaces), NEW field
    PROVE  s.id \in Ids(reg.spaces) /\ Said(reg, s.id, field) = s[field]
<1>1. s.id \in Ids(reg.spaces) /\ RowOf(reg.spaces, s.id) = s
  BY RegistersAreTables, RowsAreUnique
<1> QED
  BY <1>1 DEF Said

-----------------------------------------------------------------------------
(* Nothing is hidden.                                                      *)

LEMMA ObjectIsThere ==
    ASSUME NEW d, NEW x, NEW predicate, NEW y, <<x, predicate, y>> \in d.edges
    PROVE  y \in Objects(d, x, predicate)
<1> DEFINE edge == <<x, predicate, y>>
<1>1. edge \in {e \in d.edges : e[1] = x /\ e[2] = predicate} /\ edge[3] = y
  OBVIOUS
<1> HIDE DEF edge
<1> QED
  BY <1>1 DEF Objects

LEMMA AlongEdge ==
    ASSUME NEW d, NEW paths, NEW predicate, NEW path \in paths,
           NEW y \in Objects(d, Last(path), predicate)
    PROVE  Append(path, y) \in Along(d, paths, predicate)
<1>1. y \in OrNone(Objects(d, Last(path), predicate))
  BY DEF OrNone
<1> QED
  BY <1>1 DEF Along

(* A path grows at its end.                                                *)
LEMMA PathOfTwo ==
    ASSUME NEW a, NEW z
    PROVE  Append(<<a>>, z) = <<a, z>>
<1> DEFINE S      == {a, z}
           longer == Append(<<a>>, z)
<1>1. <<a>> \in Seq(S) /\ <<a, z>> \in Seq(S) /\ z \in S
  OBVIOUS
<1> HIDE DEF S
<1>2. longer \in Seq(S) /\ Len(longer) = 2
  BY <1>1, AppendProperties
<1>3. \A i \in 1..2 : longer[i] = <<a, z>>[i]
  BY <1>1, AppendProperties
<1>4. Len(<<a, z>>) = 2
  OBVIOUS
<1> HIDE DEF longer
<1>5. longer = <<a, z>>
  BY <1>1, <1>2, <1>3, <1>4, SeqEqual
<1> QED
  BY <1>5 DEF longer

LEMMA PathOfThree ==
    ASSUME NEW a, NEW z, NEW f
    PROVE  Append(<<a, z>>, f) = <<a, z, f>>
<1> DEFINE S      == {a, z, f}
           longer == Append(<<a, z>>, f)
<1>1. <<a, z>> \in Seq(S) /\ <<a, z, f>> \in Seq(S) /\ f \in S
  OBVIOUS
<1> HIDE DEF S
<1>2. longer \in Seq(S) /\ Len(longer) = 3
  BY <1>1, AppendProperties
<1>3. \A i \in 1..3 : longer[i] = <<a, z, f>>[i]
  BY <1>1, AppendProperties
<1>4. Len(<<a, z, f>>) = 3
  OBVIOUS
<1> HIDE DEF longer
<1>5. longer = <<a, z, f>>
  BY <1>1, <1>2, <1>3, <1>4, SeqEqual
<1> QED
  BY <1>5 DEF longer

LEMMA PathOfFour ==
    ASSUME NEW a, NEW z, NEW f, NEW p
    PROVE  Append(<<a, z, f>>, p) = <<a, z, f, p>>
<1> DEFINE S      == {a, z, f, p}
           longer == Append(<<a, z, f>>, p)
<1>1. <<a, z, f>> \in Seq(S) /\ <<a, z, f, p>> \in Seq(S) /\ p \in S
  OBVIOUS
<1> HIDE DEF S
<1>2. longer \in Seq(S) /\ Len(longer) = 4
  BY <1>1, AppendProperties
<1>3. \A i \in 1..4 : longer[i] = <<a, z, f, p>>[i]
  BY <1>1, AppendProperties
<1>4. Len(<<a, z, f, p>>) = 4
  OBVIOUS
<1> HIDE DEF longer
<1>5. longer = <<a, z, f, p>>
  BY <1>1, <1>2, <1>3, <1>4, SeqEqual
<1> QED
  BY <1>5 DEF longer

(* Its end is where it goes on from.                                       *)
LEMMA EndOfOne ==
    ASSUME NEW a PROVE Last(<<a>>) = a
BY DEF Last

LEMMA EndOfTwo ==
    ASSUME NEW a, NEW z PROVE Last(<<a, z>>) = z
BY DEF Last

LEMMA EndOfThree ==
    ASSUME NEW a, NEW z, NEW f PROVE Last(<<a, z, f>>) = f
BY DEF Last

(* Three edges in a row are a route.                                       *)
LEMMA RouteIsThere ==
    ASSUME NEW d, NEW a, NEW z, NEW f, NEW p,
           <<a, "feeds", z>> \in d.edges,
           <<z, "isPartOf", f>> \in d.edges,
           <<f, "isPartOf", p>> \in d.edges
    PROVE  <<a, z, f, p>> \in Routes(d, a)
<1>1. /\ Last(<<a>>) = a /\ Append(<<a>>, z) = <<a, z>>
      /\ Last(<<a, z>>) = z /\ Append(<<a, z>>, f) = <<a, z, f>>
      /\ Last(<<a, z, f>>) = f /\ Append(<<a, z, f>>, p) = <<a, z, f, p>>
  BY PathOfTwo, PathOfThree, PathOfFour, EndOfOne, EndOfTwo, EndOfThree
<1> DEFINE first  == Along(d, {<<a>>}, "feeds")
           second == Along(d, first, "isPartOf")
           third  == Along(d, second, "isPartOf")
<1>2. <<a, z>> \in first
  BY <1>1, ObjectIsThere, AlongEdge
<1>3. <<a, z, f>> \in second
  <2> HIDE DEF first
  <2> QED
    BY <1>1, <1>2, ObjectIsThere, AlongEdge
<1>4. <<a, z, f, p>> \in third
  <2> HIDE DEF second
  <2> QED
    BY <1>1, <1>3, ObjectIsThere, AlongEdge
<1> QED
  BY <1>4 DEF Routes

(* The rooms of a zone and the points of an AHU are found.                 *)
LEMMA RoomsAreSeen ==
    ASSUME InventoryInv, newest # None, NEW zone
    PROVE  {[id |-> s.id, usage |-> s.usage] : s \in RoomsOf(newest, zone)}
             \subseteq {[id |-> x, usage |-> Column(db, x, "usage")] : x \in Rooms(db, zone)}
<1>1. newest \in Registers /\ ValidSource(newest) /\ Edges(newest) \subseteq db.edges
  BY DEF InventoryInv, Remembers
<1>2. ASSUME NEW s \in RoomsOf(newest, zone)
      PROVE  s.id \in Rooms(db, zone) /\ Column(db, s.id, "usage") = s.usage
  <2>1. s \in ToSet(newest.spaces) /\ zone # None /\ s.parent = zone /\ s.type = "Room"
    BY <1>2 DEF RoomsOf
  <2>2. <<zone, "hasPart", s.id>> \in db.edges
    BY <1>1, <2>1, PartSays, PartIsWhole DEF Parented
  <2>3. /\ Column(db, s.id, "type") = s.type
        /\ Column(db, s.id, "usage") = s.usage
    BY <1>1, <2>1, SpaceSays, ColumnIsCurrent
  <2> QED
    BY <2>1, <2>2, <2>3, ObjectIsThere DEF Rooms
<1> QED
  BY <1>2

LEMMA PointsAreSeen ==
    ASSUME InventoryInv, newest # None, NEW x
    PROVE  {p.name : p \in {q \in ToSet(newest.points) : q.owner = x}} \subseteq PointNames(db, x)
<1>1. newest \in Registers /\ ValidSource(newest) /\ Edges(newest) \subseteq db.edges
  BY DEF InventoryInv, Remembers
<1>2. ASSUME NEW p \in ToSet(newest.points), p.owner = x
      PROVE  p.id \in Objects(db, x, "hasPoint") /\ db.points[p.id].name = p.name
  BY <1>1, <1>2, PointSays, ObjectIsThere, PointIsCurrent
<1> QED
  BY <1>2 DEF PointNames

LEMMA TheNewestIsVisible ==
    ASSUME InventoryInv PROVE NewestIsVisible
<1> SUFFICES ASSUME newest # None, NEW e \in AhusOf(newest),
                    None \notin {Home(newest, e).zone, Home(newest, e).floor,
                                 Home(newest, e).property, Home(newest, e).location}
             PROVE  LET h == Home(newest, e)
                    IN  \E f \in TargetFacts(db) :
                          /\ h.rooms \subseteq f.rooms
                          /\ h.points \subseteq f.points
                          /\ f = [h EXCEPT !.rooms = f.rooms, !.points = f.points]
  BY DEF NewestIsVisible
<1> DEFINE zone     == e.served
           floor    == Said(newest, zone, "parent")
           property == Said(newest, floor, "parent")
           location == e.installed
           route    == <<e.id, zone, floor, property>>
           fact     == Fact(db, route, location)
           h        == Home(newest, e)
<1>1. newest \in Registers /\ ValidSource(newest) /\ Edges(newest) \subseteq db.edges
  BY DEF InventoryInv, Remembers
<1>2. e \in ToSet(newest.equipment) /\ e.type = "AHU"
  BY DEF AhusOf
<1>3. zone # None /\ floor # None /\ property # None /\ location # None
  BY DEF Home
<1>4. /\ zone \in Ids(newest.spaces) /\ property \in Ids(newest.spaces)
      /\ <<e.id, "feeds", zone>> \in db.edges
      /\ <<zone, "isPartOf", floor>> \in db.edges
      /\ <<floor, "isPartOf", property>> \in db.edges
      /\ <<e.id, "hasLocation", location>> \in db.edges
  BY <1>1, <1>2, <1>3, ParentIsThere, PlacesAreThere
<1>5. route \in Routes(db, e.id)
  BY <1>4, RouteIsThere
<1>6. location \in OrNone(Objects(db, e.id, "hasLocation"))
  BY <1>4, ObjectIsThere DEF OrNone
<1>7. e.id \in Equipment(db, "AHU")
  BY <1>2, AssetIsCurrent
<1>8. fact \in TargetFacts(db)
  <2> HIDE DEF route, location
  <2> QED
    BY <1>5, <1>6, <1>7 DEF TargetFacts
<1>9. /\ Column(db, property, "property_type") = Said(newest, property, "property_type")
      /\ Column(db, zone, "usage") = Said(newest, zone, "usage")
  BY <1>4, ColumnIsCurrent
<1>10. fact = [ ahu |-> e.id, zone |-> zone, floor |-> floor, property |-> property,
                location |-> location,
                property_type |-> Said(newest, property, "property_type"),
                usage  |-> Said(newest, zone, "usage"),
                rooms  |-> {[id |-> x, usage |-> Column(db, x, "usage")] : x \in Rooms(db, zone)},
                points |-> PointNames(db, e.id) ]
  <2>1. route[1] = e.id /\ route[2] = zone /\ route[3] = floor /\ route[4] = property
    OBVIOUS
  <2> HIDE DEF route, zone, floor, property, location
  <2> QED
    BY <1>9, <2>1 DEF Fact
<1>11. h = [ ahu |-> e.id, zone |-> zone, floor |-> floor, property |-> property,
             location |-> location,
             property_type |-> Said(newest, property, "property_type"),
             usage  |-> Said(newest, zone, "usage"),
             rooms  |-> {[id |-> s.id, usage |-> s.usage] : s \in RoomsOf(newest, zone)},
             points |-> {p.name : p \in {q \in ToSet(newest.points) : q.owner = e.id}} ]
  BY DEF Home
<1>12. h.rooms \subseteq fact.rooms /\ h.points \subseteq fact.points
  <2> HIDE DEF h, fact
  <2> QED
    BY <1>10, <1>11, RoomsAreSeen, PointsAreSeen
<1>13. fact = [h EXCEPT !.rooms = fact.rooms, !.points = fact.points]
  <2> DEFINE type   == Said(newest, property, "property_type")
             usage  == Said(newest, zone, "usage")
             seen   == {[id |-> x, usage |-> Column(db, x, "usage")] : x \in Rooms(db, zone)}
             rooms  == {[id |-> s.id, usage |-> s.usage] : s \in RoomsOf(newest, zone)}
             names  == PointNames(db, e.id)
             points == {p.name : p \in {q \in ToSet(newest.points) : q.owner = e.id}}
  <2>1. /\ fact = [ ahu |-> e.id, zone |-> zone, floor |-> floor, property |-> property,
                    location |-> location, property_type |-> type, usage |-> usage,
                    rooms |-> seen, points |-> names ]
        /\ h = [ ahu |-> e.id, zone |-> zone, floor |-> floor, property |-> property,
                 location |-> location, property_type |-> type, usage |-> usage,
                 rooms |-> rooms, points |-> points ]
    BY <1>10, <1>11
  <2> HIDE DEF h, fact, zone, floor, property, location,
               type, usage, seen, rooms, names, points
  <2>2. fact.rooms = seen /\ fact.points = names
    BY <2>1
  <2>3. [h EXCEPT !.rooms = seen, !.points = names] =
           [ ahu |-> e.id, zone |-> zone, floor |-> floor, property |-> property,
             location |-> location, property_type |-> type, usage |-> usage,
             rooms |-> seen, points |-> names ]
    <3> DEFINE new == [h EXCEPT !.rooms = seen, !.points = names]
    <3>1. /\ DOMAIN new = DOMAIN h
          /\ \A c \in DOMAIN h : c \notin {"rooms", "points"} => new[c] = h[c]
          /\ "rooms" \in DOMAIN h => new["rooms"] = seen
          /\ "points" \in DOMAIN h => new["points"] = names
      OBVIOUS
    <3>2. DOMAIN h = { "ahu", "zone", "floor", "property", "location", "property_type",
                       "usage", "rooms", "points" }
      BY <2>1
    <3>3. new = [c \in DOMAIN new |-> new[c]]
      OBVIOUS
    <3> HIDE DEF new
    <3> QED
      BY <2>1, <3>1, <3>2, <3>3
  <2> QED
    BY <2>1, <2>2, <2>3
<1> HIDE DEF fact
<1> QED
  BY <1>8, <1>12, <1>13

(* Whatever was imported before, a rule preview finds every AHU at the     *)
(* place the last register gives it, with all its rooms and points (module *)
(* Inventory): relations are only added, and columns are overwritten.      *)
THEOREM NothingNewIsHidden == InventorySpec => []NewestIsVisible
  BY InventoryInvHolds, TheNewestIsVisible, PTL

-----------------------------------------------------------------------------
(* What words stand for, for any discovery.                                *)

(* The entries of a discovery that a word, in its dimension, stands for.   *)
LEMMA MatchesAre ==
    ASSUME NEW disc, NEW query, NEW w
    PROVE  /\ \A x : <<"property", x>> \in Matches(disc, query, w) <=> x \in PropertyMatches(disc, w)
           /\ \A x : <<"floor", x>> \in Matches(disc, query, w) <=> x \in FloorMatches(disc, query, w)
           /\ \A x : <<"served_usage", x>> \in Matches(disc, query, w) <=> x \in UsageMatches(disc, w)
           /\ \A m \in Matches(disc, query, w) :
                \/ \E x \in PropertyMatches(disc, w) : m = <<"property", x>>
                \/ \E x \in FloorMatches(disc, query, w) : m = <<"floor", x>>
                \/ \E x \in UsageMatches(disc, w) : m = <<"served_usage", x>>
<1> DEFINE P == PropertyMatches(disc, w)
           F == FloorMatches(disc, query, w)
           U == UsageMatches(disc, w)
<1>1. Matches(disc, query, w) =
        ({"property"} \X P) \cup ({"floor"} \X F) \cup ({"served_usage"} \X U)
  BY DEF Matches
<1> HIDE DEF P, F, U
<1>2. /\ \A x : <<"property", x>> \in Matches(disc, query, w) <=> x \in P
      /\ \A x : <<"floor", x>> \in Matches(disc, query, w) <=> x \in F
      /\ \A x : <<"served_usage", x>> \in Matches(disc, query, w) <=> x \in U
  BY <1>1
<1>3. ASSUME NEW m \in Matches(disc, query, w)
      PROVE  \/ \E x \in P : m = <<"property", x>>
             \/ \E x \in F : m = <<"floor", x>>
             \/ \E x \in U : m = <<"served_usage", x>>
  BY <1>1, <1>3
<1> QED
  BY <1>2, <1>3 DEF P, F, U

(* When no word is ambiguous, what is resolved is what the words stand for.*)
LEMMA ResolvedAre ==
    ASSUME NEW disc, NEW query, Ambiguous(disc, query) = {}
    PROVE  /\ Resolved(disc, query, "property") =
                UNION {PropertyMatches(disc, w) : w \in Words(query)}
           /\ Resolved(disc, query, "floor") =
                UNION {FloorMatches(disc, query, w) : w \in Words(query)}
           /\ Resolved(disc, query, "served_usage") =
                UNION {UsageMatches(disc, w) : w \in Words(query)}
<1>1. \A dimension : \A x :
        x \in Resolved(disc, query, dimension) <=>
          \E w \in Words(query) : \E m \in Matches(disc, query, w) : m[1] = dimension /\ x = m[2]
  BY DEF Resolved
<1>2. \A w \in Words(query) : \A x :
        /\ (\E m \in Matches(disc, query, w) : m[1] = "property" /\ x = m[2])
              <=> x \in PropertyMatches(disc, w)
        /\ (\E m \in Matches(disc, query, w) : m[1] = "floor" /\ x = m[2])
              <=> x \in FloorMatches(disc, query, w)
        /\ (\E m \in Matches(disc, query, w) : m[1] = "served_usage" /\ x = m[2])
              <=> x \in UsageMatches(disc, w)
  <2> TAKE w \in Words(query)
  <2> TAKE x
  <2>1. /\ <<"property", x>>[1] = "property" /\ <<"property", x>>[2] = x
        /\ <<"floor", x>>[1] = "floor" /\ <<"floor", x>>[2] = x
        /\ <<"served_usage", x>>[1] = "served_usage" /\ <<"served_usage", x>>[2] = x
    OBVIOUS
  <2>2. ASSUME x \in PropertyMatches(disc, w)
        PROVE  \E m \in Matches(disc, query, w) : m[1] = "property" /\ x = m[2]
    BY <2>1, <2>2, MatchesAre
  <2>3. ASSUME x \in FloorMatches(disc, query, w)
        PROVE  \E m \in Matches(disc, query, w) : m[1] = "floor" /\ x = m[2]
    BY <2>1, <2>3, MatchesAre
  <2>4. ASSUME x \in UsageMatches(disc, w)
        PROVE  \E m \in Matches(disc, query, w) : m[1] = "served_usage" /\ x = m[2]
    BY <2>1, <2>4, MatchesAre
  <2>5. ASSUME NEW m \in Matches(disc, query, w), x = m[2]
        PROVE  /\ m[1] = "property" => x \in PropertyMatches(disc, w)
               /\ m[1] = "floor" => x \in FloorMatches(disc, query, w)
               /\ m[1] = "served_usage" => x \in UsageMatches(disc, w)
    BY <2>5, MatchesAre
  <2> QED
    BY <2>2, <2>3, <2>4, <2>5
<1>3. \A x : x \in Resolved(disc, query, "property") <=>
               \E w \in Words(query) : x \in PropertyMatches(disc, w)
  BY <1>1, <1>2
<1>4. \A x : x \in Resolved(disc, query, "floor") <=>
               \E w \in Words(query) : x \in FloorMatches(disc, query, w)
  BY <1>1, <1>2
<1>5. \A x : x \in Resolved(disc, query, "served_usage") <=>
               \E w \in Words(query) : x \in UsageMatches(disc, w)
  BY <1>1, <1>2
<1> QED
  BY <1>3, <1>4, <1>5

(* A word that is neither ambiguous nor unresolved stands for one thing.   *)
LEMMA WordsHaveOneMeaning ==
    ASSUME NEW disc, NEW query, NEW w \in Words(query),
           IsFiniteSet(Matches(disc, query, w)),
           Ambiguous(disc, query) = {}, Unresolved(disc, query) = {}
    PROVE  LET P == PropertyMatches(disc, w)
               F == FloorMatches(disc, query, w)
               U == UsageMatches(disc, w)
           IN  \/ (\E x : P = {x}) /\ F = {} /\ U = {}
               \/ P = {} /\ (\E x : F = {x}) /\ U = {}
               \/ P = {} /\ F = {} /\ (\E x : U = {x})
<1>1. ~(Cardinality(Matches(disc, query, w)) > 1) /\ Matches(disc, query, w) # {}
  BY DEF Ambiguous, Unresolved
<1>2. Cardinality(Matches(disc, query, w)) = 1
  <2>1. Cardinality(Matches(disc, query, w)) \in Nat
    BY FS_CardinalityType
  <2>2. Cardinality(Matches(disc, query, w)) # 0
    BY <1>1, FS_EmptySet
  <2> QED
    BY <1>1, <2>1, <2>2
<1>3. PICK m : Matches(disc, query, w) = {m}
  BY <1>2, FS_Singleton
<1> DEFINE P == PropertyMatches(disc, w)
           F == FloorMatches(disc, query, w)
           U == UsageMatches(disc, w)
<1>4. /\ \A x : x \in P <=> m = <<"property", x>>
      /\ \A x : x \in F <=> m = <<"floor", x>>
      /\ \A x : x \in U <=> m = <<"served_usage", x>>
      /\ \/ \E x \in P : m = <<"property", x>>
         \/ \E x \in F : m = <<"floor", x>>
         \/ \E x \in U : m = <<"served_usage", x>>
  BY <1>3, MatchesAre
<1> HIDE DEF P, F, U
<1>5. \/ (\E x : P = {x}) /\ F = {} /\ U = {}
      \/ P = {} /\ (\E x : F = {x}) /\ U = {}
      \/ P = {} /\ F = {} /\ (\E x : U = {x})
  <2>1. CASE \E x \in P : m = <<"property", x>>
    <3>1. PICK x \in P : m = <<"property", x>>
      BY <2>1
    <3>2. \A y : y \in P <=> y = x
      BY <1>4, <3>1
    <3>3. \A y : y \notin F
      BY <1>4, <3>1
    <3>4. \A y : y \notin U
      BY <1>4, <3>1
    <3>5. P = {x} /\ F = {} /\ U = {}
      BY <3>2, <3>3, <3>4
    <3> QED
      BY <3>5
  <2>2. CASE \E x \in F : m = <<"floor", x>>
    <3>1. PICK x \in F : m = <<"floor", x>>
      BY <2>2
    <3>2. \A y : y \in F <=> y = x
      BY <1>4, <3>1
    <3>3. \A y : y \notin P
      BY <1>4, <3>1
    <3>4. \A y : y \notin U
      BY <1>4, <3>1
    <3>5. F = {x} /\ P = {} /\ U = {}
      BY <3>2, <3>3, <3>4
    <3> QED
      BY <3>5
  <2>3. CASE \E x \in U : m = <<"served_usage", x>>
    <3>1. PICK x \in U : m = <<"served_usage", x>>
      BY <2>3
    <3>2. \A y : y \in U <=> y = x
      BY <1>4, <3>1
    <3>3. \A y : y \notin P
      BY <1>4, <3>1
    <3>4. \A y : y \notin F
      BY <1>4, <3>1
    <3>5. U = {x} /\ P = {} /\ F = {}
      BY <3>2, <3>3, <3>4
    <3> QED
      BY <3>5
  <2> QED
    BY <1>4, <2>1, <2>2, <2>3
<1> QED
  BY <1>5 DEF P, F, U

(* The properties that words select are the properties of the draft.       *)
LEMMA SelectedAreResolved ==
    ASSUME NEW disc, NEW query,
           \A w \in Words(query) : IsFiniteSet(Matches(disc, query, w)),
           Ambiguous(disc, query) = {}, Unresolved(disc, query) = {}
    PROVE  SelectedProperties(disc, query) = Resolved(disc, query, "property")
<1>1. \A w \in Words(query) :
        PropertyMatches(disc, w) = {} \/ \E x : PropertyMatches(disc, w) = {x}
  BY WordsHaveOneMeaning
<1>2. \A w \in Words(query) :
        Cardinality(PropertyMatches(disc, w)) = 1 <=> PropertyMatches(disc, w) # {}
  BY <1>1, FS_Singleton, FS_EmptySet
<1>3. \A x : x \in SelectedProperties(disc, query) <=>
               \E w \in Words(query) : /\ Cardinality(PropertyMatches(disc, w)) = 1
                                       /\ x \in PropertyMatches(disc, w)
  BY DEF SelectedProperties
<1>4. \A x : x \in SelectedProperties(disc, query) <=>
               \E w \in Words(query) : x \in PropertyMatches(disc, w)
  BY <1>2, <1>3
<1>5. \A x : x \in Resolved(disc, query, "property") <=>
               \E w \in Words(query) : x \in PropertyMatches(disc, w)
  BY ResolvedAre
<1> QED
  BY <1>4, <1>5

-----------------------------------------------------------------------------
(* What a search of the inventory discovers.                               *)

LEMMA SpacesDiscovered ==
    ASSUME NEW s \in Discovery(db).spaces
    PROVE  /\ s.id \in DOMAIN db.spaces
           /\ s.type = db.spaces[s.id].type
           /\ s.name = db.spaces[s.id].name
           /\ s.parent \in OrNone(Objects(db, s.id, "isPartOf"))
<1> DEFINE listed == {x \in DOMAIN db.spaces : db.spaces[x].type \in {"Building", "Floor"}}
           Above(x) == Objects(db, x, "isPartOf")
<1>1. Discovery(db).spaces =
        UNION {{[ id |-> x, name |-> db.spaces[x].name, type |-> db.spaces[x].type,
                  parent |-> parent ] : parent \in OrNone(Above(x))} : x \in listed}
  BY DEF Discovery
<1>2. PICK x \in listed : \E parent \in OrNone(Above(x)) :
        s = [ id |-> x, name |-> db.spaces[x].name, type |-> db.spaces[x].type,
              parent |-> parent ]
  <2> HIDE DEF listed, Above
  <2> QED
    BY <1>1
<1> QED
  BY <1>2

LEMMA UsagesDiscovered ==
    ASSUME NEW u \in Discovery(db).served_usages
    PROVE  \E z \in DOMAIN db.spaces : u.usage = db.spaces[z].usage
<1> DEFINE zones  == {x \in DOMAIN db.spaces : /\ db.spaces[x].type = "HVAC Zone"
                                               /\ db.spaces[x].usage # None}
           Above(x) == Objects(db, x, "isPartOf")
           Buildings(zone) == {b \in UNION {Above(f) : f \in Above(zone)} : b \in DOMAIN db.spaces}
<1>1. Discovery(db).served_usages =
        UNION {{[ usage |-> db.spaces[z].usage, property |-> b,
                  property_usage |-> db.spaces[b].usage ] : b \in Buildings(z)} : z \in zones}
  BY DEF Discovery
<1>2. PICK z \in zones : \E b \in Buildings(z) :
        u = [ usage |-> db.spaces[z].usage, property |-> b,
              property_usage |-> db.spaces[b].usage ]
  <2> HIDE DEF zones, Buildings
  <2> QED
    BY <1>1
<1>3. z \in DOMAIN db.spaces
  OBVIOUS
<1>4. u.usage = db.spaces[z].usage
  <2> HIDE DEF Buildings, zones
  <2> QED
    BY <1>2
<1> QED
  BY <1>3, <1>4

(* It is finite, so what a word stands for can be counted.                 *)
LEMMA MatchesAreFinite ==
    ASSUME IsFiniteSet(DOMAIN db.spaces), NEW query, NEW w
    PROVE  IsFiniteSet(Matches(Discovery(db), query, w))
<1> DEFINE disc   == Discovery(db)
           ids    == DOMAIN db.spaces
           usages == {db.spaces[z].usage : z \in ids}
           all    == ({"property"} \X ids) \cup ({"floor"} \X ids) \cup ({"served_usage"} \X usages)
<1>1. IsFiniteSet(usages)
  <2> DEFINE usage == [z \in ids |-> db.spaces[z].usage]
  <2>1. usage \in [ids -> usages] /\ \A u \in usages : \E z \in ids : usage[z] = u
    OBVIOUS
  <2> HIDE DEF usage, usages
  <2>2. usage \in Surjection(ids, usages)
    BY <2>1 DEF Surjection
  <2> QED
    BY <2>2, FS_Surjection
<1>2. PropertyMatches(disc, w) \subseteq ids /\ FloorMatches(disc, query, w) \subseteq ids
  <2>1. \A s \in disc.spaces : s.id \in ids
    BY SpacesDiscovered
  <2> HIDE DEF disc, ids
  <2> QED
    BY <2>1 DEF PropertyMatches, FloorMatches, Named
<1>3. UsageMatches(disc, w) \subseteq usages
  <2>1. \A u \in disc.served_usages : u.usage \in usages
    BY UsagesDiscovered
  <2> HIDE DEF disc, usages
  <2> QED
    BY <2>1 DEF UsageMatches
<1> HIDE DEF disc, ids, usages
<1>4. IsFiniteSet({"property"} \X ids) /\ IsFiniteSet({"floor"} \X ids)
        /\ IsFiniteSet({"served_usage"} \X usages)
  BY <1>1, FS_Product, FS_Singleton DEF ids
<1>5. IsFiniteSet(all)
  <2> DEFINE A == {"property"} \X ids
             B == {"floor"} \X ids
             C == {"served_usage"} \X usages
  <2>1. IsFiniteSet(A) /\ IsFiniteSet(B) /\ IsFiniteSet(C)
    BY <1>4
  <2> HIDE DEF A, B, C
  <2>2. IsFiniteSet((A \cup B) \cup C)
    BY <2>1, FS_Union
  <2> QED
    BY <2>2 DEF A, B, C
<1>6. Matches(disc, query, w) \subseteq all
  BY <1>2, <1>3 DEF Matches
<1> HIDE DEF all
<1>7. IsFiniteSet(Matches(disc, query, w))
  BY <1>5, <1>6, FS_Subset
<1> QED
  BY <1>7 DEF disc

-----------------------------------------------------------------------------
(* What a draft covers.                                                    *)

LEMMA TheWordsDecideTheScope ==
    ASSUME InventoryInv PROVE WordsDecideTheScope
<1> SUFFICES ASSUME NEW query \in Queries, Outcome(Discovery(db), query) = "DRAFT"
             PROVE  LET d         == ScopeOf(Discovery(db), query)
                        Called(x, word) == word \in {x, db.spaces[x].name}
                        Lies(f)   == Objects(db, f, "isPartOf") \cap d.properties # {}
                    IN  /\ ReferencesHold(View(db), d)
                        /\ \A word \in Words(query) :
                             \/ Cardinality({x \in d.properties \cup d.floors : Called(x, word)}) = 1
                             \/ UsageMatches(Discovery(db), word) # {}
                                  /\ UsageMatches(Discovery(db), word) \subseteq d.zone_usages
                        /\ \A p \in d.properties : \E word \in Words(query) : Called(p, word)
                        /\ \A f \in d.floors :
                             /\ Lies(f)
                             /\ query.floors # {} => \E word \in Words(query) : Called(f, word)
  BY DEF WordsDecideTheScope
<1> DEFINE disc       == Discovery(db)
           properties == Resolved(disc, query, "property")
           named      == Resolved(disc, query, "floor")
           floors     == ResolvedFloors(disc, query)
           usages     == Resolved(disc, query, "served_usage")
           P(w)       == PropertyMatches(disc, w)
           F(w)       == FloorMatches(disc, query, w)
           U(w)       == UsageMatches(disc, w)
           Called(x, word) == word \in {x, db.spaces[x].name}
           d          == ScopeOf(disc, query)
<1>1. /\ Ambiguous(disc, query) = {} /\ Unresolved(disc, query) = {}
      /\ properties # {} /\ floors # {}
  BY DEF Outcome
<1>2. /\ d.properties = properties /\ d.floors = floors /\ d.overrides = {}
      /\ d.zone_usages = IF usages = {} THEN {"Tenant Area"} ELSE usages
  BY DEF ScopeOf
<1>3. \A w \in Words(query) : IsFiniteSet(Matches(disc, query, w))
  BY MatchesAreFinite DEF InventoryInv
<1>4. \A w \in Words(query) :
        \/ (\E x : P(w) = {x}) /\ F(w) = {} /\ U(w) = {}
        \/ P(w) = {} /\ (\E x : F(w) = {x}) /\ U(w) = {}
        \/ P(w) = {} /\ F(w) = {} /\ (\E x : U(w) = {x})
  <2> HIDE DEF disc
  <2> QED
    BY <1>1, <1>3, WordsHaveOneMeaning
<1>5. /\ \A x : x \in properties <=> \E w \in Words(query) : x \in P(w)
      /\ \A x : x \in named <=> \E w \in Words(query) : x \in F(w)
      /\ \A x : x \in usages <=> \E w \in Words(query) : x \in U(w)
  <2> HIDE DEF disc
  <2> QED
    BY <1>1, ResolvedAre
<1>6. SelectedProperties(disc, query) = properties
  <2> HIDE DEF disc
  <2> QED
    BY <1>1, <1>3, SelectedAreResolved
<1>7. \A s \in disc.spaces : /\ s.id \in DOMAIN db.spaces
                             /\ s.type = db.spaces[s.id].type
                             /\ s.name = db.spaces[s.id].name
                             /\ s.parent \in OrNone(Objects(db, s.id, "isPartOf"))
  BY SpacesDiscovered
<1> HIDE DEF disc
(* The entries behind the properties and the floors.                       *)
<1>8. \A w, x : x \in P(w) <=>
        \E s \in disc.spaces : /\ s.id = x /\ s.type = "Building"
                               /\ w \in {s.id, s.name}
  BY DEF PropertyMatches, Named
<1>9. \A w, x : x \in F(w) <=>
        \E s \in disc.spaces : /\ s.id = x /\ s.type = "Floor" /\ w \in {s.id, s.name}
                               /\ s.parent \in properties
  BY <1>1, <1>6 DEF FloorMatches, Named
<1>10. \A x \in floors :
         \E s \in disc.spaces : s.id = x /\ s.type = "Floor" /\ s.parent \in properties
  <2>1. ASSUME NEW x \in floors, floors = named
        PROVE  \E s \in disc.spaces : s.id = x /\ s.type = "Floor" /\ s.parent \in properties
    <3> HIDE DEF floors, named, properties, F
    <3> QED
      BY <1>5, <1>9, <2>1
  <2>2. ASSUME NEW x \in floors, floors # named
        PROVE  \E s \in disc.spaces : s.id = x /\ s.type = "Floor" /\ s.parent \in properties
    BY <2>2 DEF ResolvedFloors
  <2> QED
    BY <2>1, <2>2
<1>11. /\ named \subseteq floors
       /\ query.floors # {} => floors = named
  BY DEF ResolvedFloors
<1> HIDE DEF properties, named, floors, usages, P, F, U
<1>12. None \notin DOMAIN db.spaces
  <2>1. ASSUME NEW reg \in Registers PROVE None \notin Ids(reg.spaces)
    BY RegisterAssumption DEF IsTable
  <2> QED
    BY <2>1 DEF InventoryInv
<1>13. ReferencesHold(View(db), d)
  <2>1. \A x \in DOMAIN db.spaces :
          x \in DOMAIN View(db).spaces /\ View(db).spaces[x] = db.spaces[x].type
    BY DEF View
  <2>2. \A p \in properties : p \in DOMAIN db.spaces /\ db.spaces[p].type = "Building"
    BY <1>5, <1>7, <1>8
  <2>3. \A f \in floors : f \in DOMAIN db.spaces /\ db.spaces[f].type = "Floor"
    BY <1>7, <1>10
  <2> HIDE DEF d
  <2> QED
    BY <1>2, <2>1, <2>2, <2>3 DEF ReferencesHold
<1>14. \A p \in properties : \E word \in Words(query) : Called(p, word)
  BY <1>5, <1>7, <1>8
<1>15. ASSUME NEW f \in floors
       PROVE  /\ Objects(db, f, "isPartOf") \cap properties # {}
              /\ query.floors # {} => \E word \in Words(query) : Called(f, word)
  <2>1. PICK s \in disc.spaces : s.id = f /\ s.type = "Floor" /\ s.parent \in properties
    BY <1>10
  <2>2. s.parent \in DOMAIN db.spaces
    BY <1>5, <1>7, <1>8, <2>1
  <2>3. s.parent \in Objects(db, f, "isPartOf")
    BY <1>7, <1>12, <2>1, <2>2 DEF OrNone
  <2>4. query.floors # {} => \E word \in Words(query) : Called(f, word)
    BY <1>5, <1>7, <1>9, <1>11
  <2> QED
    BY <2>1, <2>3, <2>4
<1>16. \A w \in Words(query) : \A x \in properties \cup floors :
         Called(x, w) <=> x \in P(w) \cup F(w)
  <2> TAKE w \in Words(query)
  <2>1. ASSUME NEW x \in properties
        PROVE  Called(x, w) => x \in P(w)
    BY <1>5, <1>7, <1>8
  <2>2. ASSUME NEW x \in floors
        PROVE  Called(x, w) => x \in F(w)
    BY <1>7, <1>9, <1>10
  <2>3. ASSUME NEW x \in P(w) \cup F(w)
        PROVE  Called(x, w)
    BY <1>7, <1>8, <1>9
  <2> QED
    BY <2>1, <2>2, <2>3
<1>17. \A w \in Words(query) : P(w) \cup F(w) \subseteq properties \cup floors
  BY <1>5, <1>11
<1>18. ASSUME NEW w \in Words(query)
       PROVE  \/ Cardinality({x \in properties \cup floors : Called(x, w)}) = 1
              \/ U(w) # {} /\ U(w) \subseteq d.zone_usages
  <2> DEFINE called == {x \in properties \cup floors : Called(x, w)}
  <2>1. called = P(w) \cup F(w)
    BY <1>16, <1>17
  <2> HIDE DEF called
  <2>2. CASE \E x : P(w) \cup F(w) = {x}
    <3>1. Cardinality(called) = 1
      BY <2>1, <2>2, FS_Singleton
    <3> QED
      BY <3>1 DEF called
  <2>3. CASE \E x : U(w) = {x}
    <3>1. U(w) # {} /\ U(w) \subseteq usages
      BY <1>5, <2>3
    <3> HIDE DEF d
    <3> QED
      BY <1>2, <3>1
  <2>4. (\E x : P(w) \cup F(w) = {x}) \/ (\E x : U(w) = {x})
    <3>1. (\E x : P(w) = {x}) /\ F(w) = {} => \E x : P(w) \cup F(w) = {x}
      OBVIOUS
    <3>2. (\E x : F(w) = {x}) /\ P(w) = {} => \E x : P(w) \cup F(w) = {x}
      OBVIOUS
    <3> QED
      BY <1>4, <3>1, <3>2
  <2> QED
    BY <2>2, <2>3, <2>4
<1> HIDE DEF d
<1>19. /\ ReferencesHold(View(db), d)
       /\ \A word \in Words(query) :
            \/ Cardinality({x \in d.properties \cup d.floors : Called(x, word)}) = 1
            \/ U(word) # {} /\ U(word) \subseteq d.zone_usages
       /\ \A p \in d.properties : \E word \in Words(query) : Called(p, word)
       /\ \A f \in d.floors :
            /\ Objects(db, f, "isPartOf") \cap d.properties # {}
            /\ query.floors # {} => \E word \in Words(query) : Called(f, word)
  BY <1>2, <1>13, <1>14, <1>15, <1>18
<1> QED
  BY <1>19 DEF d, disc, U

(* Whatever the inventory has become, a draft made of words covers what    *)
(* the words name and nothing else (_resolve_scope and what _process makes *)
(* of its result): a draft is made only when every word has one meaning,   *)
(* and then the properties the floors are looked for in are its own.       *)
THEOREM DraftsMeanTheirWords == InventorySpec => []WordsDecideTheScope
  BY InventoryInvHolds, TheWordsDecideTheScope, PTL

-----------------------------------------------------------------------------
(* The graph of one register.                                              *)

LEMMA EdgesAreTriples ==
    ASSUME NEW reg, NEW edge \in Edges(reg)
    PROVE  edge = <<edge[1], edge[2], edge[3]>>
<1>1. CASE \E s \in Parented(reg) : edge \in Both(s.parent, s.id)
  BY <1>1 DEF Both
<1>2. CASE \E e \in ToSet(reg.equipment) : edge \in EquipmentEdges(e)
  <2>1. PICK e \in ToSet(reg.equipment) : edge \in EquipmentEdges(e)
    BY <1>2
  <2>2. \/ edge \in Both(e.property, e.id)
        \/ edge \in { <<e.id, "hasLocation", e.installed>>,
                      <<e.installed, "isLocationOf", e.id>>,
                      <<e.id, "feeds", e.served>>,
                      <<e.id, "meters", e.scope>> }
    BY <2>1 DEF EquipmentEdges
  <2> QED
    BY <2>2 DEF Both
<1>3. CASE \E p \in ToSet(reg.points) : edge = <<p.owner, "hasPoint", p.id>>
  BY <1>3
<1> QED
  BY <1>1, <1>2, <1>3, EdgeSource

(* All the relations there are, are those of the last register.            *)
Unmoved ==
    /\ InventoryInv
    /\ newest # None
    /\ db.edges = Edges(newest)

LEMMA UnmovedSays ==
    ASSUME Unmoved
    PROVE  /\ newest \in Registers /\ ValidSource(newest)
           /\ \A x, predicate, y :
                /\ y \in Objects(db, x, predicate) <=> <<x, predicate, y>> \in Edges(newest)
                /\ x \in Subjects(db, predicate, y) <=> <<x, predicate, y>> \in Edges(newest)
           /\ None \notin DOMAIN db.spaces
           /\ DOMAIN db.spaces \cap Ids(newest.equipment) = {}
           /\ Ids(newest.spaces) \subseteq DOMAIN db.spaces
           /\ None \notin Ids(newest.spaces)
<1>1. newest \in Registers /\ ValidSource(newest)
  BY DEF Unmoved, InventoryInv, Remembers
<1>2. ASSUME NEW x, NEW predicate, NEW y
      PROVE  /\ y \in Objects(db, x, predicate) <=> <<x, predicate, y>> \in Edges(newest)
             /\ x \in Subjects(db, predicate, y) <=> <<x, predicate, y>> \in Edges(newest)
  <2>1. db.edges = Edges(newest)
    BY DEF Unmoved
  <2>2. ASSUME <<x, predicate, y>> \in Edges(newest)
        PROVE  y \in Objects(db, x, predicate) /\ x \in Subjects(db, predicate, y)
    <3> DEFINE edge == <<x, predicate, y>>
    <3>1. edge \in db.edges /\ edge[1] = x /\ edge[2] = predicate /\ edge[3] = y
      BY <2>1, <2>2
    <3> HIDE DEF edge
    <3> QED
      BY <3>1 DEF Objects, Subjects
  <2>3. ASSUME y \in Objects(db, x, predicate)
        PROVE  <<x, predicate, y>> \in Edges(newest)
    <3>1. PICK edge \in Edges(newest) : edge[1] = x /\ edge[2] = predicate /\ edge[3] = y
      BY <2>1, <2>3 DEF Objects
    <3> QED
      BY <3>1, EdgesAreTriples
  <2>4. ASSUME x \in Subjects(db, predicate, y)
        PROVE  <<x, predicate, y>> \in Edges(newest)
    <3>1. PICK edge \in Edges(newest) : edge[1] = x /\ edge[2] = predicate /\ edge[3] = y
      BY <2>1, <2>4 DEF Subjects
    <3> QED
      BY <3>1, EdgesAreTriples
  <2> QED
    BY <2>2, <2>3, <2>4
<1>3. \A reg \in Registers : None \notin Ids(reg.spaces)
                               /\ Ids(reg.spaces) \cap Ids(newest.equipment) = {}
  BY <1>1, RegisterAssumption DEF IsTable
<1>4. DOMAIN db.spaces \subseteq UNION {Ids(reg.spaces) : reg \in Registers}
  BY DEF Unmoved, InventoryInv
<1>5. None \notin DOMAIN db.spaces /\ DOMAIN db.spaces \cap Ids(newest.equipment) = {}
  BY <1>3, <1>4
<1>6. Ids(newest.spaces) \subseteq DOMAIN db.spaces
  BY DEF Unmoved, InventoryInv, Remembers, Holds
<1> QED
  BY <1>1, <1>2, <1>3, <1>5, <1>6

(* What leads where, then.                                                 *)
LEMMA ObjectsSay ==
    ASSUME Unmoved, NEW x, NEW y
    PROVE  /\ y \in Objects(db, x, "feeds") <=>
                x # None /\ y # None /\ \E e \in ToSet(newest.equipment) : x = e.id /\ y = e.served
           /\ y \in Objects(db, x, "hasLocation") <=>
                x # None /\ y # None /\ \E e \in ToSet(newest.equipment) : x = e.id /\ y = e.installed
           /\ y \in Objects(db, x, "hasPoint") <=>
                \E p \in ToSet(newest.points) : x = p.owner /\ y = p.id
           /\ y \in Objects(db, x, "isPartOf") <=>
                \/ \E s \in Parented(newest) : x = s.id /\ y = s.parent
                \/ \E e \in ToSet(newest.equipment) : x = e.id /\ y = e.property
           /\ y \in Objects(db, x, "hasPart") <=> x \in Objects(db, y, "isPartOf")
           /\ x \in Subjects(db, "meters", y) <=>
                x # None /\ y # None /\ \E e \in ToSet(newest.equipment) : x = e.id /\ y = e.scope
           /\ x \in Subjects(db, "feeds", y) <=> y \in Objects(db, x, "feeds")
           /\ x \in Subjects(db, "isPartOf", y) <=> y \in Objects(db, x, "isPartOf")
<1>1. /\ \A predicate, v, w : w \in Objects(db, v, predicate) <=> <<v, predicate, w>> \in Edges(newest)
      /\ \A predicate, v, w : v \in Subjects(db, predicate, w) <=> <<v, predicate, w>> \in Edges(newest)
  BY UnmovedSays
<1>2. /\ y \in Objects(db, x, "feeds") <=> <<x, "feeds", y>> \in Edges(newest)
      /\ y \in Objects(db, x, "hasLocation") <=> <<x, "hasLocation", y>> \in Edges(newest)
      /\ y \in Objects(db, x, "hasPoint") <=> <<x, "hasPoint", y>> \in Edges(newest)
      /\ y \in Objects(db, x, "isPartOf") <=> <<x, "isPartOf", y>> \in Edges(newest)
      /\ y \in Objects(db, x, "hasPart") <=> <<x, "hasPart", y>> \in Edges(newest)
      /\ x \in Objects(db, y, "isPartOf") <=> <<y, "isPartOf", x>> \in Edges(newest)
      /\ x \in Subjects(db, "meters", y) <=> <<x, "meters", y>> \in Edges(newest)
      /\ x \in Subjects(db, "feeds", y) <=> <<x, "feeds", y>> \in Edges(newest)
      /\ x \in Subjects(db, "isPartOf", y) <=> <<x, "isPartOf", y>> \in Edges(newest)
  BY <1>1
<1>3. /\ <<x, "feeds", y>> \in Edges(newest) <=>
           x # None /\ y # None /\ \E e \in ToSet(newest.equipment) : x = e.id /\ y = e.served
      /\ <<x, "hasLocation", y>> \in Edges(newest) <=>
           x # None /\ y # None /\ \E e \in ToSet(newest.equipment) : x = e.id /\ y = e.installed
      /\ <<x, "meters", y>> \in Edges(newest) <=>
           x # None /\ y # None /\ \E e \in ToSet(newest.equipment) : x = e.id /\ y = e.scope
  BY FeedsSays, LocationSays, MetersSays
<1>4. <<x, "hasPoint", y>> \in Edges(newest) <=>
           \E p \in ToSet(newest.points) : x = p.owner /\ y = p.id
  BY PointSays
<1>5. <<x, "isPartOf", y>> \in Edges(newest) <=>
           \/ \E s \in Parented(newest) : x = s.id /\ y = s.parent
           \/ \E e \in ToSet(newest.equipment) : x = e.id /\ y = e.property
  BY PartSays
<1>6. \A v, w : <<v, "hasPart", w>> \in Edges(newest) <=> <<w, "isPartOf", v>> \in Edges(newest)
  BY PartIsWhole
<1> QED
  BY <1>2, <1>3, <1>4, <1>5, <1>6

(* A column is what the register says, and None where it says nothing.     *)
LEMMA ColumnSays ==
    ASSUME Unmoved, NEW x \in Ids(newest.spaces) \cup {None}, NEW field
    PROVE  Column(db, x, field) = Said(newest, x, field)
<1>1. CASE x \in Ids(newest.spaces)
  BY <1>1, ColumnIsCurrent DEF Unmoved
<1>2. CASE x = None
  BY <1>2, UnmovedSays DEF Column, Said
<1> QED
  BY <1>1, <1>2

(* What an entry names, if it is not empty.                                *)
Only(y) == {y} \ {None}

(* Relations that lead to one thing at most.                               *)
LEMMA FromAnAsset ==
    ASSUME Unmoved, NEW e \in ToSet(newest.equipment)
    PROVE  /\ Objects(db, e.id, "feeds") = Only(e.served)
           /\ Objects(db, e.id, "hasLocation") = Only(e.installed)
           /\ Objects(db, e.id, "hasPoint") =
                {p.id : p \in {q \in ToSet(newest.points) : q.owner = e.id}}
           /\ e.served \in Ids(newest.spaces) \cup {None}
<1>1. newest \in Registers /\ ValidSource(newest)
  BY UnmovedSays
<1>2. e.id # None /\ \A other \in ToSet(newest.equipment) : other.id = e.id => other = e
  BY <1>1, RegistersAreTables, RowsAreUnique
<1>3. \A y : y \in Objects(db, e.id, "feeds") <=> y \in {e.served} \ {None}
  BY <1>2, ObjectsSay
<1>4. \A y : y \in Objects(db, e.id, "hasLocation") <=> y \in {e.installed} \ {None}
  BY <1>2, ObjectsSay
<1>5. \A y : y \in Objects(db, e.id, "hasPoint") <=>
               \E p \in ToSet(newest.points) : e.id = p.owner /\ y = p.id
  BY ObjectsSay
<1>6. Objects(db, e.id, "hasPoint") = {p.id : p \in {q \in ToSet(newest.points) : q.owner = e.id}}
  BY <1>5
<1>7. e.served \in Ids(newest.spaces) \cup {None}
  BY <1>1, PlacesAreThere
<1> QED
  BY <1>3, <1>4, <1>6, <1>7 DEF Only

LEMMA FromASpace ==
    ASSUME Unmoved, NEW x \in Ids(newest.spaces) \cup {None}
    PROVE  /\ Objects(db, x, "isPartOf") = Only(Said(newest, x, "parent"))
           /\ Said(newest, x, "parent") \in Ids(newest.spaces) \cup {None}
<1>1. newest \in Registers /\ ValidSource(newest) /\ x \notin Ids(newest.equipment)
  <2>1. newest \in Registers /\ ValidSource(newest)
    BY UnmovedSays
  <2>2. None \notin Ids(newest.equipment)
    BY <2>1, RegisterAssumption DEF IsTable
  <2> QED
    BY <2>1, <2>2, UnmovedSays
<1>2. \A e \in ToSet(newest.equipment) : e.id # x
  BY <1>1, RegistersAreTables, RowsAreUnique
<1>3. \A y : y \in Objects(db, x, "isPartOf") <=>
               \E s \in Parented(newest) : x = s.id /\ y = s.parent
  BY <1>2, ObjectsSay
<1>4. \A s \in Parented(newest) : s.id = x =>
        s.parent = Said(newest, x, "parent") /\ s.parent # None
  BY <1>1, SpaceSays DEF Parented
<1>5. Said(newest, x, "parent") # None =>
        /\ Said(newest, x, "parent") \in Ids(newest.spaces)
        /\ Said(newest, x, "parent") \in Objects(db, x, "isPartOf")
  BY <1>1, ParentIsThere, UnmovedSays
<1>6. \A y : y \in Objects(db, x, "isPartOf") <=> y \in {Said(newest, x, "parent")} \ {None}
  BY <1>3, <1>4, <1>5
<1> QED
  BY <1>5, <1>6 DEF Only

(* The spaces among the parts of a space.                                  *)
LEMMA PartsOfASpace ==
    ASSUME Unmoved, NEW x, NEW y \in DOMAIN db.spaces
    PROVE  y \in Objects(db, x, "hasPart") <=> y \in {s.id : s \in PartsOf(newest, x)}
<1>1. newest \in Registers /\ ValidSource(newest) /\ y \notin Ids(newest.equipment)
  BY UnmovedSays
<1>2. \A e \in ToSet(newest.equipment) : e.id # y
  BY <1>1, RegistersAreTables, RowsAreUnique
<1>3. y \in Objects(db, x, "hasPart") <=> \E s \in Parented(newest) : y = s.id /\ x = s.parent
  BY <1>2, ObjectsSay
<1> QED
  BY <1>3 DEF Parented, PartsOf

-----------------------------------------------------------------------------
(* Routes.                                                                 *)

(* Where edges lead to one thing at most, there is one route.              *)
LEMMA OneRoute ==
    ASSUME NEW d, NEW a, NEW z, NEW f, NEW p,
           Objects(d, a, "feeds") = Only(z),
           Objects(d, z, "isPartOf") = Only(f),
           Objects(d, f, "isPartOf") = Only(p)
    PROVE  Routes(d, a) = {<<a, z, f, p>>}
<1>1. Along(d, {<<a>>}, "feeds") = {<<a, z>>}
  <2>1. Objects(d, Last(<<a>>), "feeds") = Only(z)
    BY EndOfOne
  <2>2. Along(d, {<<a>>}, "feeds") = {Append(<<a>>, z)}
    BY <2>1 DEF Along, OrNone, Only
  <2> QED
    BY <2>2, PathOfTwo
<1>2. Along(d, {<<a, z>>}, "isPartOf") = {<<a, z, f>>}
  <2>1. Objects(d, Last(<<a, z>>), "isPartOf") = Only(f)
    BY EndOfTwo
  <2>2. Along(d, {<<a, z>>}, "isPartOf") = {Append(<<a, z>>, f)}
    BY <2>1 DEF Along, OrNone, Only
  <2> QED
    BY <2>2, PathOfThree
<1>3. Along(d, {<<a, z, f>>}, "isPartOf") = {<<a, z, f, p>>}
  <2>1. Objects(d, Last(<<a, z, f>>), "isPartOf") = Only(p)
    BY EndOfThree
  <2>2. Along(d, {<<a, z, f>>}, "isPartOf") = {Append(<<a, z, f>>, p)}
    BY <2>1 DEF Along, OrNone, Only
  <2> QED
    BY <2>2, PathOfFour
<1> QED
  BY <1>1, <1>2, <1>3 DEF Routes

(* A route starts at its AHU, whatever the graph.                          *)
LEMMA RoutesStart ==
    ASSUME NEW d, NEW a, NEW route \in Routes(d, a)
    PROVE  route[1] = a
<1>1. \A paths, predicate, q : q \in Along(d, paths, predicate)
        => \E path \in paths : \E y : q = Append(path, y)
  BY DEF Along
<1> DEFINE first  == Along(d, {<<a>>}, "feeds")
           second == Along(d, first, "isPartOf")
           third  == Along(d, second, "isPartOf")
<1>2. route \in third
  BY DEF Routes
<1>3. \A q \in first : \E z : q = <<a, z>>
  <2> TAKE q \in first
  <2>1. PICK y : q = Append(<<a>>, y)
    BY DEF Along
  <2> QED
    BY <2>1, PathOfTwo
<1>4. \A q \in second : \E z, f : q = <<a, z, f>>
  <2> TAKE q \in second
  <2>1. PICK path \in first : \E y : q = Append(path, y)
    <3> HIDE DEF first
    <3> QED
      BY <1>1
  <2>2. PICK y : q = Append(path, y)
    BY <2>1
  <2>3. PICK z : path = <<a, z>>
    BY <1>3
  <2> QED
    BY <2>2, <2>3, PathOfThree
<1>5. \A q \in third : \E z, f, p : q = <<a, z, f, p>>
  <2> TAKE q \in third
  <2>1. PICK path \in second : \E y : q = Append(path, y)
    <3> HIDE DEF second
    <3> QED
      BY <1>1
  <2>2. PICK y : q = Append(path, y)
    BY <2>1
  <2>3. PICK z, f : path = <<a, z, f>>
    BY <1>4
  <2> QED
    BY <2>2, <2>3, PathOfFour
<1>6. PICK z, f, p : route = <<a, z, f, p>>
  BY <1>2, <1>5
<1> QED
  BY <1>6

-----------------------------------------------------------------------------
(* The places of an AHU while no relation has changed.                     *)

(* The route of an asset, whether the register places it or not.           *)
LEMMA TheRoute ==
    ASSUME Unmoved, NEW e \in ToSet(newest.equipment)
    PROVE  LET h == Home(newest, e)
           IN  /\ Routes(db, e.id) = {<<e.id, h.zone, h.floor, h.property>>}
               /\ h.zone \in Ids(newest.spaces) \cup {None}
               /\ h.floor \in Ids(newest.spaces) \cup {None}
               /\ h.property \in Ids(newest.spaces) \cup {None}
<1> DEFINE zone     == e.served
           floor    == Said(newest, zone, "parent")
           property == Said(newest, floor, "parent")
<1>1. /\ Objects(db, e.id, "feeds") = Only(zone)
      /\ zone \in Ids(newest.spaces) \cup {None}
  BY FromAnAsset
<1>2. /\ Objects(db, zone, "isPartOf") = Only(floor)
      /\ floor \in Ids(newest.spaces) \cup {None}
  BY <1>1, FromASpace
<1> HIDE DEF zone
<1>3. /\ Objects(db, floor, "isPartOf") = Only(property)
      /\ property \in Ids(newest.spaces) \cup {None}
  BY <1>2, FromASpace
<1> HIDE DEF floor, property
<1>4. Routes(db, e.id) = {<<e.id, zone, floor, property>>}
  BY <1>1, <1>2, <1>3, OneRoute
<1>5. /\ Home(newest, e).zone = zone /\ Home(newest, e).floor = floor
      /\ Home(newest, e).property = property
  BY DEF Home, zone, floor, property
<1> QED
  BY <1>1, <1>2, <1>3, <1>4, <1>5

(* The rooms of a zone are those the register names.                       *)
LEMMA RoomsAreThose ==
    ASSUME Unmoved, NEW zone
    PROVE  {[id |-> x, usage |-> Column(db, x, "usage")] : x \in Rooms(db, zone)}
             = {[id |-> s.id, usage |-> s.usage] : s \in RoomsOf(newest, zone)}
<1>1. newest \in Registers /\ ValidSource(newest)
  BY UnmovedSays
<1>2. ASSUME NEW s \in ToSet(newest.spaces)
      PROVE  /\ s.id \in DOMAIN db.spaces
             /\ Column(db, s.id, "type") = s.type
             /\ Column(db, s.id, "usage") = s.usage
  <2>1. s.id \in Ids(newest.spaces) /\ Said(newest, s.id, "type") = s.type
          /\ Said(newest, s.id, "usage") = s.usage
    BY <1>1, SpaceSays
  <2> QED
    BY <2>1, ColumnSays, UnmovedSays
<1>3. ASSUME NEW x \in Rooms(db, zone)
      PROVE  \E s \in RoomsOf(newest, zone) : x = s.id /\ Column(db, x, "usage") = s.usage
  <2>1. x \in Objects(db, zone, "hasPart") /\ Column(db, x, "type") = "Room"
    BY DEF Rooms
  <2>2. x \in DOMAIN db.spaces
    <3>1. None # "Room"
      BY RegisterAssumption DEF SpaceTypes
    <3> QED
      BY <2>1, <3>1 DEF Column
  <2>3. PICK s \in PartsOf(newest, zone) : s.id = x
    BY <2>1, <2>2, PartsOfASpace
  <2>4. s \in ToSet(newest.spaces) /\ zone # None /\ s.parent = zone
    BY DEF PartsOf
  <2>5. s \in RoomsOf(newest, zone)
    BY <1>2, <2>1, <2>3, <2>4 DEF RoomsOf
  <2> QED
    BY <1>2, <2>3, <2>4, <2>5
<1>4. ASSUME NEW s \in RoomsOf(newest, zone)
      PROVE  s.id \in Rooms(db, zone) /\ Column(db, s.id, "usage") = s.usage
  <2>1. s \in ToSet(newest.spaces) /\ s \in PartsOf(newest, zone) /\ s.type = "Room"
    BY DEF RoomsOf, PartsOf
  <2>2. s.id \in Objects(db, zone, "hasPart")
    BY <1>2, <2>1, PartsOfASpace
  <2> QED
    BY <1>2, <2>1, <2>2 DEF Rooms
<1>5. \A r : r \in {[id |-> x, usage |-> Column(db, x, "usage")] : x \in Rooms(db, zone)}
             <=> r \in {[id |-> s.id, usage |-> s.usage] : s \in RoomsOf(newest, zone)}
  BY <1>3, <1>4
<1> QED
  BY <1>5

LEMMA PointsAreThose ==
    ASSUME Unmoved, NEW e \in ToSet(newest.equipment)
    PROVE  PointNames(db, e.id) = {p.name : p \in {q \in ToSet(newest.points) : q.owner = e.id}}
<1>1. \A p \in ToSet(newest.points) : db.points[p.id].name = p.name
  BY PointIsCurrent DEF Unmoved
<1>2. Objects(db, e.id, "hasPoint") = {p.id : p \in {q \in ToSet(newest.points) : q.owner = e.id}}
  BY FromAnAsset
<1> QED
  BY <1>1, <1>2 DEF PointNames

(* A rule preview has one row for the AHU, its home.                       *)
LEMMA OneFact ==
    ASSUME Unmoved, NEW e \in AhusOf(newest)
    PROVE  {f \in TargetFacts(db) : f.ahu = e.id} = {Home(newest, e)}
<1> DEFINE h        == Home(newest, e)
           zone     == h.zone
           floor    == h.floor
           property == h.property
           location == h.location
           route    == <<e.id, zone, floor, property>>
           fact     == Fact(db, route, location)
<1>1. e \in ToSet(newest.equipment) /\ e.type = "AHU"
  BY DEF AhusOf
<1>2. Routes(db, e.id) = {route}
  BY <1>1, TheRoute
<1>3. OrNone(Objects(db, e.id, "hasLocation")) = {location}
  <2>1. location = e.installed
    BY DEF Home
  <2> HIDE DEF location
  <2> QED
    BY <1>1, <2>1, FromAnAsset DEF OrNone, Only
<1>4. e.id \in Equipment(db, "AHU")
  BY <1>1, AssetIsCurrent DEF Unmoved
<1>5. fact = h
  <2>1. /\ Column(db, property, "property_type") = Said(newest, property, "property_type")
        /\ Column(db, zone, "usage") = Said(newest, zone, "usage")
    BY <1>1, TheRoute, ColumnSays
  <2>2. /\ {[id |-> x, usage |-> Column(db, x, "usage")] : x \in Rooms(db, zone)}
             = {[id |-> s.id, usage |-> s.usage] : s \in RoomsOf(newest, zone)}
        /\ PointNames(db, e.id) =
             {p.name : p \in {q \in ToSet(newest.points) : q.owner = e.id}}
    BY <1>1, RoomsAreThose, PointsAreThose
  <2>3. zone = e.served
    BY DEF Home
  <2>4. h = [ ahu |-> e.id, zone |-> zone, floor |-> floor, property |-> property,
              location |-> location,
              property_type |-> Said(newest, property, "property_type"),
              usage  |-> Said(newest, zone, "usage"),
              rooms  |-> {[id |-> s.id, usage |-> s.usage] : s \in RoomsOf(newest, zone)},
              points |-> {p.name : p \in {q \in ToSet(newest.points) : q.owner = e.id}} ]
    BY DEF Home
  <2>5. route[1] = e.id /\ route[2] = zone /\ route[3] = floor /\ route[4] = property
    OBVIOUS
  <2> HIDE DEF h, zone, floor, property, location, route
  <2>6. fact = [ ahu |-> e.id, zone |-> zone, floor |-> floor, property |-> property,
                 location |-> location,
                 property_type |-> Column(db, property, "property_type"),
                 usage  |-> Column(db, zone, "usage"),
                 rooms  |-> {[id |-> x, usage |-> Column(db, x, "usage")] : x \in Rooms(db, zone)},
                 points |-> PointNames(db, e.id) ]
    BY <2>5 DEF Fact
  <2> QED
    BY <2>1, <2>2, <2>4, <2>6
<1>6. fact.ahu = e.id
  BY DEF Fact
<1> HIDE DEF route, location, h, fact
<1>7. fact \in TargetFacts(db)
  BY <1>2, <1>3, <1>4 DEF TargetFacts, fact
<1>8. ASSUME NEW f \in TargetFacts(db), f.ahu = e.id
      PROVE  f = fact
  <2>1. PICK ahu \in Equipment(db, "AHU") :
          \E r \in Routes(db, ahu) : \E l \in OrNone(Objects(db, ahu, "hasLocation")) :
            f = Fact(db, r, l)
    BY DEF TargetFacts
  <2>2. PICK r \in Routes(db, ahu) : \E l \in OrNone(Objects(db, ahu, "hasLocation")) :
            f = Fact(db, r, l)
    BY <2>1
  <2>3. PICK l \in OrNone(Objects(db, ahu, "hasLocation")) : f = Fact(db, r, l)
    BY <2>2
  <2>4. r[1] = ahu
    BY RoutesStart
  <2>5. f.ahu = r[1]
    BY <2>3 DEF Fact
  <2>6. ahu = e.id
    BY <1>8, <2>4, <2>5
  <2>7. r = route /\ l = location
    BY <1>2, <1>3, <2>6
  <2> QED
    BY <2>3, <2>7 DEF fact
<1> QED
  BY <1>5, <1>6, <1>7, <1>8 DEF h

(* The topology is of one place.                                           *)
LEMMA OneTopology ==
    ASSUME Unmoved, NEW e \in AhusOf(newest)
    PROVE  {[location |-> t.location, zone |-> t.zone] : t \in Topologies(db, e.id)}
             = {[location |-> Home(newest, e).location, zone |-> Home(newest, e).zone]}
<1>1. e \in ToSet(newest.equipment)
  BY DEF AhusOf
<1>2. /\ OrNone(Objects(db, e.id, "hasLocation")) = {e.installed}
      /\ OrNone(Objects(db, e.id, "feeds")) = {e.served}
  BY <1>1, FromAnAsset DEF OrNone, Only
<1>3. Topologies(db, e.id) =
        {[ location |-> e.installed, zone |-> e.served, rooms |-> Rooms(db, e.served),
           points |-> Objects(db, e.id, "hasPoint") ]}
  BY <1>2 DEF Topologies
<1>4. Home(newest, e).location = e.installed /\ Home(newest, e).zone = e.served
  BY DEF Home
<1> QED
  BY <1>3, <1>4

(* An issue of the AHU is counted once in its building.                    *)
LEMMA CountedOnce ==
    ASSUME Unmoved, NEW e \in AhusOf(newest)
    PROVE  Cardinality(CountedRows(db, e.id, Home(newest, e).property)) = 1
<1> DEFINE h     == Home(newest, e)
           route == <<e.id, h.zone, h.floor, h.property>>
<1>1. e \in ToSet(newest.equipment)
  BY DEF AhusOf
<1>2. Routes(db, e.id) = {route} /\ route[4] = h.property
  BY <1>1, TheRoute
<1> HIDE DEF route
<1>3. CountedRows(db, e.id, h.property) = {route}
  BY <1>2 DEF CountedRows
<1> QED
  BY <1>3, FS_Singleton

(* What the tree of the portfolio shows.                                   *)
LEMMA PortfolioShows ==
    ASSUME NEW place
    PROVE  place \in Portfolio(db) <=>
             \E b \in DOMAIN db.spaces : \E f, z, a :
               /\ place = <<b, f, z, a>>
               /\ Column(db, b, "type") = "Building"
               /\ f \in Subjects(db, "isPartOf", b) /\ Column(db, f, "type") = "Floor"
               /\ z \in Subjects(db, "isPartOf", f) /\ Column(db, z, "type") = "HVAC Zone"
               /\ a \in Subjects(db, "feeds", z) /\ a \in Equipment(db, "AHU")
<1> DEFINE Parts(x, type) == {s \in Subjects(db, "isPartOf", x) : Column(db, s, "type") = type}
           Ahus(zone) == Subjects(db, "feeds", zone) \cap Equipment(db, "AHU")
           In(b, f, z) == {<<b, f, z, a>> : a \in Ahus(z)}
           On(b, f) == UNION {In(b, f, z) : z \in Parts(f, "HVAC Zone")}
           Under(b) == UNION {On(b, f) : f \in Parts(b, "Floor")}
           buildings == {x \in DOMAIN db.spaces : Column(db, x, "type") = "Building"}
<1>1. Portfolio(db) = UNION {Under(b) : b \in buildings}
  BY DEF Portfolio
<1>2. \A b : place \in Under(b) <=>
        \E f \in Parts(b, "Floor") : \E z \in Parts(f, "HVAC Zone") : \E a \in Ahus(z) :
          place = <<b, f, z, a>>
  <2> HIDE DEF Parts, Ahus
  <2>1. \A b, f, z : place \in In(b, f, z) <=> \E a \in Ahus(z) : place = <<b, f, z, a>>
    OBVIOUS
  <2> HIDE DEF In
  <2>2. \A b, f : place \in On(b, f) <=> \E z \in Parts(f, "HVAC Zone") : place \in In(b, f, z)
    OBVIOUS
  <2> HIDE DEF On
  <2>3. \A b : place \in Under(b) <=> \E f \in Parts(b, "Floor") : place \in On(b, f)
    OBVIOUS
  <2> QED
    BY <2>1, <2>2, <2>3
<1>3. place \in Portfolio(db) <=> \E b \in buildings : place \in Under(b)
  <2> HIDE DEF Under, buildings
  <2> QED
    BY <1>1
<1> HIDE DEF Under
<1> QED
  BY <1>2, <1>3

(* The portfolio shows the AHU in its place, when that is a place in a     *)
(* building, and nowhere else.                                             *)
LEMMA OnePlace ==
    ASSUME Unmoved, NEW e \in AhusOf(newest)
    PROVE  LET h == Home(newest, e)
           IN  {place \in Portfolio(db) : place[4] = e.id} =
                 IF Placed(newest, h) THEN {<<h.property, h.floor, h.zone, e.id>>} ELSE {}
<1> DEFINE h        == Home(newest, e)
           zone     == h.zone
           floor    == h.floor
           property == h.property
           this     == <<property, floor, zone, e.id>>
<1>1. e \in ToSet(newest.equipment) /\ e.type = "AHU"
  BY DEF AhusOf
<1>2. /\ zone \in Ids(newest.spaces) \cup {None}
      /\ floor \in Ids(newest.spaces) \cup {None}
      /\ property \in Ids(newest.spaces) \cup {None}
  BY <1>1, TheRoute
<1>3. /\ Objects(db, e.id, "feeds") = Only(zone)
      /\ Objects(db, zone, "isPartOf") = Only(floor)
      /\ Objects(db, floor, "isPartOf") = Only(property)
  <2>1. /\ zone = e.served /\ floor = Said(newest, zone, "parent")
        /\ property = Said(newest, floor, "parent")
    BY DEF Home
  <2> HIDE DEF zone, floor, property
  <2> QED
    BY <1>1, <1>2, <2>1, FromAnAsset, FromASpace
<1>4. /\ Column(db, zone, "type") = Said(newest, zone, "type")
      /\ Column(db, floor, "type") = Said(newest, floor, "type")
      /\ Column(db, property, "type") = Said(newest, property, "type")
  BY <1>2, ColumnSays
<1>5. e.id \in Equipment(db, "AHU")
  BY <1>1, AssetIsCurrent DEF Unmoved
<1> HIDE DEF zone, floor, property, this
<1>6. ASSUME NEW place \in Portfolio(db), place[4] = e.id
      PROVE  Placed(newest, h) /\ place = this
  <2>1. PICK b \in DOMAIN db.spaces : \E f, z, a :
               /\ place = <<b, f, z, a>>
               /\ Column(db, b, "type") = "Building"
               /\ f \in Subjects(db, "isPartOf", b) /\ Column(db, f, "type") = "Floor"
               /\ z \in Subjects(db, "isPartOf", f) /\ Column(db, z, "type") = "HVAC Zone"
               /\ a \in Subjects(db, "feeds", z) /\ a \in Equipment(db, "AHU")
    BY PortfolioShows
  <2>2. PICK f, z, a :
               /\ place = <<b, f, z, a>>
               /\ Column(db, b, "type") = "Building"
               /\ f \in Subjects(db, "isPartOf", b) /\ Column(db, f, "type") = "Floor"
               /\ z \in Subjects(db, "isPartOf", f) /\ Column(db, z, "type") = "HVAC Zone"
               /\ a \in Subjects(db, "feeds", z) /\ a \in Equipment(db, "AHU")
    BY <2>1
  <2>3. a = e.id
    BY <1>6, <2>2
  <2>4. z = zone
    BY <1>3, <2>2, <2>3, ObjectsSay DEF Only
  <2>5. f = floor
    BY <1>3, <2>2, <2>4, ObjectsSay DEF Only
  <2>6. b = property
    BY <1>3, <2>2, <2>5, ObjectsSay DEF Only
  <2>7. place = this
    BY <2>2, <2>3, <2>4, <2>5, <2>6 DEF this
  <2>8. Placed(newest, h)
    BY <1>4, <2>2, <2>4, <2>5, <2>6 DEF Placed, zone, floor, property
  <2> QED
    BY <2>7, <2>8
<1>7. ASSUME Placed(newest, h)
      PROVE  this \in Portfolio(db) /\ this[4] = e.id
  <2>1. /\ Said(newest, zone, "type") = "HVAC Zone"
        /\ Said(newest, floor, "type") = "Floor"
        /\ Said(newest, property, "type") = "Building"
    BY <1>7 DEF Placed, zone, floor, property
  <2>2. None \notin {"HVAC Zone", "Floor", "Building"}
    BY RegisterAssumption DEF SpaceTypes
  <2>3. /\ zone \in Ids(newest.spaces) /\ floor \in Ids(newest.spaces)
        /\ property \in Ids(newest.spaces)
    BY <2>1, <2>2 DEF Said
  <2>4. /\ Ids(newest.spaces) \subseteq DOMAIN db.spaces
        /\ None \notin Ids(newest.spaces)
    BY UnmovedSays
  <2>5. /\ zone \in Objects(db, e.id, "feeds")
        /\ floor \in Objects(db, zone, "isPartOf")
        /\ property \in Objects(db, floor, "isPartOf")
    BY <1>3, <2>3, <2>4 DEF Only
  <2>6. /\ e.id \in Subjects(db, "feeds", zone)
        /\ zone \in Subjects(db, "isPartOf", floor)
        /\ floor \in Subjects(db, "isPartOf", property)
    BY <2>5, ObjectsSay
  <2>7. property \in DOMAIN db.spaces
    BY <2>3, <2>4
  <2>8. this \in Portfolio(db)
    BY <1>4, <1>5, <2>1, <2>6, <2>7, PortfolioShows DEF this
  <2> QED
    BY <2>8 DEF this
<1>8. {place \in Portfolio(db) : place[4] = e.id} = IF Placed(newest, h) THEN {this} ELSE {}
  BY <1>6, <1>7
<1> QED
  BY <1>8 DEF this, zone, floor, property

-----------------------------------------------------------------------------
(* The devices around an AHU.                                              *)

(* The devices on spaces, whatever else is looked at with them.            *)
LEMMA DevicesAreThose ==
    ASSUME Unmoved, NEW all, NEW spaces, NEW type,
           spaces = all \cap Ids(newest.spaces)
    PROVE  DevicesOn(db, all, type) = Measuring(newest, spaces, type)
<1>1. newest \in Registers /\ ValidSource(newest)
  BY UnmovedSays
<1>2. \A pair : pair \in DevicesOn(db, all, type) <=>
        \E s \in all : \E x : /\ pair = <<x, s>>
                              /\ x \in Subjects(db, "meters", s) /\ x \in Equipment(db, type)
  BY DEF DevicesOn
<1>3. \A pair : pair \in Measuring(newest, spaces, type) <=>
        \E e \in ToSet(newest.equipment) : /\ e.type = type /\ e.scope \in spaces
                                           /\ pair = <<e.id, e.scope>>
  BY DEF Measuring
<1>4. \A e \in ToSet(newest.equipment) :
        /\ e.id \in Equipment(db, type) <=> e.type = type
        /\ e.id # None
        /\ e.scope # None => e.scope \in Ids(newest.spaces)
  BY <1>1, AssetIsCurrent, PlacesAreThere DEF Unmoved
<1>5. \A x, s : x \in Subjects(db, "meters", s) <=>
        x # None /\ s # None /\ \E e \in ToSet(newest.equipment) : x = e.id /\ s = e.scope
  BY ObjectsSay
<1>6. None \notin Ids(newest.spaces)
  BY UnmovedSays
<1>7. ASSUME NEW pair \in DevicesOn(db, all, type)
      PROVE  pair \in Measuring(newest, spaces, type)
  <2>1. PICK s \in all : \E x : /\ pair = <<x, s>>
                                /\ x \in Subjects(db, "meters", s) /\ x \in Equipment(db, type)
    BY <1>2
  <2>2. PICK x : /\ pair = <<x, s>>
                 /\ x \in Subjects(db, "meters", s) /\ x \in Equipment(db, type)
    BY <2>1
  <2>3. PICK e \in ToSet(newest.equipment) : x = e.id /\ s = e.scope /\ s # None
    BY <1>5, <2>2
  <2>4. e.type = type /\ e.scope \in spaces
    BY <1>4, <2>2, <2>3
  <2> QED
    BY <1>3, <2>2, <2>3, <2>4
<1>8. ASSUME NEW pair \in Measuring(newest, spaces, type)
      PROVE  pair \in DevicesOn(db, all, type)
  <2>1. PICK e \in ToSet(newest.equipment) : /\ e.type = type /\ e.scope \in spaces
                                             /\ pair = <<e.id, e.scope>>
    BY <1>3
  <2>2. e.scope \in all /\ e.scope # None
    BY <1>6, <2>1
  <2>3. e.id \in Subjects(db, "meters", e.scope) /\ e.id \in Equipment(db, type)
    BY <1>4, <1>5, <2>1, <2>2
  <2> QED
    BY <1>2, <2>1, <2>2, <2>3
<1> QED
  BY <1>7, <1>8

LEMMA DevicesAround ==
    ASSUME Unmoved, NEW e \in AhusOf(newest)
    PROVE  LET h == Home(newest, e)
           IN  /\ EquipmentContext(db, e.id).room_iaq =
                    Measuring(newest, {s.id : s \in PartsOf(newest, h.zone)}, "IAQ Sensor")
               /\ EquipmentContext(db, e.id).floor_meters =
                    Measuring(newest, {h.floor} \ {None}, "Electricity Meter")
<1> DEFINE zone  == Home(newest, e).zone
           floor == Home(newest, e).floor
           zones == Objects(db, e.id, "feeds")
           parts == UNION {Objects(db, z, "hasPart") : z \in zones}
           above == UNION {Objects(db, z, "isPartOf") : z \in zones}
           ids   == {s.id : s \in PartsOf(newest, zone)}
<1>1. e \in ToSet(newest.equipment)
  BY DEF AhusOf
<1>2. /\ zone = e.served /\ floor = Said(newest, zone, "parent")
      /\ zone \in Ids(newest.spaces) \cup {None}
      /\ floor \in Ids(newest.spaces) \cup {None}
  BY <1>1, TheRoute DEF Home
<1>3. /\ EquipmentContext(db, e.id).room_iaq = DevicesOn(db, parts, "IAQ Sensor")
      /\ EquipmentContext(db, e.id).floor_meters = DevicesOn(db, above, "Electricity Meter")
  BY DEF EquipmentContext
<1>4. newest \in Registers /\ ValidSource(newest) /\ None \notin Ids(newest.spaces)
        /\ Ids(newest.spaces) \subseteq DOMAIN db.spaces
  BY UnmovedSays
<1> HIDE DEF zone, floor
<1>5. zones = Only(zone)
  BY <1>1, <1>2, FromAnAsset
<1>6. ids = parts \cap Ids(newest.spaces)
  <2>1. ids \subseteq Ids(newest.spaces)
    BY <1>4, SpaceSays DEF PartsOf
  <2>2. \A y \in Ids(newest.spaces) : y \in Objects(db, zone, "hasPart") <=> y \in ids
    BY <1>4, PartsOfASpace
  <2>3. CASE zone # None
    <3>1. zones = {zone}
      BY <1>5, <2>3 DEF Only
    <3>2. parts = Objects(db, zone, "hasPart")
      BY <3>1
    <3> HIDE DEF ids, parts
    <3> QED
      BY <2>1, <2>2, <3>2
  <2>4. CASE zone = None
    <3>1. zones = {} /\ ids = {}
      BY <1>5, <2>4 DEF Only, PartsOf
    <3> QED
      BY <3>1
  <2> QED
    BY <2>3, <2>4
<1>7. above = {floor} \ {None} /\ above = above \cap Ids(newest.spaces)
  <2>1. CASE zone # None
    <3>1. zones = {zone}
      BY <1>5, <2>1 DEF Only
    <3>2. above = Objects(db, zone, "isPartOf")
      BY <3>1
    <3>3. above = {floor} \ {None}
      BY <1>2, <3>2, FromASpace DEF Only
    <3> HIDE DEF above
    <3> QED
      BY <1>2, <3>3
  <2>2. CASE zone = None
    <3>1. zones = {} /\ floor = None
      BY <1>2, <1>4, <1>5, <2>2 DEF Only, Said
    <3> QED
      BY <3>1
  <2> QED
    BY <2>1, <2>2
<1> HIDE DEF ids, parts, above
<1>8. DevicesOn(db, parts, "IAQ Sensor") = Measuring(newest, ids, "IAQ Sensor")
  BY <1>6, DevicesAreThose
<1>9. DevicesOn(db, above, "Electricity Meter") = Measuring(newest, above, "Electricity Meter")
  BY <1>7, DevicesAreThose
<1> QED
  BY <1>3, <1>7, <1>8, <1>9 DEF ids, zone, floor

-----------------------------------------------------------------------------
(* The floor that is stored with an AHU.                                   *)

(* A set of naturals has a least element.                                  *)
LEMMA LeastNumber ==
    ASSUME NEW S, S \subseteq Nat, S # {}
    PROVE  \E x \in S : \A y \in S : x <= y
<1>1. \E x \in S : \A y \in S : <<y, x>> \notin OpToRel(<, Nat)
  BY NatLessThanWellFounded, WFMin
<1>2. \A x, y \in Nat : <<y, x>> \in OpToRel(<, Nat) <=> y < x
  BY DEF OpToRel
<1>3. PICK x \in S : \A y \in S : <<y, x>> \notin OpToRel(<, Nat)
  BY <1>1
<1>4. \A y \in S : ~(y < x) /\ y \in Nat /\ x \in Nat
  BY <1>2, <1>3
<1> QED
  BY <1>4

(* A walk that ends after three spaces is the walk over those.             *)
LEMMA WalkOfThree ==
    ASSUME NEW spaces, Len(spaces) \in Nat, NEW x,
           ParentOf(spaces, ParentOf(spaces, ParentOf(spaces, x))) = None,
           ParentOf(spaces, None) = None
    PROVE  /\ DOMAIN Walk(spaces, x) = 0..Len(spaces)
           /\ \A n \in 0..Len(spaces) :
                Walk(spaces, x)[n] = IF n = 0 THEN x
                                     ELSE IF n = 1 THEN ParentOf(spaces, x)
                                     ELSE IF n = 2 THEN ParentOf(spaces, ParentOf(spaces, x))
                                     ELSE None
<1> DEFINE all     == 0..Len(spaces)
           first   == ParentOf(spaces, x)
           second  == ParentOf(spaces, first)
           path(n) == IF n = 0 THEN x ELSE IF n = 1 THEN first
                      ELSE IF n = 2 THEN second ELSE None
           Is(f)   == f = [n \in all |-> IF n = 0 THEN x ELSE ParentOf(spaces, f[n - 1])]
           up      == CHOOSE f : Is(f)
<1>1. Is([n \in all |-> path(n)])
  <2> DEFINE g == [n \in all |-> path(n)]
  <2>1. \A n \in all : g[n] = IF n = 0 THEN x ELSE ParentOf(spaces, g[n - 1])
    <3> TAKE n \in all
    <3>1. g[n] = path(n) /\ (n # 0 => n - 1 \in all /\ g[n - 1] = path(n - 1))
      OBVIOUS
    <3> HIDE DEF g
    <3>2. n # 0 => path(n) = ParentOf(spaces, path(n - 1))
      <4>1. CASE n = 1
        BY <4>1
      <4>2. CASE n = 2
        BY <4>2
      <4>3. CASE n = 3
        BY <4>3
      <4>4. CASE n > 3
        BY <4>4
      <4> QED
        BY <4>1, <4>2, <4>3, <4>4
    <3>3. path(0) = x
      OBVIOUS
    <3> HIDE DEF path
    <3> QED
      BY <3>1, <3>2, <3>3
  <2>2. g = [n \in all |-> g[n]]
    OBVIOUS
  <2> HIDE DEF g
  <2> QED
    BY <2>1, <2>2
<1>2. Is(up)
  BY <1>1
<1>3. Walk(spaces, x) = up
  BY DEF Walk
<1>4. DOMAIN up = all /\ \A n \in all : up[n] = IF n = 0 THEN x ELSE ParentOf(spaces, up[n - 1])
  <2> HIDE DEF up
  <2> QED
    BY <1>2
<1> HIDE DEF up
<1>5. \A n \in all : up[n] = path(n)
  <2> DEFINE differ == {n \in all : up[n] # path(n)}
  <2> SUFFICES ASSUME differ # {} PROVE FALSE
    OBVIOUS
  <2>0. differ \subseteq Nat
    OBVIOUS
  <2>1. PICK k \in differ : \A m \in differ : k <= m
    <3> HIDE DEF differ
    <3> QED
      BY <2>0, LeastNumber
  <2>2. k # 0
    BY <1>4, <2>1
  <2>3. k - 1 \in all /\ up[k - 1] = path(k - 1)
    BY <2>1, <2>2
  <2>4. up[k] = ParentOf(spaces, path(k - 1))
    BY <1>4, <2>2, <2>3
  <2>5. path(k) = ParentOf(spaces, path(k - 1))
    <3>1. CASE k = 1
      BY <3>1
    <3>2. CASE k = 2
      BY <3>2
    <3>3. CASE k = 3
      BY <3>3
    <3>4. CASE k > 3
      BY <3>4
    <3> QED
      BY <2>2, <3>1, <3>2, <3>3, <3>4
  <2> QED
    BY <2>1, <2>4, <2>5
<1> QED
  BY <1>3, <1>4, <1>5

(* A space with a row leaves room for a second step of the walk.           *)
LEMMA RoomForAStep ==
    ASSUME NEW rows, NEW x \in Ids(rows), Len(rows) \in Nat,
           DOMAIN rows = 1..Len(rows)
    PROVE  1 \in 0..Len(rows)
<1> DEFINE size == Len(rows)
<1>1. PICK i \in DOMAIN rows : rows[i].id = x
  BY DEF Ids
<1>2. size \in Nat /\ i \in 1..size
  BY <1>1
<1> HIDE DEF size
<1>3. 1 \in 0..size
  BY <1>2
<1> QED
  BY <1>3 DEF size

LEMMA MaxOfOne == Max({1}) = 1
<1>1. \A y \in {1} : 1 >= y
  OBVIOUS
<1>2. \E x \in {1} : \A y \in {1} : x >= y
  BY <1>1
<1>3. (CHOOSE x \in {1} : \A y \in {1} : x >= y) \in {1}
  BY <1>2
<1> QED
  BY <1>3 DEF Max

(* On a walk of three the second space is the context of its type.         *)
LEMMA SecondIsTheContext ==
    ASSUME NEW spaces, Len(spaces) \in Nat, 1 \in 0..Len(spaces),
           NEW x, NEW y, NEW z, NEW type,
           ParentOf(spaces, x) = y, ParentOf(spaces, y) = z,
           ParentOf(spaces, z) = None, ParentOf(spaces, None) = None,
           y # None, RowOf(spaces, y).type = type,
           RowOf(spaces, x).type # type, RowOf(spaces, z).type # type
    PROVE  ContextOf(spaces, x, type) = y
<1> DEFINE up == Walk(spaces, x)
           at == {n \in DOMAIN up : up[n] # None /\ RowOf(spaces, up[n]).type = type}
<1>1. /\ DOMAIN up = 0..Len(spaces)
      /\ \A n \in 0..Len(spaces) :
           up[n] = IF n = 0 THEN x ELSE IF n = 1 THEN ParentOf(spaces, x)
                   ELSE IF n = 2 THEN ParentOf(spaces, ParentOf(spaces, x)) ELSE None
  <2>1. ParentOf(spaces, ParentOf(spaces, ParentOf(spaces, x))) = None
    OBVIOUS
  <2> QED
    BY <2>1, WalkOfThree
<1>2. ContextOf(spaces, x, type) = IF at = {} THEN None ELSE up[Max(at)]
  BY DEF ContextOf
<1> HIDE DEF up
<1>3. \A n \in DOMAIN up : up[n] = x \/ n = 1 \/ up[n] = z \/ up[n] = None
  BY <1>1
<1>4. 1 \in DOMAIN up /\ up[1] = y
  BY <1>1
<1>5. at = {1}
  <2>1. 1 \in at
    BY <1>4
  <2>2. \A n \in at : n = 1
    BY <1>3
  <2> QED
    BY <2>1, <2>2
<1> HIDE DEF at
<1>6. Max(at) = 1 /\ at # {}
  BY <1>5, MaxOfOne
<1> QED
  BY <1>2, <1>4, <1>6

(* A zone on a floor of a building that is in nothing else is stored as on *)
(* that floor.                                                             *)
OnTopFloor(reg, zone) ==
    LET floor    == Said(reg, zone, "parent")
        property == Said(reg, floor, "parent")
    IN  /\ Said(reg, zone, "type") = "HVAC Zone"
        /\ Said(reg, floor, "type") = "Floor"
        /\ Said(reg, property, "type") = "Building"
        /\ Said(reg, property, "parent") = None

LEMMA ContextIsTheFloor ==
    ASSUME NEW reg \in Registers, ValidSource(reg), NEW zone, OnTopFloor(reg, zone)
    PROVE  ContextOf(reg.spaces, zone, "Floor") = Said(reg, zone, "parent")
<1> DEFINE spaces   == reg.spaces
           floor    == Said(reg, zone, "parent")
           property == Said(reg, floor, "parent")
<1>1. None # "Floor" /\ None # "HVAC Zone" /\ None # "Building"
  BY RegisterAssumption DEF SpaceTypes
<1>2. /\ zone \in Ids(spaces) /\ RowOf(spaces, zone).type = "HVAC Zone"
      /\ floor \in Ids(spaces) /\ RowOf(spaces, floor).type = "Floor"
      /\ property \in Ids(spaces) /\ RowOf(spaces, property).type = "Building"
  BY <1>1 DEF OnTopFloor, Said
<1>3. IsTable(spaces) /\ Unique(spaces)
  BY RegistersAreTables
<1>4. \A x : ParentOf(spaces, x) = Said(reg, x, "parent")
  BY DEF ParentOf, Said
<1>5. ParentOf(spaces, property) = None
  BY <1>4 DEF OnTopFloor
<1> HIDE DEF spaces
<1>6. Len(spaces) \in Nat /\ DOMAIN spaces = 1..Len(spaces) /\ None \notin Ids(spaces)
  BY <1>3, TablesAreSequences
<1>7. 1 \in 0..Len(spaces)
  BY <1>2, <1>6, RoomForAStep
<1>8. ParentOf(spaces, None) = None
  BY <1>6 DEF ParentOf
<1>9. ParentOf(spaces, zone) = floor /\ ParentOf(spaces, floor) = property
  BY <1>4
<1>10. floor # None /\ "HVAC Zone" # "Floor" /\ "Building" # "Floor"
  BY <1>2, <1>6
<1> HIDE DEF floor, property
<1>11. ASSUME NEW type, type = "Floor"
       PROVE  ContextOf(spaces, zone, type) = floor
  <2>1. /\ RowOf(spaces, floor).type = type
        /\ RowOf(spaces, zone).type # type
        /\ RowOf(spaces, property).type # type
    BY <1>2, <1>10, <1>11
  <2> QED
    BY <2>1, <1>5, <1>6, <1>7, <1>8, <1>9, <1>10, SecondIsTheContext
<1> QED
  BY <1>11 DEF spaces, floor

LEMMA FloorIsStored ==
    ASSUME Unmoved, NEW e \in AhusOf(newest),
           Placed(newest, Home(newest, e)),
           Said(newest, Home(newest, e).property, "parent") = None
    PROVE  db.equipment[e.id].floor = Home(newest, e).floor
<1>1. e \in ToSet(newest.equipment)
  BY DEF AhusOf
<1>2. newest \in Registers /\ ValidSource(newest) /\ None \notin Ids(newest.spaces)
  BY UnmovedSays
<1>3. /\ Home(newest, e).zone = e.served
      /\ Home(newest, e).floor = Said(newest, e.served, "parent")
      /\ Home(newest, e).property = Said(newest, Said(newest, e.served, "parent"), "parent")
  BY DEF Home
<1>4. e.served # None
  <2>1. Said(newest, e.served, "type") = "HVAC Zone" /\ None # "HVAC Zone"
    BY <1>3, RegisterAssumption DEF Placed, SpaceTypes
  <2> QED
    BY <1>2, <2>1 DEF Said
<1>5. ContextOf(newest.spaces, e.served, "Floor") = Said(newest, e.served, "parent")
  BY <1>2, <1>3, ContextIsTheFloor DEF Placed, OnTopFloor
<1>6. db.equipment[e.id] = WithContext(newest, e)
  BY <1>1, AssetIsCurrent DEF Unmoved
<1>7. WithContext(newest, e).floor = ContextOf(newest.spaces, e.served, "Floor")
  BY <1>4 DEF WithContext
<1> QED
  BY <1>3, <1>5, <1>6, <1>7

-----------------------------------------------------------------------------
(* All readers agree.                                                      *)

LEMMA TheReadersAgree ==
    ASSUME InventoryInv PROVE ReadersAgree
<1> SUFFICES ASSUME newest # None, db.edges = Edges(newest), NEW e \in AhusOf(newest)
             PROVE  SeenAt(newest, Home(newest, e))
  BY DEF ReadersAgree
<1>1. Unmoved
  BY DEF Unmoved
<1> DEFINE h == Home(newest, e)
<1>2. h.ahu = e.id
  BY DEF Home
<1>3. {f \in TargetFacts(db) : f.ahu = e.id} = {h}
  BY <1>1, OneFact
<1>4. {[location |-> t.location, zone |-> t.zone] : t \in Topologies(db, e.id)}
           = {[location |-> h.location, zone |-> h.zone]}
  BY <1>1, OneTopology
<1>5. {place \in Portfolio(db) : place[4] = e.id}
           = IF Placed(newest, h) THEN {<<h.property, h.floor, h.zone, e.id>>} ELSE {}
  BY <1>1, OnePlace
<1>6. Cardinality(CountedRows(db, e.id, h.property)) = 1
  BY <1>1, CountedOnce
<1>7. Placed(newest, h) /\ Said(newest, h.property, "parent") = None
        => db.equipment[e.id].floor = h.floor
  BY <1>1, FloorIsStored
<1>8. /\ EquipmentContext(db, e.id).room_iaq =
           Measuring(newest, {s.id : s \in PartsOf(newest, h.zone)}, "IAQ Sensor")
      /\ EquipmentContext(db, e.id).floor_meters =
           Measuring(newest, {h.floor} \ {None}, "Electricity Meter")
  BY <1>1, DevicesAround
<1> HIDE DEF h
<1>9. SeenAt(newest, h)
  BY <1>2, <1>3, <1>4, <1>5, <1>6, <1>7, <1>8 DEF SeenAt
<1> QED
  BY <1>9 DEF h

(* As long as no relation has changed, the rule preview, the topology, the *)
(* portfolio with its issue counts, the device context and the stored      *)
(* metadata, five ways to join one graph, place every AHU alike and once,  *)
(* where the last register says: under the edges of one register every     *)
(* relation a route follows leads to one thing at most.                    *)
THEOREM AllReadersAgree == InventorySpec => []ReadersAgree
  BY InventoryInvHolds, TheReadersAgree, PTL
=============================================================================
