----------------------------- MODULE MCInventory -----------------------------
(***************************************************************************)
(* A small instance of Inventory: an office tower and a hotel, an AHU of   *)
(* the tower with three points, a room sensor and a floor meter, and what  *)
(* can become of that register from one import to the next.                *)
(***************************************************************************)
EXTENDS Inventory

Space(id, type, parent, name, usage, ptype) ==
    [ id |-> id, name |-> name, type |-> type, parent |-> parent,
      usage |-> usage, property_type |-> ptype ]

Asset(id, type, installed, served, scope) ==
    [ id |-> id, type |-> type, property |-> "tower", installed |-> installed,
      served |-> served, scope |-> scope ]

Point(id, name) == [id |-> id, owner |-> "ahu", name |-> name]

base ==
    [ spaces |->
        << Space("tower", "Building", None, "Tower", "Office", "Office"),
           Space("hotel", "Building", None, "Hotel", "Lodging", "Hotel"),
           Space("plant", "Room", "tower", "Plant", "Plant Room", None),
           Space("t1", "Floor", "tower", "Floor 1", None, None),
           Space("h1", "Floor", "hotel", "Floor 1", None, None),
           Space("h2", "Floor", "hotel", "Floor 2", None, None),
           Space("east", "HVAC Zone", "t1", "East", "Tenant Area", None),
           Space("suite", "HVAC Zone", "h1", "Suite", "Guest Area", None),
           Space("desk", "Room", "east", "Desk", "Office Room", None),
           Space("bed", "Room", "suite", "Bed", "Guest Room", None) >>,
      equipment |->
        << Asset("ahu", "AHU", "plant", "east", None),
           Asset("iaq", "IAQ Sensor", "desk", None, "desk"),
           Asset("meter", "Electricity Meter", "plant", None, "t1") >>,
      points |-> <<Point("p1", "RUN"), Point("p2", "SAT"), Point("p3", "SAT_SP")>> ]

(* Valid registers.                                                        *)
renamed == [base EXCEPT !.spaces[1] = Space("tower", "Building", None, "Hotel", "Retail", "Retail"),
                        !.spaces[7].usage = "Lobby",
                        !.spaces[10].type = "Floor"]
moved   == [base EXCEPT !.equipment[1].served = "suite"]
refloored == [base EXCEPT !.spaces[7].parent = "h2"]
pruned  == [base EXCEPT !.points = <<Point("p1", "RUN"), Point("p3", "SAT_SP")>>]
unfed   == [base EXCEPT !.equipment[1].served = None]
resited == [base EXCEPT !.equipment[1].installed = "desk", !.equipment[2].scope = "bed"]
grown   == [base EXCEPT !.equipment = Append(@, [Asset("ahu2", "AHU", "bed", "suite", None)
                                                     EXCEPT !.property = "hotel"]),
                        !.points = Append(@, [Point("p6", "SAT") EXCEPT !.owner = "ahu2"]),
                        !.spaces = Append(@, Space("sofa", "Room", "suite", "Sofa", "Guest Room", None))]

(* Registers that are refused, the first two after others only: an id and  *)
(* the name of another point are taken.                                    *)
rekeyed   == [base EXCEPT !.points[1].id = "p5"]
swapped   == [base EXCEPT !.points[1].name = "SAT", !.points[2].name = "RUN"]
dangling  == [base EXCEPT !.spaces[9].parent = "north"]
cyclic    == [base EXCEPT !.spaces[4].parent = "east"]
ownerless == [base EXCEPT !.equipment[2].property = None]

MCRegisters ==
    {base, renamed, moved, refloored, pruned, unfed, resited, grown,
     rekeyed, swapped, dangling, cyclic, ownerless}

MCQueries ==
    [ properties : {{}, {"tower"}, {"Hotel"}, {"tower", "hotel"}},
      floors     : {{}, {"Floor 1"}, {"h2"}, {"t1", "Floor 2"}},
      usages     : {{}, {"Tenant Area"}, {"Office"}, {"Hotel"}, {"Guest Area", "Floor 1"}} ]
=============================================================================
