---------------------------- MODULE MCIngestion -----------------------------
(***************************************************************************)
(* Small instances of Ingestion: two AHU points, events that are late, of  *)
(* equal time, malformed, of unknown equipment.                            *)
(***************************************************************************)
EXTENDS Ingestion

CONSTANTS c1, c2, p1, p2, sat, run, ahu, ghost

Event(id, p, x, at, points) ==
    [ id |-> id, partition |-> p, malformed |-> FALSE, equipment |-> x,
      defect |-> FALSE, observed_at |-> at, values |-> [pt \in points |-> id] ]

(* 3 is late behind 2; 1 has the time of 2 and a smaller set of points.    *)
newer     == Event(2, p1, ahu, 2, {sat, run})
late      == Event(3, p1, ahu, 1, {sat, run})
tie       == Event(1, p1, ahu, 2, {sat})
stranger  == Event(4, p1, ghost, 2, {sat})
malformed == [Event(5, p1, ahu, 2, {}) EXCEPT !.malformed = TRUE]
defective == [Event(6, p1, ahu, 2, {sat}) EXCEPT !.defect = TRUE]

DeliveryEvents == {newer, late, tie}
RecoveryEvents == {newer, stranger, malformed, defective}
=============================================================================
