--------------------------- MODULE TelemetryStore ---------------------------
(***************************************************************************)
(* What the telemetry tables promise their readers (the evaluator, the     *)
(* API, the dashboard), whatever the broker delivers and however often:    *)
(* an event is disposed of once and for good, and the current value of a   *)
(* point comes from the accepted event that is newest in device time, the  *)
(* event id deciding between equal times.                                  *)
(***************************************************************************)
EXTENDS Integers

CONSTANTS
    Events,    \* the events that can be delivered
    Points,    \* telemetry points
    None

VARIABLES
    status,    \* status[e]: None, "ACCEPTED" or "REJECTED"
    latest     \* latest[pt]: the event the current value comes from, or None

storeVars == <<status, latest>>

(* e has a value for the point.                                            *)
Measures(e, pt) == pt \in DOMAIN e.values

NewerEvent(e, f) ==
    \/ e.observed_at > f.observed_at
    \/ e.observed_at = f.observed_at /\ e.id > f.id

StoreInit ==
    /\ status = [e \in Events |-> None]
    /\ latest = [pt \in Points |-> None]

Reject(e) ==
    /\ status[e] = None
    /\ status' = [status EXCEPT ![e] = "REJECTED"]
    /\ UNCHANGED latest

(* latest is restated from all accepted events, not updated.               *)
Accept(e) ==
    /\ status[e] = None
    /\ status' = [status EXCEPT ![e] = "ACCEPTED"]
    /\ \A pt \in Points :
         LET mine == {f \in Events : status'[f] = "ACCEPTED" /\ Measures(f, pt)}
         IN  IF mine = {}
             THEN latest'[pt] = None
             ELSE /\ latest'[pt] \in mine
                  /\ \A f \in mine \ {latest'[pt]} : NewerEvent(latest'[pt], f)
    /\ DOMAIN latest' = Points

StoreNext == \E e \in Events : Reject(e) \/ Accept(e)

StoreSpec == StoreInit /\ [][StoreNext]_storeVars
=============================================================================
