----------------------------- MODULE Ingestion ------------------------------
(***************************************************************************)
(* The telemetry path: the simulator publishes events to a partitioned     *)
(* log, a group of ingestion consumers (apps/ingestion/main.py) fetches    *)
(* them, runs process_payload (src/afdd/telemetry.py) in a transaction for *)
(* each and commits the broker offset afterwards.                          *)
(*                                                                         *)
(* An attempt at a message is two steps, the SELECT that looks for an      *)
(* earlier copy and the writes, because another consumer may hold the same *)
(* message: after a rebalance the previous owner of a partition goes on    *)
(* with the batch it has already fetched.  Attempts fail, commits are      *)
(* acknowledged or not, consumers crash and are restarted, and the log     *)
(* itself holds an event twice when the simulator sends it twice.          *)
(*                                                                         *)
(* The broker and its group protocol are modelled from how the consumer    *)
(* uses them: one owner per partition, a new owner starts at the committed *)
(* offset, and a commit for a partition that is not owned raises.          *)
(***************************************************************************)
EXTENDS Integers, Sequences, FiniteSets

CONSTANTS
    Partitions,
    Consumers,
    Events,        \* records [id, partition, malformed, equipment, defect,
                   \*          observed_at, values]; values maps the points
                   \*          the event measures to their values
    Points,
    Equipment,
    Seeded,        \* the equipment the ontology knows at the start
    MaxMessages,   \* bound on the messages of a partition
    MaxFailures,   \* bound on failed attempts and crashes
    MaxRebalances, \* bound on rebalances
    None

(* One equipment always has the same message key, hence one partition; the *)
(* id is derived from the source record, so it identifies the event.       *)
ASSUME EventAssumption ==
    \A e \in Events :
        /\ e.id \in Nat /\ e.observed_at \in Nat
        /\ e.partition \in Partitions
        /\ DOMAIN e.values \subseteq Points
        /\ \A f \in Events : e.id = f.id => e = f

ASSUME IngestionBounds ==
    /\ MaxMessages \in Nat /\ MaxFailures \in Nat /\ MaxRebalances \in Nat
    /\ Seeded \subseteq Equipment

ASSUME IngestionNone ==
    /\ None \notin Partitions /\ None \notin Events
    /\ None \notin {"ACCEPTED", "REJECTED"}
    /\ None \notin [status : {"ACCEPTED", "REJECTED"}, received_at : Nat]

VARIABLES
    (* the broker *)
    log,         \* log[p]: messages [event, received_at] of partition p
    clock,       \* the time of the last message, a counter
    owner,       \* owner[p]: the consumer the group assigns p to
    position,    \* position[p]: the offset the owner fetches next
    committed,   \* committed[p]: the committed offset
    (* a consumer: batch[c] is next[c][p]..upto[c][p]-1 of every partition *)
    pc, next, upto,
    turn,        \* the partition whose records the consumer is going through
    found,       \* what the SELECT of the open transaction found
    tries,       \* failed attempts at the current message
    (* the database *)
    known,       \* equipment in the ontology
    rows,        \* ingestion_events: rows[e] is None or [status, received_at]
    attempts,    \* ingestion_attempts: how many of e per disposition
    readings,    \* telemetry_readings: a set of [event, point]
    current,     \* current_point_values: current[pt] is an event or None
    (* bounds *)
    failures, rebalances

brokerVars   == <<log, clock, owner, position, committed>>
consumerVars == <<pc, next, upto, turn, found, tries>>
dbVars       == <<known, rows, attempts, readings, current>>
boundVars    == <<failures, rebalances>>
ingestVars   == <<brokerVars, consumerVars, dbVars, boundVars>>

Dispositions == {"ACCEPTED", "DUPLICATE", "REJECTED"}

Zero == [p \in Partitions |-> 0]

IngestInit ==
    /\ log = [p \in Partitions |-> <<>>]
    /\ clock = 0
    /\ owner \in [Partitions -> Consumers]
    /\ position = Zero
    /\ committed = Zero
    /\ pc    = [c \in Consumers |-> "poll"]
    /\ next  = [c \in Consumers |-> Zero]
    /\ upto  = [c \in Consumers |-> Zero]
    /\ turn  = [c \in Consumers |-> None]
    /\ found = [c \in Consumers |-> FALSE]
    /\ tries = [c \in Consumers |-> 0]
    /\ known = Seeded
    /\ rows  = [e \in Events |-> None]
    /\ attempts = [e \in Events |-> [d \in Dispositions |-> 0]]
    /\ readings = {}
    /\ current  = [pt \in Points |-> None]
    /\ failures = 0
    /\ rebalances = 0

-----------------------------------------------------------------------------
(* The world around the consumers.                                         *)

(* The simulator sends an event, for the first time or again.  received_at *)
(* is the time it was built at.  Building and appending are one step: one  *)
(* simulator waits for the broker before it builds the next event.  Two    *)
(* simulators at once could append out of the order of their stamps.       *)
Publish(e) ==
    /\ Len(log[e.partition]) < MaxMessages
    /\ clock' = clock + 1
    /\ log' = [log EXCEPT ![e.partition] =
                  Append(@, [event |-> e, received_at |-> clock + 1])]
    /\ UNCHANGED <<owner, position, committed, consumerVars, dbVars, boundVars>>

(* The seed adds equipment to the ontology.                                *)
SeedEquipment(x) ==
    /\ x \notin known
    /\ known' = known \cup {x}
    /\ UNCHANGED <<brokerVars, consumerVars, rows, attempts, readings, current,
                   boundVars>>

(* The group gives a partition to another consumer, which will fetch from  *)
(* the committed offset.  The old owner keeps its batch.                   *)
Rebalance(p, c) ==
    /\ owner[p] # c
    /\ rebalances < MaxRebalances
    /\ rebalances' = rebalances + 1
    /\ owner' = [owner EXCEPT ![p] = c]
    /\ position' = [position EXCEPT ![p] = committed[p]]
    /\ UNCHANGED <<log, clock, committed, consumerVars, dbVars, failures>>

-----------------------------------------------------------------------------
(* The consumer loop.                                                      *)

(* getmany: some records of the owned partitions, from their positions.    *)
Poll(c) ==
    /\ pc[c] = "poll"
    /\ \E end \in [Partitions -> 0..MaxMessages] :
         /\ \A p \in Partitions :
              /\ position[p] <= end[p] /\ end[p] <= Len(log[p])
              /\ owner[p] # c => end[p] = position[p]
         /\ \E p \in Partitions : position[p] < end[p]
         /\ next' = [next EXCEPT ![c] = position]
         /\ upto' = [upto EXCEPT ![c] = end]
         /\ position' = end
    /\ pc' = [pc EXCEPT ![c] = "lookup"]
    /\ UNCHANGED <<log, clock, owner, committed, turn, found, tries, dbVars,
                   boundVars>>

(* An empty batch: the loop goes round.                                    *)
EmptyPoll(c) ==
    /\ pc[c] = "poll"
    /\ \A p \in Partitions : owner[p] = c => position[p] = Len(log[p])
    /\ UNCHANGED ingestVars

Message(c) == log[turn[c]][next[c][turn[c]] + 1]
EventOf(c) == Message(c).event

(* The next message, of the partition in turn or, between partitions, of   *)
(* any; and the SELECT for an earlier copy.                                *)
Lookup(c) ==
    /\ pc[c] = "lookup"
    /\ \E p \in Partitions :
         /\ turn[c] \in {None, p}
         /\ next[c][p] < upto[c][p]
         /\ turn'  = [turn EXCEPT ![c] = p]
         /\ found' = [found EXCEPT ![c] = rows[log[p][next[c][p] + 1].event] # None]
    /\ pc' = [pc EXCEPT ![c] = "write"]
    /\ UNCHANGED <<brokerVars, next, upto, tries, dbVars, boundVars>>

(* Contract and ontology checks.                                           *)
Disposition(e) ==
    IF e.malformed \/ e.equipment \notin known \/ e.defect
    THEN "REJECTED" ELSE "ACCEPTED"

(* Variant: no unique keys.                                                *)
UniqueViolation_Never(c) == FALSE

(* The primary key and the (source, record) key of ingestion_events.       *)
UniqueViolation(c) == ~found[c] /\ rows[EventOf(c)] # None

(* Variants: between equal times the last writer wins; it always wins.     *)
Supersedes_TieLast(e, old) == old = None \/ e.observed_at >= old.observed_at
Supersedes_Always(e, old) == TRUE

Supersedes(e, old) ==
    \/ old = None
    \/ e.observed_at > old.observed_at
    \/ e.observed_at = old.observed_at /\ e.id > old.id

(* Variant: a rejected event leaves its readings too.                      *)
Record_RejectedToo(c) ==
    LET e  == EventOf(c)
        d  == IF found[c] THEN "DUPLICATE" ELSE Disposition(e)
        in == IF found[c] THEN {} ELSE DOMAIN e.values
    IN  /\ attempts' = [attempts EXCEPT ![e][d] = @ + 1]
        /\ rows' = IF found[c] THEN rows
                   ELSE [rows EXCEPT ![e] =
                           [ status      |-> d,
                             received_at |-> Message(c).received_at ]]
        /\ readings' = readings \cup {[event |-> e, point |-> pt] : pt \in in}
        /\ current' = [pt \in Points |->
                          IF pt \in in /\ Supersedes(e, current[pt])
                          THEN e ELSE current[pt]]
        /\ UNCHANGED known

(* The writes of process_payload.  A measurement repeated inside an event  *)
(* conflicts with its first copy in both tables, so values is a function.  *)
(* A quarantined event is stamped with the time of its processing.         *)
Record(c) ==
    LET e  == EventOf(c)
        d  == IF found[c] THEN "DUPLICATE" ELSE Disposition(e)
        in == IF d = "ACCEPTED" THEN DOMAIN e.values ELSE {}
    IN  /\ attempts' = [attempts EXCEPT ![e][d] = @ + 1]
        /\ rows' = IF found[c] THEN rows
                   ELSE [rows EXCEPT ![e] =
                           [ status      |-> d,
                             received_at |-> IF e.malformed THEN clock
                                             ELSE Message(c).received_at ]]
        /\ readings' = readings \cup {[event |-> e, point |-> pt] : pt \in in}
        /\ current' = [pt \in Points |->
                          IF pt \in in /\ Supersedes(e, current[pt])
                          THEN e ELSE current[pt]]
        /\ UNCHANGED known

(* Variant: fetching resumes where it was, not at the committed offset.    *)
Restart_KeepsPosition(c) ==
    /\ pc'    = [pc EXCEPT ![c] = "poll"]
    /\ next'  = [next EXCEPT ![c] = Zero]
    /\ upto'  = [upto EXCEPT ![c] = Zero]
    /\ turn'  = [turn EXCEPT ![c] = None]
    /\ found' = [found EXCEPT ![c] = FALSE]
    /\ tries' = [tries EXCEPT ![c] = 0]
    /\ UNCHANGED <<log, clock, owner, position, committed>>

(* The process ends and is restarted: what it had fetched is gone and the  *)
(* partitions it owns are fetched from their committed offsets.            *)
Restart(c) ==
    /\ pc'    = [pc EXCEPT ![c] = "poll"]
    /\ next'  = [next EXCEPT ![c] = Zero]
    /\ upto'  = [upto EXCEPT ![c] = Zero]
    /\ turn'  = [turn EXCEPT ![c] = None]
    /\ found' = [found EXCEPT ![c] = FALSE]
    /\ tries' = [tries EXCEPT ![c] = 0]
    /\ position' = [p \in Partitions |->
                       IF owner[p] = c THEN committed[p] ELSE position[p]]
    /\ UNCHANGED <<log, clock, owner, committed>>

(* Variant: a failed message is skipped.                                   *)
AttemptFails_Skips(c) ==
    LET p    == turn[c]
        rest == [next[c] EXCEPT ![p] = @ + 1]
    IN  /\ next'  = [next EXCEPT ![c] = rest]
        /\ turn'  = [turn EXCEPT ![c] = IF rest[p] = upto[c][p] THEN None ELSE p]
        /\ pc'    = [pc EXCEPT ![c] =
                        IF \E q \in Partitions : rest[q] < upto[c][q]
                        THEN "lookup" ELSE "poll"]
        /\ found' = [found EXCEPT ![c] = FALSE]
        /\ UNCHANGED <<brokerVars, upto, tries>>

(* An exception in process_payload: three attempts, then the process ends. *)
AttemptFails(c) ==
    IF tries[c] = 2
    THEN Restart(c)
    ELSE /\ pc'    = [pc EXCEPT ![c] = "lookup"]
         /\ tries' = [tries EXCEPT ![c] = @ + 1]
         /\ found' = [found EXCEPT ![c] = FALSE]
         /\ UNCHANGED <<brokerVars, next, upto, turn>>

Write(c) ==
    /\ pc[c] = "write"
    /\ ~UniqueViolation(c)
    /\ Record(c)
    /\ pc'    = [pc EXCEPT ![c] = "offset"]
    /\ found' = [found EXCEPT ![c] = FALSE]
    /\ tries' = [tries EXCEPT ![c] = 0]
    /\ UNCHANGED <<brokerVars, next, upto, turn, boundVars>>

(* Another consumer inserted the event since the SELECT.                   *)
WriteConflicts(c) ==
    /\ pc[c] = "write"
    /\ UniqueViolation(c)
    /\ AttemptFails(c)
    /\ UNCHANGED <<dbVars, boundVars>>

(* The database fails, before anything is written or, the answer to COMMIT *)
(* being lost, after everything is.                                        *)
WriteFails(c) ==
    /\ pc[c] = "write"
    /\ failures < MaxFailures
    /\ failures' = failures + 1
    /\ AttemptFails(c)
    /\ \/ UNCHANGED dbVars
       \/ ~UniqueViolation(c) /\ Record(c)
    /\ UNCHANGED rebalances

(* Variant: the end of the batch is committed, not the message.            *)
CommitOffset_WholeBatch(c) ==
    LET p    == turn[c]
        rest == [next[c] EXCEPT ![p] = @ + 1]
    IN  /\ pc[c] = "offset"
        /\ owner[p] = c
        /\ committed' = [committed EXCEPT ![p] = upto[c][p]]
        /\ next' = [next EXCEPT ![c] = rest]
        /\ turn' = [turn EXCEPT ![c] = IF rest[p] = upto[c][p] THEN None ELSE p]
        /\ pc'   = [pc EXCEPT ![c] =
                       IF \E q \in Partitions : rest[q] < upto[c][q]
                       THEN "lookup" ELSE "poll"]
        /\ UNCHANGED <<log, clock, owner, position, upto, found, tries, dbVars,
                       boundVars>>

(* consumer.commit, and on to the next message.  It raises when the group  *)
(* has given the partition away, which ends the process.                   *)
CommitOffset(c) ==
    LET p    == turn[c]
        rest == [next[c] EXCEPT ![p] = @ + 1]
    IN  /\ pc[c] = "offset"
        /\ owner[p] = c
        /\ committed' = [committed EXCEPT ![p] = rest[p]]
        /\ next' = [next EXCEPT ![c] = rest]
        /\ turn' = [turn EXCEPT ![c] = IF rest[p] = upto[c][p] THEN None ELSE p]
        /\ pc'   = [pc EXCEPT ![c] =
                       IF \E q \in Partitions : rest[q] < upto[c][q]
                       THEN "lookup" ELSE "poll"]
        /\ UNCHANGED <<log, clock, owner, position, upto, found, tries, dbVars,
                       boundVars>>

CommitRaises(c) ==
    /\ pc[c] = "offset"
    /\ owner[turn[c]] # c
    /\ Restart(c)
    /\ UNCHANGED <<dbVars, boundVars>>

Crash(c) ==
    /\ failures < MaxFailures
    /\ failures' = failures + 1
    /\ Restart(c)
    /\ UNCHANGED <<dbVars, rebalances>>

-----------------------------------------------------------------------------
ConsumerStep(c) ==
    \/ Poll(c)
    \/ EmptyPoll(c)
    \/ Lookup(c)
    \/ Write(c)
    \/ WriteConflicts(c)
    \/ CommitOffset(c)
    \/ CommitRaises(c)

IngestNext ==
    \/ \E e \in Events : Publish(e)
    \/ \E x \in Equipment : SeedEquipment(x)
    \/ \E p \in Partitions, c \in Consumers : Rebalance(p, c)
    \/ \E c \in Consumers : ConsumerStep(c) \/ WriteFails(c) \/ Crash(c)

IngestSpec == IngestInit /\ [][IngestNext]_ingestVars

(* A consumer goes round its loop for ever (and is restarted when it ends: *)
(* restart: unless-stopped).  Nothing obliges a message, a failure, a      *)
(* rebalance or a seed.                                                    *)
IngestFairSpec ==
    IngestSpec /\ \A c \in Consumers : WF_ingestVars(ConsumerStep(c))

-----------------------------------------------------------------------------
(* Properties.                                                             *)

MessageType == [event : Events, received_at : Nat]

(* The log, the offsets, the consumers and the tables have their shapes.   *)
IngestTypeOK ==
    /\ log \in [Partitions -> Seq(MessageType)]
    /\ clock \in Nat
    /\ owner \in [Partitions -> Consumers]
    /\ position \in [Partitions -> Nat]
    /\ committed \in [Partitions -> Nat]
    /\ pc \in [Consumers -> {"poll", "lookup", "write", "offset"}]
    /\ next \in [Consumers -> [Partitions -> Nat]]
    /\ upto \in [Consumers -> [Partitions -> Nat]]
    /\ turn \in [Consumers -> Partitions \cup {None}]
    /\ found \in [Consumers -> BOOLEAN]
    /\ tries \in [Consumers -> 0..2]
    /\ known \subseteq Equipment
    /\ rows \in [Events -> [status : {"ACCEPTED", "REJECTED"}, received_at : Nat]
                           \cup {None}]
    /\ attempts \in [Events -> [Dispositions -> Nat]]
    /\ readings \subseteq [event : Events, point : Points]
    /\ current \in [Points -> Events \cup {None}]
    /\ failures \in Nat /\ rebalances \in Nat

Recorded(p, offset) == rows[log[p][offset + 1].event] # None

(* No message is lost: everything below a committed offset has a row, so   *)
(* a consumer that starts from there skips nothing, although commits are   *)
(* late, refused, or move the offset back.                                 *)
CommittedAreRecorded ==
    \A p \in Partitions : \A o \in 0..(committed[p] - 1) : Recorded(p, o)

(* The audit log agrees with the events: an event without a row was never  *)
(* attempted to the end, one with a row has exactly one attempt of the     *)
(* row's own status, and every other attempt at it is a DUPLICATE          *)
(* (docs/architecture.md:54-56).                                           *)
OneDisposition ==
    \A e \in Events :
        /\ rows[e] = None =>
             \A d \in Dispositions : attempts[e][d] = 0
        /\ rows[e] # None =>
             \A d \in {"ACCEPTED", "REJECTED"} :
                 attempts[e][d] = IF d = rows[e].status THEN 1 ELSE 0

Accepted == {e \in Events : rows[e] # None /\ rows[e].status = "ACCEPTED"}

(* The history is exactly what the accepted events measured: a rejected or *)
(* repeated event leaves no reading and no accepted event lacks one.       *)
HistoryIsAccepted ==
    readings = {[event |-> e, point |-> pt] : e \in Accepted, pt \in Points}
               \cap {r \in [event : Events, point : Points] :
                        r.point \in DOMAIN r.event.values}

(* The current value of a point comes from its newest reading in device    *)
(* time, the event id deciding between equal times: a late event is kept   *)
(* and never shown as current (docs/architecture.md:58-59).                *)
CurrentIsNewest ==
    \A pt \in Points :
        LET mine == {r.event : r \in {x \in readings : x.point = pt}}
            now  == current[pt]
        IN  IF mine = {} THEN now = None
            ELSE /\ now \in mine
                 /\ \A e \in mine : e.observed_at <= now.observed_at
                 /\ \A e \in mine :
                      e.observed_at = now.observed_at => e.id <= now.id

(* Events of one partition are accepted in the order they were received:   *)
(* ordering accepted events by received_at, as the evaluator does at every *)
(* poll, appends at the end and never inserts before an event it has       *)
(* evaluated (docs/architecture.md:56-57).                                 *)
AcceptedInReceiptOrder ==
    [][ \A e, f \in Events :
          /\ e.partition = f.partition
          /\ e \in Accepted
          /\ f \notin Accepted /\ f \in Accepted'
          => rows[e].received_at < rows'[f].received_at ]_ingestVars

(* Every message is eventually recorded, however many consumers hold it.   *)
(* The committed offset itself does not promise as much: a partition that  *)
(* bounces back to a consumer with an old batch has its offset moved back  *)
(* by that batch, until the next message or restart.                       *)
MessagesAreRecorded ==
    \A p \in Partitions : \A n \in 1..MaxMessages :
        Len(log[p]) >= n ~> (Len(log[p]) >= n /\ Recorded(p, n - 1))

Store == INSTANCE TelemetryStore WITH
            status <- [e \in Events |-> IF rows[e] = None THEN None
                                        ELSE rows[e].status],
            latest <- current

(* The tables keep the promise of TelemetryStore.                          *)
ImplementsStore == Store!StoreSpec
=============================================================================
