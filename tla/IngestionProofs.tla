--------------------------- MODULE IngestionProofs ---------------------------
(***************************************************************************)
(* Proofs about Ingestion for any events, partitions, consumers and        *)
(* bounds: the types, that no message below a committed offset lacks its   *)
(* row, and in the second half what the tables say about the messages.     *)
(***************************************************************************)
EXTENDS Ingestion, TLAPS

-----------------------------------------------------------------------------
(* The inductive invariant of the offsets.                                 *)

(* Inside the consumers.  A consumer fetches again only when its batch is  *)
(* done, and the message it is working on is one it has fetched.           *)
Holds(c, p) == next[c][p] < upto[c][p]

ConsumersInStep ==
    \A c \in Consumers :
        /\ \A p \in Partitions : upto[c][p] <= Len(log[p])
        /\ pc[c] = "poll" => \A p \in Partitions : ~Holds(c, p)
        /\ pc[c] \in {"write", "offset"} => turn[c] # None /\ Holds(c, turn[c])
        /\ pc[c] = "offset" \/ (pc[c] = "write" /\ found[c]) =>
             Recorded(turn[c], next[c][turn[c]])

(* What lies below the front of a batch is recorded, whoever owns the      *)
(* partition by now, and what lies below the position of a partition is    *)
(* recorded or in the batch of its owner.                                  *)
NothingSkipped ==
    /\ \A c \in Consumers, p \in Partitions :
         Holds(c, p) => \A o \in 0..(next[c][p] - 1) : Recorded(p, o)
    /\ \A p \in Partitions : \A o \in 0..(position[p] - 1) :
         \/ Recorded(p, o)
         \/ next[owner[p]][p] <= o /\ o < upto[owner[p]][p]

OffsetsInLog ==
    \A p \in Partitions : committed[p] <= Len(log[p]) /\ position[p] <= Len(log[p])

(* The inductive invariant behind CommittedAreRecorded: the offsets point  *)
(* into the log, and no consumer can ever have skipped a message.          *)
IngestInv ==
    /\ IngestTypeOK
    /\ OffsetsInLog
    /\ ConsumersInStep
    /\ NothingSkipped
    /\ CommittedAreRecorded

-----------------------------------------------------------------------------
(* The inductive invariant of the tables.                                  *)

(* What the order rests on.  A log holds the messages of its partition in  *)
(* the order they were built, and every accepted event has the row of a    *)
(* message below which everything was recorded before it.                  *)
LogInOrder ==
    \A p \in Partitions : \A i \in DOMAIN log[p] :
        /\ log[p][i].event.partition = p
        /\ log[p][i].received_at <= clock
        /\ \A j \in 1..(i - 1) : log[p][j].received_at < log[p][i].received_at

AcceptedOff(e, o) ==
    /\ o + 1 \in DOMAIN log[e.partition]
    /\ log[e.partition][o + 1] = [event |-> e, received_at |-> rows[e].received_at]
    /\ \A q \in 0..(o - 1) : Recorded(e.partition, q)

AcceptedAreLogged == \A e \in Accepted : \E o \in Nat : AcceptedOff(e, o)

(* The inductive invariant behind the tables and their order.              *)
TablesInv ==
    /\ IngestInv
    /\ OneDisposition
    /\ HistoryIsAccepted
    /\ CurrentIsNewest
    /\ LogInOrder
    /\ AcceptedAreLogged

-----------------------------------------------------------------------------
(* What every step leaves standing: messages that are in a log stay at     *)
(* their offset and events that have a row keep one.                       *)
Grows ==
    /\ \A p \in Partitions :
         /\ Len(log[p]) <= Len(log'[p])
         /\ \A i \in 1..Len(log[p]) : log'[p][i] = log[p][i]
    /\ \A e \in Events : rows[e] # None => rows'[e] # None

(* The event a consumer works on is one that was delivered.                *)
LEMMA EventInHand ==
    ASSUME IngestTypeOK, ConsumersInStep, NEW c \in Consumers,
           pc[c] \in {"write", "offset"}
    PROVE  /\ turn[c] \in Partitions
           /\ next[c][turn[c]] \in Nat
           /\ next[c][turn[c]] + 1 \in 1..Len(log[turn[c]])
           /\ Message(c) \in MessageType
           /\ EventOf(c) \in Events
<1>1. turn[c] \in Partitions
  BY DEF IngestTypeOK, ConsumersInStep
<1>2. next[c][turn[c]] < upto[c][turn[c]] /\ upto[c][turn[c]] <= Len(log[turn[c]])
  BY <1>1 DEF ConsumersInStep, Holds
<1>3. /\ next[c][turn[c]] \in Nat /\ upto[c][turn[c]] \in Nat
      /\ log[turn[c]] \in Seq(MessageType)
  BY <1>1 DEF IngestTypeOK
<1>4. next[c][turn[c]] + 1 \in 1..Len(log[turn[c]])
  BY <1>2, <1>3
<1>5. Message(c) \in MessageType
  BY <1>3, <1>4 DEF Message
<1> QED  BY <1>1, <1>3, <1>4, <1>5 DEF EventOf, MessageType

(* A restarted consumer has its shape.                                     *)
LEMMA RestartTypes ==
    ASSUME IngestTypeOK, NEW c \in Consumers, Restart(c)
    PROVE  /\ log' = log /\ clock' = clock /\ owner' = owner
           /\ committed' = committed
           /\ position' \in [Partitions -> Nat]
           /\ pc' \in [Consumers -> {"poll", "lookup", "write", "offset"}]
           /\ next' \in [Consumers -> [Partitions -> Nat]]
           /\ upto' \in [Consumers -> [Partitions -> Nat]]
           /\ turn' \in [Consumers -> Partitions \cup {None}]
           /\ found' \in [Consumers -> BOOLEAN]
           /\ tries' \in [Consumers -> 0..2]
<1>1. Zero \in [Partitions -> Nat]
  BY DEF Zero
<1>2. position' \in [Partitions -> Nat]
  BY DEF IngestTypeOK, Restart
<1> QED  BY <1>1, <1>2 DEF IngestTypeOK, Restart

(* The same of an attempt that fails, whether it is the last or not.       *)
LEMMA FailureTypes ==
    ASSUME IngestTypeOK, NEW c \in Consumers, AttemptFails(c)
    PROVE  /\ log' = log /\ clock' = clock /\ owner' = owner
           /\ committed' = committed
           /\ position' \in [Partitions -> Nat]
           /\ pc' \in [Consumers -> {"poll", "lookup", "write", "offset"}]
           /\ next' \in [Consumers -> [Partitions -> Nat]]
           /\ upto' \in [Consumers -> [Partitions -> Nat]]
           /\ turn' \in [Consumers -> Partitions \cup {None}]
           /\ found' \in [Consumers -> BOOLEAN]
           /\ tries' \in [Consumers -> 0..2]
<1>1. CASE tries[c] = 2
  BY <1>1, RestartTypes DEF AttemptFails
<1>2. CASE tries[c] # 2
  <2>1. tries[c] \in 0..1
    BY <1>2 DEF IngestTypeOK
  <2>2. tries' \in [Consumers -> 0..2]
    <3>1. tries' = [tries EXCEPT ![c] = tries[c] + 1]
      BY <1>2 DEF AttemptFails
    <3> QED  BY <2>1, <3>1 DEF IngestTypeOK
  <2>3. UNCHANGED <<brokerVars, next, upto, turn>>
    BY <1>2 DEF AttemptFails
  <2>4. pc' = [pc EXCEPT ![c] = "lookup"] /\ found' = [found EXCEPT ![c] = FALSE]
    BY <1>2 DEF AttemptFails
  <2> QED  BY <2>2, <2>3, <2>4 DEF IngestTypeOK, brokerVars
<1> QED  BY <1>1, <1>2

(* The writes of a transaction leave the tables in shape, and they only    *)
(* add a row.                                                              *)
LEMMA RecordTypes ==
    ASSUME IngestTypeOK, ConsumersInStep, NEW c \in Consumers,
           pc[c] = "write", Record(c)
    PROVE  /\ known' = known
           /\ rows' \in [Events -> [status : {"ACCEPTED", "REJECTED"}, received_at : Nat]
                                   \cup {None}]
           /\ attempts' \in [Events -> [Dispositions -> Nat]]
           /\ readings' \subseteq [event : Events, point : Points]
           /\ current' \in [Points -> Events \cup {None}]
           /\ \A e \in Events : rows[e] # None => rows'[e] # None
           /\ ~UniqueViolation(c) => rows'[EventOf(c)] # None
<1> DEFINE e  == EventOf(c)
           d  == IF found[c] THEN "DUPLICATE" ELSE Disposition(e)
           in == IF d = "ACCEPTED" THEN DOMAIN e.values ELSE {}
           row == [ status |-> d,
                    received_at |-> IF e.malformed THEN clock
                                    ELSE Message(c).received_at ]
<1>1. e \in Events /\ Message(c) \in MessageType
  BY EventInHand
<1>2. d \in Dispositions /\ (~found[c] => d \in {"ACCEPTED", "REJECTED"})
  BY DEF Disposition, Dispositions
<1>3. ~found[c] =>
        row \in [status : {"ACCEPTED", "REJECTED"}, received_at : Nat]
  BY <1>1, <1>2 DEF MessageType, IngestTypeOK
<1>4. ~found[c] => row # None
  BY <1>3, IngestionNone
<1>5. rows' = IF found[c] THEN rows ELSE [rows EXCEPT ![e] = row]
  BY DEF Record
<1>6. /\ rows' \in [Events -> [status : {"ACCEPTED", "REJECTED"}, received_at : Nat]
                              \cup {None}]
      /\ \A f \in Events : rows[f] # None => rows'[f] # None
      /\ ~found[c] => rows'[e] # None
  BY <1>1, <1>3, <1>4, <1>5 DEF IngestTypeOK
<1>7. attempts' \in [Events -> [Dispositions -> Nat]]
  <2>1. attempts' = [attempts EXCEPT ![e][d] = @ + 1]
    BY DEF Record
  <2>2. attempts[e] \in [Dispositions -> Nat]
    BY <1>1 DEF IngestTypeOK
  <2>3. [attempts[e] EXCEPT ![d] = attempts[e][d] + 1] \in [Dispositions -> Nat]
    BY <1>2, <2>2
  <2> QED  BY <1>1, <2>1, <2>3 DEF IngestTypeOK
<1>8. current' \in [Points -> Events \cup {None}]
  <2>1. current' = [pt \in Points |->
                      IF pt \in in /\ Supersedes(e, current[pt])
                      THEN e ELSE current[pt]]
    BY DEF Record
  <2> QED  BY <1>1, <2>1 DEF IngestTypeOK
<1>9. readings' \subseteq [event : Events, point : Points]
  <2>1. readings' = readings \cup {[event |-> e, point |-> pt] : pt \in in}
    BY DEF Record
  <2>2. in \subseteq Points
    BY <1>1, EventAssumption
  <2> QED  BY <1>1, <2>1, <2>2 DEF IngestTypeOK
<1>10. known' = known
  BY DEF Record
<1>11. ~UniqueViolation(c) => rows'[e] # None
  <2>1. found[c] => rows[e] # None
    BY DEF ConsumersInStep, Recorded, EventOf, Message
  <2> QED  BY <1>1, <1>6, <2>1 DEF UniqueViolation
<1> QED  BY <1>6, <1>7, <1>8, <1>9, <1>10, <1>11

-----------------------------------------------------------------------------
(* Every step keeps the types and adds to the log and the rows only.       *)
LEMMA StepTypes ==
    ASSUME IngestTypeOK, ConsumersInStep, IngestNext
    PROVE  IngestTypeOK' /\ Grows
<1> USE DEF Grows
<1>1. ASSUME NEW e \in Events, Publish(e)
      PROVE  IngestTypeOK' /\ Grows
  <2> DEFINE p == e.partition
             m == [event |-> e, received_at |-> clock + 1]
  <2>1. p \in Partitions
    BY EventAssumption
  <2>2. m \in MessageType
    BY DEF MessageType, IngestTypeOK
  <2>3. log' = [log EXCEPT ![p] = Append(log[p], m)]
    BY <1>1 DEF Publish
  <2>4. log' \in [Partitions -> Seq(MessageType)]
    BY <2>1, <2>2, <2>3 DEF IngestTypeOK
  <2>5. \A q \in Partitions :
          /\ Len(log[q]) <= Len(log'[q])
          /\ \A i \in 1..Len(log[q]) : log'[q][i] = log[q][i]
    BY <2>1, <2>2, <2>3 DEF IngestTypeOK
  <2>6. /\ clock' = clock + 1
        /\ UNCHANGED <<owner, position, committed, consumerVars, dbVars, boundVars>>
    BY <1>1 DEF Publish
  <2> QED  BY <2>4, <2>5, <2>6
           DEF IngestTypeOK, consumerVars, dbVars, boundVars
<1>2. ASSUME NEW x \in Equipment, SeedEquipment(x)
      PROVE  IngestTypeOK' /\ Grows
  BY <1>2 DEF SeedEquipment, IngestTypeOK, brokerVars, consumerVars, boundVars
<1>3. ASSUME NEW p \in Partitions, NEW c \in Consumers, Rebalance(p, c)
      PROVE  IngestTypeOK' /\ Grows
  BY <1>3 DEF Rebalance, IngestTypeOK, consumerVars, dbVars
<1>4. ASSUME NEW c \in Consumers, Poll(c)
      PROVE  IngestTypeOK' /\ Grows
  BY <1>4 DEF Poll, IngestTypeOK, dbVars, boundVars
<1>5. ASSUME NEW c \in Consumers, EmptyPoll(c)
      PROVE  IngestTypeOK' /\ Grows
  BY <1>5 DEF EmptyPoll, IngestTypeOK, ingestVars, brokerVars, consumerVars,
              dbVars, boundVars
<1>6. ASSUME NEW c \in Consumers, Lookup(c)
      PROVE  IngestTypeOK' /\ Grows
  BY <1>6 DEF Lookup, IngestTypeOK, brokerVars, dbVars, boundVars
<1>7. ASSUME NEW c \in Consumers, Write(c)
      PROVE  IngestTypeOK' /\ Grows
  <2>1. pc[c] = "write" /\ Record(c)
    BY <1>7 DEF Write
  <2>2. /\ pc' = [pc EXCEPT ![c] = "offset"]
        /\ found' = [found EXCEPT ![c] = FALSE]
        /\ tries' = [tries EXCEPT ![c] = 0]
        /\ UNCHANGED <<brokerVars, next, upto, turn, boundVars>>
    BY <1>7 DEF Write
  <2> QED  BY <2>1, <2>2, RecordTypes DEF IngestTypeOK, brokerVars, boundVars
<1>8. ASSUME NEW c \in Consumers, WriteConflicts(c)
      PROVE  IngestTypeOK' /\ Grows
  <2>1. AttemptFails(c) /\ UNCHANGED <<dbVars, boundVars>>
    BY <1>8 DEF WriteConflicts
  <2> QED  BY <2>1, FailureTypes DEF IngestTypeOK, dbVars, boundVars
<1>9. ASSUME NEW c \in Consumers, WriteFails(c)
      PROVE  IngestTypeOK' /\ Grows
  <2>1. /\ pc[c] = "write"
        /\ AttemptFails(c)
        /\ failures' = failures + 1
        /\ UNCHANGED rebalances
        /\ UNCHANGED dbVars \/ Record(c)
    BY <1>9 DEF WriteFails
  <2>2. CASE UNCHANGED dbVars
    BY <2>1, <2>2, FailureTypes DEF IngestTypeOK, dbVars
  <2>3. CASE Record(c)
    <3>1. /\ log' = log /\ clock' = clock /\ owner' = owner
          /\ committed' = committed
          /\ position' \in [Partitions -> Nat]
          /\ pc' \in [Consumers -> {"poll", "lookup", "write", "offset"}]
          /\ next' \in [Consumers -> [Partitions -> Nat]]
          /\ upto' \in [Consumers -> [Partitions -> Nat]]
          /\ turn' \in [Consumers -> Partitions \cup {None}]
          /\ found' \in [Consumers -> BOOLEAN]
          /\ tries' \in [Consumers -> 0..2]
      BY <2>1, FailureTypes
    <3>2. /\ known' = known
          /\ rows' \in [Events -> [status : {"ACCEPTED", "REJECTED"}, received_at : Nat]
                                  \cup {None}]
          /\ attempts' \in [Events -> [Dispositions -> Nat]]
          /\ readings' \subseteq [event : Events, point : Points]
          /\ current' \in [Points -> Events \cup {None}]
          /\ \A e \in Events : rows[e] # None => rows'[e] # None
      BY <2>1, <2>3, RecordTypes
    <3> QED  BY <2>1, <3>1, <3>2 DEF IngestTypeOK
  <2> QED  BY <2>1, <2>2, <2>3
<1>10. ASSUME NEW c \in Consumers, CommitOffset(c)
       PROVE  IngestTypeOK' /\ Grows
  <2> DEFINE p    == turn[c]
             rest == [next[c] EXCEPT ![p] = @ + 1]
  <2>1. p \in Partitions /\ next[c] \in [Partitions -> Nat]
    BY <1>10, EventInHand DEF CommitOffset, IngestTypeOK
  <2>2. rest \in [Partitions -> Nat]
    BY <2>1
  <2>3. /\ committed' = [committed EXCEPT ![p] = rest[p]]
        /\ next' = [next EXCEPT ![c] = rest]
        /\ turn' = [turn EXCEPT ![c] = IF rest[p] = upto[c][p] THEN None ELSE p]
        /\ pc'   = [pc EXCEPT ![c] =
                       IF \E q \in Partitions : rest[q] < upto[c][q]
                       THEN "lookup" ELSE "poll"]
        /\ UNCHANGED <<log, clock, owner, position, upto, found, tries, dbVars,
                       boundVars>>
    BY <1>10 DEF CommitOffset
  <2> HIDE DEF rest
  <2> QED  BY <2>1, <2>2, <2>3 DEF IngestTypeOK, dbVars, boundVars
<1>11. ASSUME NEW c \in Consumers, CommitRaises(c)
       PROVE  IngestTypeOK' /\ Grows
  <2>1. Restart(c) /\ UNCHANGED <<dbVars, boundVars>>
    BY <1>11 DEF CommitRaises
  <2> QED  BY <2>1, RestartTypes DEF IngestTypeOK, dbVars, boundVars
<1>12. ASSUME NEW c \in Consumers, Crash(c)
       PROVE  IngestTypeOK' /\ Grows
  <2>1. Restart(c) /\ failures' = failures + 1 /\ UNCHANGED <<dbVars, rebalances>>
    BY <1>12 DEF Crash
  <2> QED  BY <2>1, RestartTypes DEF IngestTypeOK, dbVars
<1> QED  BY <1>1, <1>2, <1>3, <1>4, <1>5, <1>6, <1>7, <1>8, <1>9, <1>10,
            <1>11, <1>12 DEF IngestNext, ConsumerStep

-----------------------------------------------------------------------------
(* A message that has its row keeps it.                                    *)
LEMMA StaysRecorded ==
    ASSUME IngestTypeOK, Grows, NEW p \in Partitions, NEW o \in Nat,
           o < Len(log[p])
    PROVE  /\ Recorded(p, o) => Recorded(p, o)'
           /\ log'[p][o + 1].event = log[p][o + 1].event
<1>1. o + 1 \in 1..Len(log[p]) /\ log[p] \in Seq(MessageType)
  BY DEF IngestTypeOK
<1>2. log[p][o + 1] \in MessageType
  BY <1>1
<1>3. log'[p][o + 1] = log[p][o + 1]
  BY <1>1 DEF Grows
<1> QED  BY <1>2, <1>3 DEF Recorded, MessageType, Grows

(* Recorded after the step; p and o are those of before.                   *)
RecordedNext(p, o) == rows'[log'[p][o + 1].event] # None

(* What the invariant says of the old offsets and batches still holds once *)
(* a step has added to the log and the rows.                               *)
LEMMA Kept ==
    ASSUME IngestInv, IngestTypeOK', Grows
    PROVE  /\ \A p \in Partitions : \A o \in 0..(committed[p] - 1) : RecordedNext(p, o)
           /\ \A p \in Partitions : /\ committed[p] <= Len(log'[p])
                                    /\ position[p] <= Len(log'[p])
                                    /\ Len(log'[p]) \in Nat
           /\ \A c \in Consumers, p \in Partitions :
                /\ upto[c][p] <= Len(log'[p])
                /\ Holds(c, p) => \A o \in 0..(next[c][p] - 1) : RecordedNext(p, o)
           /\ \A p \in Partitions : \A o \in 0..(position[p] - 1) :
                \/ RecordedNext(p, o)
                \/ next[owner[p]][p] <= o /\ o < upto[owner[p]][p]
           /\ \A c \in Consumers :
                pc[c] = "offset" \/ (pc[c] = "write" /\ found[c]) =>
                    RecordedNext(turn[c], next[c][turn[c]])
<1>0. IngestTypeOK /\ OffsetsInLog /\ ConsumersInStep /\ NothingSkipped
      /\ CommittedAreRecorded
  BY DEF IngestInv
<1>1. \A p \in Partitions : /\ Len(log[p]) \in Nat /\ Len(log'[p]) \in Nat
                            /\ Len(log[p]) <= Len(log'[p])
                            /\ position[p] \in Nat /\ committed[p] \in Nat
  BY <1>0 DEF IngestTypeOK, Grows
<1>2. \A c \in Consumers, p \in Partitions : next[c][p] \in Nat /\ upto[c][p] \in Nat
  BY <1>0 DEF IngestTypeOK
<1>3. ASSUME NEW p \in Partitions, NEW o \in Nat, o < Len(log[p]), Recorded(p, o)
      PROVE  RecordedNext(p, o)
  <2>1. Recorded(p, o)'
    BY <1>0, <1>3, StaysRecorded
  <2> QED  BY <2>1 DEF Recorded, RecordedNext
<1>4. ASSUME NEW p \in Partitions, NEW o \in 0..(committed[p] - 1)
      PROVE  RecordedNext(p, o)
  <2>1. o \in Nat /\ o < Len(log[p])
    BY <1>0, <1>1 DEF OffsetsInLog
  <2> QED  BY <1>0, <1>3, <2>1 DEF CommittedAreRecorded
<1>5. \A p \in Partitions : committed[p] <= Len(log'[p]) /\ position[p] <= Len(log'[p])
  BY <1>0, <1>1 DEF OffsetsInLog
<1>6. \A c \in Consumers, p \in Partitions : upto[c][p] <= Len(log'[p])
  BY <1>0, <1>1, <1>2 DEF ConsumersInStep
<1>7. ASSUME NEW c \in Consumers, NEW p \in Partitions, Holds(c, p),
             NEW o \in 0..(next[c][p] - 1)
      PROVE  RecordedNext(p, o)
  <2>1. o \in Nat /\ o < Len(log[p])
    BY <1>0, <1>1, <1>2, <1>7 DEF ConsumersInStep, Holds
  <2> QED  BY <1>0, <1>3, <1>7, <2>1 DEF NothingSkipped
<1>8. ASSUME NEW p \in Partitions, NEW o \in 0..(position[p] - 1)
      PROVE  \/ RecordedNext(p, o)
             \/ next[owner[p]][p] <= o /\ o < upto[owner[p]][p]
  <2>1. o \in Nat /\ o < Len(log[p])
    BY <1>0, <1>1 DEF OffsetsInLog
  <2> QED  BY <1>0, <1>3, <2>1 DEF NothingSkipped
<1>9. ASSUME NEW c \in Consumers, pc[c] = "offset" \/ (pc[c] = "write" /\ found[c])
      PROVE  RecordedNext(turn[c], next[c][turn[c]])
  <2>1. /\ turn[c] \in Partitions /\ next[c][turn[c]] \in Nat
        /\ next[c][turn[c]] < Len(log[turn[c]])
    BY <1>0, <1>1, <1>9, EventInHand
  <2>2. Recorded(turn[c], next[c][turn[c]])
    BY <1>0, <1>9 DEF ConsumersInStep
  <2> QED  BY <1>3, <2>1, <2>2
<1> QED  BY <1>1, <1>4, <1>5, <1>6, <1>7, <1>8, <1>9

(* The parts of the invariant after a step, with the primes written out.   *)
LEMMA InvNext ==
    ASSUME IngestTypeOK',
           \A p \in Partitions : /\ committed'[p] <= Len(log'[p])
                                 /\ position'[p] <= Len(log'[p]),
           \A c \in Consumers :
              /\ \A p \in Partitions : upto'[c][p] <= Len(log'[p])
              /\ pc'[c] = "poll" =>
                   \A p \in Partitions : ~(next'[c][p] < upto'[c][p])
              /\ pc'[c] \in {"write", "offset"} =>
                   turn'[c] # None /\ next'[c][turn'[c]] < upto'[c][turn'[c]]
              /\ pc'[c] = "offset" \/ (pc'[c] = "write" /\ found'[c]) =>
                   RecordedNext(turn'[c], next'[c][turn'[c]]),
           \A c \in Consumers, p \in Partitions :
              next'[c][p] < upto'[c][p] =>
                \A o \in 0..(next'[c][p] - 1) : RecordedNext(p, o),
           \A p \in Partitions : \A o \in 0..(position'[p] - 1) :
              \/ RecordedNext(p, o)
              \/ next'[owner'[p]][p] <= o /\ o < upto'[owner'[p]][p],
           \A p \in Partitions : \A o \in 0..(committed'[p] - 1) : RecordedNext(p, o)
    PROVE  IngestInv'
<1>1. OffsetsInLog'
  BY DEF OffsetsInLog
<1>2. ConsumersInStep'
  BY DEF ConsumersInStep, Holds, Recorded, RecordedNext
<1>3. NothingSkipped'
  BY DEF NothingSkipped, Holds, Recorded, RecordedNext
<1>4. CommittedAreRecorded'
  BY DEF CommittedAreRecorded, Recorded, RecordedNext
<1> QED  BY <1>1, <1>2, <1>3, <1>4 DEF IngestInv

(* The simulator, the seed and an empty poll move no offset and no         *)
(* consumer.                                                               *)
LEMMA QuietStep ==
    ASSUME IngestInv, IngestTypeOK', Grows,
           UNCHANGED <<owner, position, committed, consumerVars>>
    PROVE  IngestInv'
<1>1. /\ UNCHANGED <<owner, position, committed>>
      /\ UNCHANGED <<pc, next, upto, turn, found, tries>>
  BY DEF consumerVars
<1>2. ConsumersInStep
  BY DEF IngestInv
<1> QED  BY <1>1, <1>2, Kept, InvNext DEF ConsumersInStep, Holds

(* A restart empties the batch and goes back to the committed offsets.     *)
LEMMA RestartStep ==
    ASSUME IngestInv, IngestTypeOK', Grows, NEW c \in Consumers, Restart(c)
    PROVE  IngestInv'
<1>1. /\ owner' = owner /\ committed' = committed
      /\ \A p \in Partitions :
           position'[p] = IF owner[p] = c THEN committed[p] ELSE position[p]
  BY DEF Restart
<1>2. /\ IngestTypeOK /\ ConsumersInStep
  BY DEF IngestInv
<1>3. /\ pc'[c] = "poll"
      /\ \A p \in Partitions : next'[c][p] = 0 /\ upto'[c][p] = 0
  BY <1>2 DEF Restart, IngestTypeOK, Zero
<1>4. \A b \in Consumers \ {c} :
        /\ pc'[b] = pc[b] /\ next'[b] = next[b] /\ upto'[b] = upto[b]
        /\ turn'[b] = turn[b] /\ found'[b] = found[b]
  BY <1>2 DEF Restart, IngestTypeOK
<1>5. \A p \in Partitions : /\ committed'[p] <= Len(log'[p])
                            /\ position'[p] <= Len(log'[p])
  BY <1>1, Kept
<1>6. ASSUME NEW b \in Consumers
      PROVE
        /\ \A p \in Partitions : upto'[b][p] <= Len(log'[p])
        /\ pc'[b] = "poll" => \A p \in Partitions : ~(next'[b][p] < upto'[b][p])
        /\ pc'[b] \in {"write", "offset"} =>
             turn'[b] # None /\ next'[b][turn'[b]] < upto'[b][turn'[b]]
        /\ pc'[b] = "offset" \/ (pc'[b] = "write" /\ found'[b]) =>
             RecordedNext(turn'[b], next'[b][turn'[b]])
  <2>1. CASE b = c
    <3>1. \A p \in Partitions : 0 <= Len(log'[p])
      BY Kept
    <3> QED  BY <1>3, <2>1, <3>1
  <2>2. CASE b # c
    BY <1>2, <1>4, <2>2, Kept DEF ConsumersInStep, Holds
  <2> QED  BY <2>1, <2>2
<1>7. ASSUME NEW b \in Consumers, NEW p \in Partitions, next'[b][p] < upto'[b][p]
      PROVE  \A o \in 0..(next'[b][p] - 1) : RecordedNext(p, o)
  BY <1>3, <1>4, <1>7, Kept DEF Holds
<1>8. ASSUME NEW p \in Partitions, NEW o \in 0..(position'[p] - 1)
      PROVE  \/ RecordedNext(p, o)
             \/ next'[owner'[p]][p] <= o /\ o < upto'[owner'[p]][p]
  <2>1. CASE owner[p] = c
    BY <1>1, <2>1, Kept
  <2>2. CASE owner[p] # c
    <3>1. owner[p] \in Consumers \ {c}
      BY <1>2, <2>2 DEF IngestTypeOK
    <3> QED  BY <1>1, <1>4, <2>2, <3>1, Kept
  <2> QED  BY <2>1, <2>2
<1>9. \A p \in Partitions : \A o \in 0..(committed'[p] - 1) : RecordedNext(p, o)
  BY <1>1, Kept
<1> QED  BY <1>5, <1>6, <1>7, <1>8, <1>9, InvNext

(* An attempt that fails is made again, or ends the process.               *)
LEMMA FailureStep ==
    ASSUME IngestInv, IngestTypeOK', Grows, NEW c \in Consumers, AttemptFails(c)
    PROVE  IngestInv'
<1>1. CASE tries[c] = 2
  BY <1>1, RestartStep DEF AttemptFails
<1>2. CASE tries[c] # 2
  <2>1. /\ pc' = [pc EXCEPT ![c] = "lookup"]
        /\ found' = [found EXCEPT ![c] = FALSE]
        /\ UNCHANGED <<brokerVars, next, upto, turn>>
    BY <1>2 DEF AttemptFails
  <2>2. IngestTypeOK /\ ConsumersInStep
    BY DEF IngestInv
  <2>3. /\ UNCHANGED <<owner, position, committed, next, upto, turn>>
        /\ pc'[c] = "lookup"
        /\ \A b \in Consumers \ {c} : pc'[b] = pc[b] /\ found'[b] = found[b]
    BY <2>1, <2>2 DEF IngestTypeOK, brokerVars
  <2>4. ASSUME NEW b \in Consumers
        PROVE
          /\ \A p \in Partitions : upto'[b][p] <= Len(log'[p])
          /\ pc'[b] = "poll" => \A p \in Partitions : ~(next'[b][p] < upto'[b][p])
          /\ pc'[b] \in {"write", "offset"} =>
               turn'[b] # None /\ next'[b][turn'[b]] < upto'[b][turn'[b]]
          /\ pc'[b] = "offset" \/ (pc'[b] = "write" /\ found'[b]) =>
               RecordedNext(turn'[b], next'[b][turn'[b]])
    <3>1. CASE b = c
      BY <2>3, <3>1, Kept
    <3>2. CASE b # c
      BY <2>2, <2>3, <3>2, Kept DEF ConsumersInStep, Holds
    <3> QED  BY <3>1, <3>2
  <2> QED  BY <2>3, <2>4, Kept, InvNext DEF Holds
<1> QED  BY <1>1, <1>2

(* A new owner starts from the committed offset.                           *)
LEMMA RebalanceStep ==
    ASSUME IngestInv, IngestTypeOK', Grows,
           NEW q \in Partitions, NEW c \in Consumers, Rebalance(q, c)
    PROVE  IngestInv'
<1>1. IngestTypeOK /\ ConsumersInStep
  BY DEF IngestInv
<1>2. /\ UNCHANGED <<log, committed, pc, next, upto, turn, found>>
      /\ \A p \in Partitions : p # q => position'[p] = position[p] /\ owner'[p] = owner[p]
      /\ position'[q] = committed[q]
  BY <1>1 DEF Rebalance, consumerVars, IngestTypeOK
<1>3. ASSUME NEW p \in Partitions, NEW o \in 0..(position'[p] - 1)
      PROVE  \/ RecordedNext(p, o)
             \/ next'[owner'[p]][p] <= o /\ o < upto'[owner'[p]][p]
  <2>1. CASE p = q
    BY <1>2, <2>1, Kept
  <2>2. CASE p # q
    BY <1>2, <2>2, Kept
  <2> QED  BY <2>1, <2>2
<1>4. \A p \in Partitions : /\ committed'[p] <= Len(log'[p])
                            /\ position'[p] <= Len(log'[p])
  BY <1>2, Kept
<1> QED  BY <1>1, <1>2, <1>3, <1>4, Kept, InvNext DEF ConsumersInStep, Holds

(* A poll takes records from the positions on, up to the end of the log.   *)
LEMMA PollStep ==
    ASSUME IngestInv, IngestTypeOK', Grows, NEW c \in Consumers, Poll(c)
    PROVE  IngestInv'
<1>1. IngestTypeOK /\ ConsumersInStep
  BY DEF IngestInv
<1>2. PICK end \in [Partitions -> 0..MaxMessages] :
         /\ \A p \in Partitions :
              /\ position[p] <= end[p] /\ end[p] <= Len(log[p])
              /\ owner[p] # c => end[p] = position[p]
         /\ next' = [next EXCEPT ![c] = position]
         /\ upto' = [upto EXCEPT ![c] = end]
         /\ position' = end
  BY DEF Poll
<1>3. /\ pc[c] = "poll" /\ pc'[c] = "lookup"
      /\ \A b \in Consumers \ {c} : pc'[b] = pc[b]
      /\ UNCHANGED <<log, owner, committed, turn, found>>
  BY <1>1 DEF Poll, IngestTypeOK
<1>4. /\ next'[c] = position /\ upto'[c] = end
      /\ \A b \in Consumers \ {c} : next'[b] = next[b] /\ upto'[b] = upto[b]
  BY <1>1, <1>2 DEF IngestTypeOK
<1>5. \A p \in Partitions : owner[p] = c =>
         \A o \in 0..(position[p] - 1) : RecordedNext(p, o)
  <2> SUFFICES ASSUME NEW p \in Partitions, owner[p] = c,
                      NEW o \in 0..(position[p] - 1)
               PROVE  RecordedNext(p, o)
    OBVIOUS
  <2>1. ~(next[c][p] < upto[c][p]) /\ next[c][p] \in Nat /\ upto[c][p] \in Nat
    BY <1>1, <1>3 DEF ConsumersInStep, Holds, IngestTypeOK
  <2>2. position[p] \in Nat
    BY <1>1 DEF IngestTypeOK
  <2>3. ~(next[c][p] <= o /\ o < upto[c][p])
    BY <2>1, <2>2
  <2> QED  BY <2>3, Kept
<1>6. \A p \in Partitions : /\ position[p] \in Nat /\ end[p] \in Nat
                            /\ committed[p] <= Len(log'[p])
                            /\ end[p] <= Len(log'[p])
  BY <1>1, <1>2, <1>3, Kept DEF IngestTypeOK
<1>7. ASSUME NEW b \in Consumers
      PROVE
        /\ \A p \in Partitions : upto'[b][p] <= Len(log'[p])
        /\ pc'[b] = "poll" => \A p \in Partitions : ~(next'[b][p] < upto'[b][p])
        /\ pc'[b] \in {"write", "offset"} =>
             turn'[b] # None /\ next'[b][turn'[b]] < upto'[b][turn'[b]]
        /\ pc'[b] = "offset" \/ (pc'[b] = "write" /\ found'[b]) =>
             RecordedNext(turn'[b], next'[b][turn'[b]])
  <2>1. CASE b = c
    BY <1>3, <1>4, <1>6, <2>1
  <2>2. CASE b # c
    BY <1>1, <1>3, <1>4, <2>2, Kept DEF ConsumersInStep, Holds
  <2> QED  BY <2>1, <2>2
<1>8. ASSUME NEW b \in Consumers, NEW p \in Partitions, next'[b][p] < upto'[b][p]
      PROVE  \A o \in 0..(next'[b][p] - 1) : RecordedNext(p, o)
  <2>1. CASE b = c
    <3>1. owner[p] = c
      BY <1>2, <1>4, <1>6, <1>8, <2>1
    <3> QED  BY <1>4, <1>5, <2>1, <3>1
  <2>2. CASE b # c
    BY <1>4, <1>8, <2>2, Kept DEF Holds
  <2> QED  BY <2>1, <2>2
<1>9. ASSUME NEW p \in Partitions, NEW o \in 0..(position'[p] - 1)
      PROVE  \/ RecordedNext(p, o)
             \/ next'[owner'[p]][p] <= o /\ o < upto'[owner'[p]][p]
  <2>1. CASE owner[p] = c
    <3>1. CASE o < position[p]
      BY <1>5, <1>6, <2>1, <3>1
    <3>2. CASE ~(o < position[p])
      BY <1>2, <1>3, <1>4, <1>6, <2>1, <3>2
    <3> QED  BY <3>1, <3>2
  <2>2. CASE owner[p] # c
    <3>1. owner[p] \in Consumers \ {c}
      BY <1>1, <2>2 DEF IngestTypeOK
    <3>2. position'[p] = position[p]
      BY <1>2, <2>2
    <3> QED  BY <1>3, <1>4, <3>1, <3>2, Kept
  <2> QED  BY <2>1, <2>2
<1>10. \A p \in Partitions : \A o \in 0..(committed'[p] - 1) : RecordedNext(p, o)
  BY <1>3, Kept
<1>11. \A p \in Partitions : /\ committed'[p] <= Len(log'[p])
                             /\ position'[p] <= Len(log'[p])
  BY <1>2, <1>3, <1>6
<1> QED  BY <1>7, <1>8, <1>9, <1>10, <1>11, InvNext

(* The SELECT of a message in hand: what it finds is there.                *)
LEMMA LookupStep ==
    ASSUME IngestInv, IngestTypeOK', Grows, NEW c \in Consumers, Lookup(c)
    PROVE  IngestInv'
<1>1. IngestTypeOK /\ ConsumersInStep
  BY DEF IngestInv
<1>2. PICK p \in Partitions :
         /\ next[c][p] < upto[c][p]
         /\ turn'  = [turn EXCEPT ![c] = p]
         /\ found' = [found EXCEPT ![c] = rows[log[p][next[c][p] + 1].event] # None]
  BY DEF Lookup
<1>3. /\ pc'[c] = "write" /\ turn'[c] = p
      /\ found'[c] => RecordedNext(p, next[c][p])
      /\ \A b \in Consumers \ {c} :
           pc'[b] = pc[b] /\ turn'[b] = turn[b] /\ found'[b] = found[b]
      /\ UNCHANGED <<log, owner, position, committed, next, upto, rows>>
  BY <1>1, <1>2 DEF Lookup, IngestTypeOK, brokerVars, dbVars, RecordedNext
<1>4. ASSUME NEW b \in Consumers
      PROVE
        /\ \A q \in Partitions : upto'[b][q] <= Len(log'[q])
        /\ pc'[b] = "poll" => \A q \in Partitions : ~(next'[b][q] < upto'[b][q])
        /\ pc'[b] \in {"write", "offset"} =>
             turn'[b] # None /\ next'[b][turn'[b]] < upto'[b][turn'[b]]
        /\ pc'[b] = "offset" \/ (pc'[b] = "write" /\ found'[b]) =>
             RecordedNext(turn'[b], next'[b][turn'[b]])
  <2>1. CASE b = c
    BY <1>2, <1>3, <2>1, IngestionNone, Kept
  <2>2. CASE b # c
    BY <1>1, <1>3, <2>2, Kept DEF ConsumersInStep, Holds
  <2> QED  BY <2>1, <2>2
<1> QED  BY <1>3, <1>4, Kept, InvNext DEF Holds

(* The transaction: the message in hand has its row.                       *)
LEMMA WriteStep ==
    ASSUME IngestInv, IngestTypeOK', Grows, NEW c \in Consumers, Write(c)
    PROVE  IngestInv'
<1>1. IngestTypeOK /\ ConsumersInStep
  BY DEF IngestInv
<1>2. /\ pc[c] = "write" /\ pc'[c] = "offset"
      /\ \A b \in Consumers \ {c} : pc'[b] = pc[b] /\ found'[b] = found[b]
      /\ UNCHANGED <<log, owner, position, committed, next, upto, turn>>
  BY <1>1 DEF Write, IngestTypeOK, brokerVars
<1>3. RecordedNext(turn[c], next[c][turn[c]])
  <2>1. ~UniqueViolation(c) /\ Record(c)
    BY DEF Write
  <2>2. rows'[EventOf(c)] # None
    BY <1>1, <1>2, <2>1, RecordTypes
  <2> QED  BY <1>2, <2>2 DEF RecordedNext, EventOf, Message
<1>4. ASSUME NEW b \in Consumers
      PROVE
        /\ \A q \in Partitions : upto'[b][q] <= Len(log'[q])
        /\ pc'[b] = "poll" => \A q \in Partitions : ~(next'[b][q] < upto'[b][q])
        /\ pc'[b] \in {"write", "offset"} =>
             turn'[b] # None /\ next'[b][turn'[b]] < upto'[b][turn'[b]]
        /\ pc'[b] = "offset" \/ (pc'[b] = "write" /\ found'[b]) =>
             RecordedNext(turn'[b], next'[b][turn'[b]])
  <2>1. CASE b = c
    BY <1>1, <1>2, <1>3, <2>1, Kept DEF ConsumersInStep, Holds
  <2>2. CASE b # c
    BY <1>1, <1>2, <2>2, Kept DEF ConsumersInStep, Holds
  <2> QED  BY <2>1, <2>2
<1> QED  BY <1>2, <1>4, Kept, InvNext DEF Holds

(* The offset commit: the message it passes is recorded.                   *)
LEMMA CommitStep ==
    ASSUME IngestInv, IngestTypeOK', Grows, NEW c \in Consumers, CommitOffset(c)
    PROVE  IngestInv'
<1> DEFINE p == turn[c]
           n == next[c][p]
<1>1. IngestTypeOK /\ ConsumersInStep
  BY DEF IngestInv
<1>2. /\ pc[c] = "offset" /\ p \in Partitions /\ n \in Nat
      /\ upto[c] \in [Partitions -> Nat] /\ next[c] \in [Partitions -> Nat]
      /\ owner[p] = c /\ Holds(c, p) /\ RecordedNext(p, n)
  <2>1. pc[c] = "offset" /\ owner[p] = c
    BY DEF CommitOffset
  <2>2. p \in Partitions /\ n \in Nat
    BY <1>1, <2>1, EventInHand
  <2> QED  BY <1>1, <2>1, <2>2, Kept DEF ConsumersInStep, IngestTypeOK
<1>3. /\ \A q \in Partitions : committed'[q] = IF q = p THEN n + 1 ELSE committed[q]
      /\ \A q \in Partitions : next'[c][q] = IF q = p THEN n + 1 ELSE next[c][q]
      /\ pc'[c] \in {"lookup", "poll"}
      /\ pc'[c] = "poll" => \A q \in Partitions : ~(next'[c][q] < upto[c][q])
  BY <1>1, <1>2 DEF CommitOffset, IngestTypeOK
<1>4. /\ \A b \in Consumers \ {c} :
           pc'[b] = pc[b] /\ turn'[b] = turn[b] /\ next'[b] = next[b]
      /\ UNCHANGED <<log, owner, position, upto, found>>
  BY <1>1 DEF CommitOffset, IngestTypeOK
<1>5. \A o \in 0..n : RecordedNext(p, o)
  <2>1. \A o \in 0..(n - 1) : RecordedNext(p, o)
    BY <1>2, Kept
  <2>2. \A o \in 0..n : o = n \/ o \in 0..(n - 1)
    BY <1>2
  <2> QED  BY <1>2, <2>1, <2>2
<1>6. \A q \in Partitions : /\ committed'[q] <= Len(log'[q])
                            /\ position'[q] <= Len(log'[q])
  <2>1. n < upto[c][p] /\ upto[c][p] <= Len(log'[p]) /\ Len(log'[p]) \in Nat
    BY <1>2, Kept DEF Holds
  <2>2. n + 1 <= Len(log'[p])
    BY <1>2, <2>1
  <2> QED  BY <1>3, <1>4, <2>2, Kept
<1>7. ASSUME NEW b \in Consumers
      PROVE
        /\ \A q \in Partitions : upto'[b][q] <= Len(log'[q])
        /\ pc'[b] = "poll" => \A q \in Partitions : ~(next'[b][q] < upto'[b][q])
        /\ pc'[b] \in {"write", "offset"} =>
             turn'[b] # None /\ next'[b][turn'[b]] < upto'[b][turn'[b]]
        /\ pc'[b] = "offset" \/ (pc'[b] = "write" /\ found'[b]) =>
             RecordedNext(turn'[b], next'[b][turn'[b]])
  <2>1. CASE b = c
    BY <1>3, <1>4, <2>1, Kept
  <2>2. CASE b # c
    BY <1>1, <1>4, <2>2, Kept DEF ConsumersInStep, Holds
  <2> QED  BY <2>1, <2>2
<1>8. ASSUME NEW b \in Consumers, NEW q \in Partitions, next'[b][q] < upto'[b][q]
      PROVE  \A o \in 0..(next'[b][q] - 1) : RecordedNext(q, o)
  <2>1. CASE b = c /\ q = p
    <3>1. next'[b][q] - 1 = n
      BY <1>2, <1>3, <2>1
    <3> QED  BY <1>5, <2>1, <3>1
  <2>2. CASE b = c /\ q # p
    BY <1>3, <1>4, <1>8, <2>2, Kept DEF Holds
  <2>3. CASE b # c
    BY <1>4, <1>8, <2>3, Kept DEF Holds
  <2> QED  BY <2>1, <2>2, <2>3
<1>9. ASSUME NEW q \in Partitions, NEW o \in 0..(position'[q] - 1)
      PROVE  \/ RecordedNext(q, o)
             \/ next'[owner'[q]][q] <= o /\ o < upto'[owner'[q]][q]
  <2>1. CASE q = p
    <3>1. CASE o = n
      BY <1>2, <2>1, <3>1
    <3>2. CASE o # n
      <4>1. o \in Int
        BY <1>1 DEF IngestTypeOK
      <4> QED  BY <1>2, <1>3, <1>4, <2>1, <3>2, <4>1, Kept
    <3> QED  BY <3>1, <3>2
  <2>2. CASE q # p
    <3>1. owner[q] \in Consumers
      BY <1>1 DEF IngestTypeOK
    <3>2. next'[owner[q]][q] = next[owner[q]][q]
      BY <1>3, <1>4, <2>2, <3>1
    <3> QED  BY <1>4, <3>2, Kept
  <2> QED  BY <2>1, <2>2
<1>10. ASSUME NEW q \in Partitions, NEW o \in 0..(committed'[q] - 1)
       PROVE  RecordedNext(q, o)
  <2>1. CASE q = p
    <3>1. o \in 0..n
      BY <1>2, <1>3, <2>1
    <3> QED  BY <1>5, <2>1, <3>1
  <2>2. CASE q # p
    BY <1>3, <2>2, Kept
  <2> QED  BY <2>1, <2>2
<1> QED  BY <1>6, <1>7, <1>8, <1>9, <1>10, InvNext

-----------------------------------------------------------------------------
(* Nothing has been sent, fetched or recorded.                             *)
LEMMA InitInv == IngestInit => IngestInv
<1> SUFFICES ASSUME IngestInit PROVE IngestInv
  OBVIOUS
<1>1. IngestTypeOK
  BY IngestionBounds DEF IngestInit, IngestTypeOK, Zero
<1>2. OffsetsInLog /\ ConsumersInStep
  BY DEF IngestInit, OffsetsInLog, ConsumersInStep, Holds, Zero
<1>3. NothingSkipped /\ CommittedAreRecorded
  BY DEF IngestInit, NothingSkipped, CommittedAreRecorded, Holds, Zero
<1> QED  BY <1>1, <1>2, <1>3 DEF IngestInv

(* Every step keeps the invariant.                                         *)
LEMMA StepInv == IngestInv /\ [IngestNext]_ingestVars => IngestInv'
<1> SUFFICES ASSUME IngestInv, [IngestNext]_ingestVars PROVE IngestInv'
  OBVIOUS
<1>1. CASE UNCHANGED ingestVars
  BY <1>1 DEF ingestVars, brokerVars, consumerVars, dbVars, boundVars, IngestInv,
     IngestTypeOK, OffsetsInLog, ConsumersInStep, NothingSkipped,
     CommittedAreRecorded, Holds, Recorded
<1>2. CASE IngestNext
  <2>0. IngestTypeOK' /\ Grows
    BY <1>2, StepTypes DEF IngestInv
  <2>1. ASSUME NEW e \in Events, Publish(e) PROVE IngestInv'
    BY <2>0, <2>1, QuietStep DEF Publish
  <2>2. ASSUME NEW x \in Equipment, SeedEquipment(x) PROVE IngestInv'
    BY <2>0, <2>2, QuietStep DEF SeedEquipment, brokerVars
  <2>3. ASSUME NEW p \in Partitions, NEW c \in Consumers, Rebalance(p, c)
        PROVE  IngestInv'
    BY <2>0, <2>3, RebalanceStep
  <2>4. ASSUME NEW c \in Consumers, Poll(c) PROVE IngestInv'
    BY <2>0, <2>4, PollStep
  <2>5. ASSUME NEW c \in Consumers, EmptyPoll(c) PROVE IngestInv'
    BY <2>0, <2>5, QuietStep DEF EmptyPoll, ingestVars, brokerVars
  <2>6. ASSUME NEW c \in Consumers, Lookup(c) PROVE IngestInv'
    BY <2>0, <2>6, LookupStep
  <2>7. ASSUME NEW c \in Consumers, Write(c) PROVE IngestInv'
    BY <2>0, <2>7, WriteStep
  <2>8. ASSUME NEW c \in Consumers, WriteConflicts(c) PROVE IngestInv'
    BY <2>0, <2>8, FailureStep DEF WriteConflicts
  <2>9. ASSUME NEW c \in Consumers, WriteFails(c) PROVE IngestInv'
    BY <2>0, <2>9, FailureStep DEF WriteFails
  <2>10. ASSUME NEW c \in Consumers, CommitOffset(c) PROVE IngestInv'
    BY <2>0, <2>10, CommitStep
  <2>11. ASSUME NEW c \in Consumers, CommitRaises(c) PROVE IngestInv'
    BY <2>0, <2>11, RestartStep DEF CommitRaises
  <2>12. ASSUME NEW c \in Consumers, Crash(c) PROVE IngestInv'
    BY <2>0, <2>12, RestartStep DEF Crash
  <2> QED  BY <1>2, <2>1, <2>2, <2>3, <2>4, <2>5, <2>6, <2>7, <2>8, <2>9,
              <2>10, <2>11, <2>12 DEF IngestNext, ConsumerStep
<1> QED  BY <1>1, <1>2

(* The invariant holds in every state of every behaviour.                  *)
THEOREM IngestionInvariant == IngestSpec => []IngestInv
<1>1. IngestInit => IngestInv
  BY InitInv
<1>2. IngestInv /\ [IngestNext]_ingestVars => IngestInv'
  BY StepInv
<1> QED  BY <1>1, <1>2, PTL DEF IngestSpec

(* The log, the offsets, the consumers and the tables keep their shapes.   *)
THEOREM IngestionTypes == IngestSpec => []IngestTypeOK
<1>1. IngestInv => IngestTypeOK
  BY DEF IngestInv
<1> QED  BY <1>1, IngestionInvariant, PTL

(* At-least-once delivery loses nothing: every message below a committed   *)
(* offset has its row, for any number of consumers, crashes, failed        *)
(* commits and rebalances.                                                 *)
THEOREM NothingIsLost == IngestSpec => []CommittedAreRecorded
<1>1. IngestInv => CommittedAreRecorded
  BY DEF IngestInv
<1> QED  BY <1>1, IngestionInvariant, PTL

-----------------------------------------------------------------------------
(***************************************************************************)
(* The tables, for any events, partitions, consumers and bounds: every     *)
(* event is disposed of once, the history and the current values are those *)
(* of the accepted events, these are accepted in the order of receipt, and *)
(* so the tables implement TelemetryStore.                                 *)
(***************************************************************************)

tables == <<rows, attempts, readings, current>>

RowOf(d, at) == [status |-> d, received_at |-> at]

(* The three outcomes of a transaction for event e.                        *)
Repeats(e) ==
    /\ rows[e] # None
    /\ attempts' = [attempts EXCEPT ![e]["DUPLICATE"] = @ + 1]
    /\ UNCHANGED <<rows, readings, current>>

Rejects(e) ==
    /\ rows[e] = None
    /\ \E at \in Nat : rows' = [rows EXCEPT ![e] = RowOf("REJECTED", at)]
    /\ attempts' = [attempts EXCEPT ![e]["REJECTED"] = @ + 1]
    /\ UNCHANGED <<readings, current>>

Accepts(e, at) ==
    /\ rows[e] = None
    /\ rows' = [rows EXCEPT ![e] = RowOf("ACCEPTED", at)]
    /\ attempts' = [attempts EXCEPT ![e]["ACCEPTED"] = @ + 1]
    /\ readings' = readings \cup {[event |-> e, point |-> pt] : pt \in DOMAIN e.values}
    /\ current' = [pt \in Points |->
                      IF pt \in DOMAIN e.values /\ Supersedes(e, current[pt])
                      THEN e ELSE current[pt]]

(* A transaction that is carried out, by an attempt that succeeds or by    *)
(* one that never hears of it.                                             *)
Transacts(c) ==
    /\ pc[c] = "write"
    /\ ~UniqueViolation(c)
    /\ Record(c)
    /\ UNCHANGED <<log, clock>>

(* A step sends a message, or carries out one transaction, or touches      *)
(* neither the log nor the tables.                                         *)
LEMMA StepKinds ==
    ASSUME [IngestNext]_ingestVars
    PROVE  \/ UNCHANGED <<tables, log, clock>>
           \/ UNCHANGED tables /\ \E e \in Events : Publish(e)
           \/ \E c \in Consumers : Transacts(c)
<1> USE DEF tables
<1>1. CASE UNCHANGED ingestVars
  BY <1>1 DEF ingestVars, brokerVars, dbVars
<1>2. ASSUME NEW e \in Events, Publish(e) PROVE UNCHANGED tables
  BY <1>2 DEF Publish, dbVars
<1>3. ASSUME NEW x \in Equipment, SeedEquipment(x)
      PROVE  UNCHANGED <<tables, log, clock>>
  BY <1>3 DEF SeedEquipment, brokerVars
<1>4. ASSUME NEW p \in Partitions, NEW c \in Consumers, Rebalance(p, c)
      PROVE  UNCHANGED <<tables, log, clock>>
  BY <1>4 DEF Rebalance, dbVars
<1>5. ASSUME NEW c \in Consumers, Restart(c) PROVE UNCHANGED <<log, clock>>
  BY <1>5 DEF Restart
<1>6. ASSUME NEW c \in Consumers, AttemptFails(c) PROVE UNCHANGED <<log, clock>>
  BY <1>5, <1>6 DEF AttemptFails, brokerVars
<1>7. ASSUME NEW c \in Consumers, ConsumerStep(c)
      PROVE  UNCHANGED <<tables, log, clock>> \/ Transacts(c)
  <2>1. CASE Poll(c)
    BY <2>1 DEF Poll, dbVars
  <2>2. CASE EmptyPoll(c)
    BY <2>2 DEF EmptyPoll, ingestVars, brokerVars, dbVars
  <2>3. CASE Lookup(c)
    BY <2>3 DEF Lookup, brokerVars, dbVars
  <2>4. CASE Write(c)
    BY <2>4 DEF Write, Transacts, brokerVars
  <2>5. CASE WriteConflicts(c)
    BY <1>6, <2>5 DEF WriteConflicts, dbVars
  <2>6. CASE CommitOffset(c)
    BY <2>6 DEF CommitOffset, dbVars
  <2>7. CASE CommitRaises(c)
    BY <1>5, <2>7 DEF CommitRaises, dbVars
  <2> QED  BY <1>7, <2>1, <2>2, <2>3, <2>4, <2>5, <2>6, <2>7 DEF ConsumerStep
<1>8. ASSUME NEW c \in Consumers, WriteFails(c)
      PROVE  UNCHANGED <<tables, log, clock>> \/ Transacts(c)
  BY <1>6, <1>8 DEF WriteFails, Transacts, dbVars
<1>9. ASSUME NEW c \in Consumers, Crash(c)
      PROVE  UNCHANGED <<tables, log, clock>>
  BY <1>5, <1>9 DEF Crash, dbVars
<1> QED  BY <1>1, <1>2, <1>3, <1>4, <1>7, <1>8, <1>9 DEF IngestNext

(* What a transaction comes to.                                            *)
LEMMA TransactionKinds ==
    ASSUME IngestInv, NEW c \in Consumers, Transacts(c)
    PROVE  /\ EventOf(c) \in Events
           /\ \/ Repeats(EventOf(c))
              \/ Rejects(EventOf(c))
              \/ Accepts(EventOf(c), Message(c).received_at)
<1> DEFINE e  == EventOf(c)
           d  == IF found[c] THEN "DUPLICATE" ELSE Disposition(e)
           in == IF d = "ACCEPTED" THEN DOMAIN e.values ELSE {}
           at == IF e.malformed THEN clock ELSE Message(c).received_at
<1>1. IngestTypeOK /\ ConsumersInStep /\ pc[c] = "write"
  BY DEF IngestInv, Transacts
<1>2. e \in Events /\ Message(c) \in MessageType
  BY <1>1, EventInHand
<1>3. at \in Nat
  BY <1>1, <1>2 DEF MessageType, IngestTypeOK
<1>4. /\ attempts' = [attempts EXCEPT ![e][d] = @ + 1]
      /\ rows' = IF found[c] THEN rows ELSE [rows EXCEPT ![e] = RowOf(d, at)]
      /\ readings' = readings \cup {[event |-> e, point |-> pt] : pt \in in}
      /\ current' = [pt \in Points |->
                        IF pt \in in /\ Supersedes(e, current[pt])
                        THEN e ELSE current[pt]]
  BY DEF Transacts, Record, RowOf
<1>5. in = {} => readings' = readings /\ current' = current
  <2>1. in = {} => current' = [pt \in Points |-> current[pt]]
    BY <1>4
  <2>2. current = [pt \in Points |-> current[pt]]
    BY <1>1 DEF IngestTypeOK
  <2> QED  BY <1>4, <2>1, <2>2
<1>6. found[c] = (rows[e] # None)
  <2>1. found[c] => rows[e] # None
    BY <1>1 DEF ConsumersInStep, Recorded, EventOf, Message
  <2>2. ~found[c] => rows[e] = None
    BY DEF Transacts, UniqueViolation
  <2>3. found[c] \in BOOLEAN
    BY <1>1 DEF IngestTypeOK
  <2> QED  BY <2>1, <2>2, <2>3
<1>7. CASE found[c]
  BY <1>2, <1>4, <1>5, <1>6, <1>7 DEF Repeats
<1>8. CASE ~found[c] /\ Disposition(e) = "REJECTED"
  <2>1. rows' = [rows EXCEPT ![e] = RowOf("REJECTED", at)]
    BY <1>4, <1>8
  <2> HIDE DEF at
  <2> QED  BY <1>2, <1>3, <1>4, <1>5, <1>6, <1>8, <2>1 DEF Rejects
<1>9. CASE ~found[c] /\ Disposition(e) = "ACCEPTED"
  <2>1. ~e.malformed
    BY <1>9 DEF Disposition
  <2> QED  BY <1>2, <1>4, <1>6, <1>9, <2>1 DEF Accepts
<1> QED  BY <1>7, <1>8, <1>9 DEF Disposition

(* Which events count as accepted after a transaction.                     *)
LEMMA AcceptedAfter ==
    ASSUME IngestTypeOK, NEW e \in Events
    PROVE  /\ Repeats(e) => Accepted' = Accepted
           /\ Rejects(e) => Accepted' = Accepted
           /\ \A at \in Nat : Accepts(e, at) => Accepted' = Accepted \cup {e}
<1>1. ASSUME NEW d \in {"ACCEPTED", "REJECTED"}, NEW at \in Nat,
             rows[e] = None, rows' = [rows EXCEPT ![e] = RowOf(d, at)]
      PROVE  /\ \A f \in Events \ {e} : rows'[f] = rows[f]
             /\ rows'[e] # None /\ rows'[e].status = d
             /\ e \notin Accepted
  <2>1. RowOf(d, at) \in [status : {"ACCEPTED", "REJECTED"}, received_at : Nat]
    BY DEF RowOf
  <2>2. rows'[e] = RowOf(d, at) /\ RowOf(d, at) # None
    BY <1>1, <2>1, IngestionNone DEF IngestTypeOK
  <2> QED  BY <1>1, <2>2 DEF IngestTypeOK, RowOf, Accepted
<1>2. ASSUME Repeats(e) PROVE Accepted' = Accepted
  BY <1>2 DEF Repeats, Accepted
<1>3. ASSUME Rejects(e) PROVE Accepted' = Accepted
  <2>1. PICK at \in Nat : rows' = [rows EXCEPT ![e] = RowOf("REJECTED", at)]
    BY <1>3 DEF Rejects
  <2> QED  BY <1>1, <1>3, <2>1 DEF Rejects, Accepted
<1>4. ASSUME NEW at \in Nat, Accepts(e, at) PROVE Accepted' = Accepted \cup {e}
  BY <1>1, <1>4 DEF Accepts, Accepted
<1> QED  BY <1>2, <1>3, <1>4

(* A transaction counts one attempt, of the disposition it comes to.       *)
LEMMA CountsOne ==
    ASSUME IngestTypeOK, NEW e \in Events, NEW d \in Dispositions,
           attempts' = [attempts EXCEPT ![e][d] = @ + 1]
    PROVE  /\ \A f \in Events \ {e} : attempts'[f] = attempts[f]
           /\ \A x \in Dispositions :
                attempts'[e][x] = IF x = d THEN attempts[e][x] + 1 ELSE attempts[e][x]
<1>1. attempts \in [Events -> [Dispositions -> Nat]]
  BY DEF IngestTypeOK
<1> QED  BY <1>1

(* Each of the three effects of an attempt leaves an event disposed of at  *)
(* most once.                                                              *)
LEMMA DispositionStep ==
    ASSUME IngestTypeOK, OneDisposition, NEW e \in Events,
           Repeats(e) \/ Rejects(e) \/ \E at \in Nat : Accepts(e, at)
    PROVE  OneDisposition'
<1> USE DEF OneDisposition
<1>1. CASE Repeats(e)
  <2>1. \A f \in Events : \A d \in {"ACCEPTED", "REJECTED"} :
          attempts'[f][d] = attempts[f][d]
    BY <1>1, CountsOne DEF Repeats, Dispositions
  <2>2. \A f \in Events \ {e} : attempts'[f] = attempts[f]
    BY <1>1, CountsOne DEF Repeats, Dispositions
  <2>3. rows' = rows /\ rows[e] # None
    BY <1>1 DEF Repeats
  <2> QED  BY <2>1, <2>2, <2>3
<1>2. ASSUME NEW d \in {"ACCEPTED", "REJECTED"}, NEW at \in Nat,
             rows[e] = None, rows' = [rows EXCEPT ![e] = RowOf(d, at)],
             attempts' = [attempts EXCEPT ![e][d] = @ + 1]
      PROVE  OneDisposition'
  <2>1. RowOf(d, at) \in [status : {"ACCEPTED", "REJECTED"}, received_at : Nat]
    BY DEF RowOf
  <2>2. rows'[e] # None /\ rows'[e].status = d
    BY <1>2, <2>1, IngestionNone DEF IngestTypeOK, RowOf
  <2>3. \A f \in Events \ {e} : rows'[f] = rows[f] /\ attempts'[f] = attempts[f]
    BY <1>2, CountsOne DEF IngestTypeOK, Dispositions
  <2>4. \A x \in {"ACCEPTED", "REJECTED"} : attempts'[e][x] = IF x = d THEN 1 ELSE 0
    <3>1. \A x \in Dispositions : attempts[e][x] = 0
      BY <1>2
    <3>2. d \in Dispositions
      BY DEF Dispositions
    <3>3. \A x \in Dispositions :
             attempts'[e][x] = IF x = d THEN attempts[e][x] + 1 ELSE attempts[e][x]
      BY <1>2, <3>2, CountsOne
    <3> QED  BY <3>1, <3>3 DEF Dispositions
  <2>5. ASSUME NEW f \in Events
        PROVE  /\ rows'[f] = None => \A x \in Dispositions : attempts'[f][x] = 0
               /\ rows'[f] # None =>
                    \A x \in {"ACCEPTED", "REJECTED"} :
                       attempts'[f][x] = IF x = rows'[f].status THEN 1 ELSE 0
    <3>1. CASE f = e
      BY <2>2, <2>4, <3>1
    <3>2. CASE f # e
      BY <2>3, <3>2
    <3> QED  BY <3>1, <3>2
  <2> QED  BY <2>5
<1>3. CASE Rejects(e)
  BY <1>2, <1>3 DEF Rejects
<1>4. CASE \E at \in Nat : Accepts(e, at)
  BY <1>2, <1>4 DEF Accepts
<1> QED  BY <1>1, <1>3, <1>4

(* Each of them leaves the readings those of the accepted events.          *)
LEMMA HistoryStep ==
    ASSUME IngestTypeOK, HistoryIsAccepted, NEW e \in Events,
           Repeats(e) \/ Rejects(e) \/ \E at \in Nat : Accepts(e, at)
    PROVE  HistoryIsAccepted'
<1>1. CASE Repeats(e) \/ Rejects(e)
  <2>1. Accepted' = Accepted /\ readings' = readings
    BY <1>1, AcceptedAfter DEF Repeats, Rejects
  <2> QED  BY <2>1 DEF HistoryIsAccepted
<1>2. CASE \E at \in Nat : Accepts(e, at)
  <2>1. /\ Accepted' = Accepted \cup {e}
        /\ readings' = readings \cup {[event |-> e, point |-> pt] : pt \in DOMAIN e.values}
    BY <1>2, AcceptedAfter DEF Accepts
  <2>2. DOMAIN e.values \subseteq Points
    BY EventAssumption
  <2>3. \A r \in readings' : /\ r \in [event : Events, point : Points]
                             /\ r.event \in Accepted'
                             /\ r.point \in DOMAIN r.event.values
    BY <2>1, <2>2 DEF HistoryIsAccepted
  <2>4. ASSUME NEW f \in Accepted', NEW pt \in Points, pt \in DOMAIN f.values
        PROVE  [event |-> f, point |-> pt] \in readings'
    <3>1. CASE f = e
      BY <2>1, <2>4, <3>1
    <3>2. CASE f \in Accepted
      BY <2>1, <2>4, <3>2 DEF HistoryIsAccepted, Accepted
    <3> QED  BY <2>1, <3>1, <3>2
  <2>5. \A r \in [event : Events, point : Points] :
           r = [event |-> r.event, point |-> r.point]
    OBVIOUS
  <2> QED  BY <2>3, <2>4, <2>5 DEF HistoryIsAccepted
<1> QED  BY <1>1, <1>2

(* The events with a reading of a point.                                   *)
EventsAt(hist, pt) == {r.event : r \in {x \in hist : x.point = pt}}

Measured(pt) == EventsAt(readings, pt)

HistoryOf(acc) ==
    {[event |-> e, point |-> pt] : e \in acc, pt \in Points}
    \cap {r \in [event : Events, point : Points] : r.point \in DOMAIN r.event.values}

(* In a history of the accepted events these are the ones that measure it. *)
LEMMA HistoryOfPoint ==
    ASSUME NEW acc \in SUBSET Events, NEW pt \in Points
    PROVE  EventsAt(HistoryOf(acc), pt) = {f \in acc : pt \in DOMAIN f.values}
<1> DEFINE hist == HistoryOf(acc)
<1>1. ASSUME NEW r \in hist, r.point = pt
      PROVE  r.event \in acc /\ pt \in DOMAIN r.event.values
  <2>1. r \in {[event |-> e, point |-> q] : e \in acc, q \in Points}
    BY DEF HistoryOf
  <2>2. PICK e \in acc, q \in Points : r = [event |-> e, point |-> q]
    BY <2>1
  <2>3. r.point \in DOMAIN r.event.values
    BY DEF HistoryOf
  <2> QED  BY <1>1, <2>2, <2>3
<1>2. ASSUME NEW f \in acc, pt \in DOMAIN f.values
      PROVE  \E r \in hist : r.point = pt /\ r.event = f
  <2>1. [event |-> f, point |-> pt] \in hist
    BY <1>2 DEF HistoryOf
  <2> QED  BY <2>1
<1> HIDE DEF hist
<1>3. EventsAt(hist, pt) = {f \in acc : pt \in DOMAIN f.values}
  BY <1>1, <1>2 DEF EventsAt
<1> QED  BY <1>3 DEF hist

(* What has been measured at a point is what the accepted events hold for  *)
(* it.                                                                     *)
LEMMA MeasuredAreAccepted ==
    ASSUME NEW pt \in Points
    PROVE  /\ HistoryIsAccepted =>
                Measured(pt) = {f \in Accepted : pt \in DOMAIN f.values}
           /\ HistoryIsAccepted' =>
                Measured(pt)' = {f \in Accepted' : pt \in DOMAIN f.values}
<1>1. Accepted \in SUBSET Events /\ Accepted' \in SUBSET Events
  BY DEF Accepted
<1>2. ASSUME HistoryIsAccepted
      PROVE  Measured(pt) = {f \in Accepted : pt \in DOMAIN f.values}
  <2>1. readings = HistoryOf(Accepted)
    BY <1>2 DEF HistoryIsAccepted, HistoryOf
  <2> QED  BY <1>1, <2>1, HistoryOfPoint DEF Measured
<1>3. ASSUME HistoryIsAccepted'
      PROVE  Measured(pt)' = {f \in Accepted' : pt \in DOMAIN f.values}
  <2>1. readings' = HistoryOf(Accepted')
    BY <1>3 DEF HistoryIsAccepted, HistoryOf
  <2> QED  BY <1>1, <2>1, HistoryOfPoint DEF Measured
<1> QED  BY <1>2, <1>3

(* The current value of a point comes from its newest event.               *)
IsNewestOf(now, mine) ==
    IF mine = {} THEN now = None
    ELSE /\ now \in mine
         /\ \A e \in mine : e.observed_at <= now.observed_at
         /\ \A e \in mine : e.observed_at = now.observed_at => e.id <= now.id

(* Each of them leaves the current value the newest one: the upsert        *)
(* compares times, then ids.                                               *)
LEMMA CurrentStep ==
    ASSUME IngestTypeOK, CurrentIsNewest, HistoryIsAccepted, HistoryIsAccepted',
           NEW e \in Events,
           Repeats(e) \/ Rejects(e) \/ \E at \in Nat : Accepts(e, at)
    PROVE  CurrentIsNewest'
<1>1. CASE Repeats(e) \/ Rejects(e)
  BY <1>1 DEF Repeats, Rejects, CurrentIsNewest
<1>2. CASE \E at \in Nat : Accepts(e, at)
  <2> SUFFICES ASSUME NEW pt \in Points
               PROVE  IsNewestOf(current'[pt], Measured(pt)')
    BY DEF CurrentIsNewest, IsNewestOf, Measured, EventsAt
  <2> DEFINE mine == Measured(pt)
             now  == current[pt]
  <2>1. IsNewestOf(now, mine)
    BY DEF CurrentIsNewest, IsNewestOf, Measured, EventsAt
  <2>2. /\ Measured(pt)' = IF pt \in DOMAIN e.values THEN mine \cup {e} ELSE mine
        /\ mine \subseteq Events
    <3>1. Accepted' = Accepted \cup {e}
      BY <1>2, AcceptedAfter
    <3>2. /\ mine = {f \in Accepted : pt \in DOMAIN f.values}
          /\ Measured(pt)' = {f \in Accepted' : pt \in DOMAIN f.values}
      BY MeasuredAreAccepted
    <3> QED  BY <3>1, <3>2 DEF Accepted
  <2>3. current'[pt] = IF pt \in DOMAIN e.values /\ Supersedes(e, now)
                       THEN e ELSE now
    BY <1>2 DEF Accepts
  <2>4. \A f \in Events : f.id \in Nat /\ f.observed_at \in Nat /\ f # None
    BY EventAssumption, IngestionNone
  <2> HIDE DEF mine, now
  <2>5. CASE pt \notin DOMAIN e.values
    BY <2>1, <2>2, <2>3, <2>5
  <2>6. CASE pt \in DOMAIN e.values /\ mine = {}
    BY <2>1, <2>2, <2>3, <2>4, <2>6 DEF IsNewestOf, Supersedes
  <2>7. CASE pt \in DOMAIN e.values /\ mine # {}
    <3>1. now \in Events /\ now \in mine
      BY <2>1, <2>2, <2>7 DEF IsNewestOf
    <3>2. CASE Supersedes(e, now)
      BY <2>1, <2>2, <2>3, <2>4, <2>7, <3>1, <3>2 DEF IsNewestOf, Supersedes
    <3>3. CASE ~Supersedes(e, now)
      BY <2>1, <2>2, <2>3, <2>4, <2>7, <3>1, <3>3 DEF IsNewestOf, Supersedes
    <3> QED  BY <3>2, <3>3
  <2> QED  BY <2>5, <2>6, <2>7
<1> QED  BY <1>1, <1>2

-----------------------------------------------------------------------------
(* Messages are stamped when they are built.                               *)
LEMMA LogStep ==
    ASSUME IngestTypeOK, LogInOrder,
           UNCHANGED <<log, clock>> \/ \E e \in Events : Publish(e)
    PROVE  LogInOrder'
<1>1. CASE UNCHANGED <<log, clock>>
  BY <1>1 DEF LogInOrder
<1>2. ASSUME NEW e \in Events, Publish(e) PROVE LogInOrder'
  <2> DEFINE m == [event |-> e, received_at |-> clock + 1]
  <2>1. /\ e.partition \in Partitions
        /\ log \in [Partitions -> Seq(MessageType)] /\ clock \in Nat
    BY EventAssumption DEF IngestTypeOK
  <2>0. m \in MessageType
    BY <2>1 DEF MessageType
  <2>2. /\ clock' = clock + 1
        /\ log' = [log EXCEPT ![e.partition] = Append(log[e.partition], m)]
    BY <1>2 DEF Publish
  <2> SUFFICES ASSUME NEW p \in Partitions, NEW i \in DOMAIN log'[p]
               PROVE  /\ log'[p][i].event.partition = p
                      /\ log'[p][i].received_at <= clock'
                      /\ \A j \in 1..(i - 1) :
                           log'[p][j].received_at < log'[p][i].received_at
    BY DEF LogInOrder
  <2>3. \A j \in DOMAIN log[p] : /\ log[p][j].event.partition = p
                                 /\ log[p][j].received_at <= clock
                                 /\ log[p][j].received_at \in Nat
    <3> TAKE j \in DOMAIN log[p]
    <3>1. log[p] \in Seq(MessageType)
      BY <2>1
    <3>2. log[p][j] \in MessageType
      BY <3>1
    <3> QED  BY <3>2 DEF LogInOrder, MessageType
  <2>4. CASE p # e.partition
    <3>1. log'[p] = log[p]
      BY <2>0, <2>1, <2>2, <2>4
    <3> QED  BY <2>1, <2>2, <2>3, <3>1 DEF LogInOrder
  <2>5. CASE p = e.partition
    <3>1. log'[p] = Append(log[p], m) /\ log[p] \in Seq(MessageType) /\ m \in MessageType
      BY <2>0, <2>1, <2>2, <2>5
    <3>2. CASE i = Len(log[p]) + 1
      <4>1. log'[p][i] = m
        BY <3>1, <3>2
      <4>2. \A j \in 1..(i - 1) : j \in DOMAIN log[p] /\ log'[p][j] = log[p][j]
        BY <3>1, <3>2
      <4>3. m.event = e /\ m.received_at = clock + 1
        OBVIOUS
      <4> HIDE DEF m
      <4>4. \A j \in 1..(i - 1) : log'[p][j].received_at < clock + 1
        BY <2>1, <2>3, <4>2
      <4> QED  BY <2>1, <2>2, <2>5, <4>1, <4>3, <4>4
    <3>3. CASE i # Len(log[p]) + 1
      <4>1. i \in DOMAIN log[p] /\ log'[p][i] = log[p][i]
        BY <3>1, <3>3
      <4>2. \A j \in 1..(i - 1) : j \in DOMAIN log[p] /\ log'[p][j] = log[p][j]
        BY <3>1, <4>1
      <4> HIDE DEF m
      <4> QED  BY <2>1, <2>2, <2>3, <4>1, <4>2 DEF LogInOrder
    <3> QED  BY <3>2, <3>3
  <2> QED  BY <2>4, <2>5
<1> QED  BY <1>1, <1>2

(* A transaction writes no row but that of its own event.                  *)
LEMMA OtherRows ==
    ASSUME IngestTypeOK, NEW e \in Events,
           Repeats(e) \/ Rejects(e) \/ \E at \in Nat : Accepts(e, at),
           NEW f \in Events, rows[f] # None
    PROVE  rows'[f] = rows[f]
<1>1. rows \in [Events -> [status : {"ACCEPTED", "REJECTED"}, received_at : Nat]
                          \cup {None}]
  BY DEF IngestTypeOK
<1>2. CASE Repeats(e)
  BY <1>2 DEF Repeats
<1>3. ASSUME rows[e] = None, NEW row, rows' = [rows EXCEPT ![e] = row]
      PROVE  rows'[f] = rows[f]
  BY <1>1, <1>3
<1>4. CASE Rejects(e)
  BY <1>3, <1>4 DEF Rejects
<1>5. CASE \E at \in Nat : Accepts(e, at)
  BY <1>3, <1>5 DEF Accepts
<1> QED  BY <1>2, <1>4, <1>5

(* The message a consumer accepts an event from: everything below it was   *)
(* recorded, because the consumer has passed it.                           *)
LEMMA AcceptedFrom ==
    ASSUME IngestInv, LogInOrder, NEW c \in Consumers, Transacts(c)
    PROVE  LET e == EventOf(c)
               o == next[c][turn[c]]
           IN  /\ o \in Nat
               /\ o + 1 \in DOMAIN log[e.partition]
               /\ log[e.partition][o + 1] = [event |-> e, received_at |-> Message(c).received_at]
               /\ Message(c).received_at \in Nat
               /\ \A q \in 0..(o - 1) : Recorded(e.partition, q)
<1> DEFINE e == EventOf(c)
           p == turn[c]
           o == next[c][p]
<1>1. IngestTypeOK /\ ConsumersInStep /\ NothingSkipped /\ pc[c] = "write"
  BY DEF IngestInv, Transacts
<1>2. /\ p \in Partitions /\ o \in Nat /\ o + 1 \in 1..Len(log[p])
      /\ Message(c) \in MessageType
  BY <1>1, EventInHand
<1>3. o + 1 \in DOMAIN log[p]
  BY <1>1, <1>2 DEF IngestTypeOK
<1>4. e.partition = p
  BY <1>2, <1>3 DEF LogInOrder, EventOf, Message
<1>5. /\ Message(c) = [event |-> e, received_at |-> Message(c).received_at]
      /\ Message(c).received_at \in Nat
  BY <1>2 DEF MessageType, EventOf
<1>6. \A q \in 0..(o - 1) : Recorded(p, q)
  BY <1>1, <1>2 DEF ConsumersInStep, NothingSkipped
<1>7. log[p][o + 1] = Message(c)
  BY DEF Message
<1> QED  BY <1>2, <1>3, <1>4, <1>5, <1>6, <1>7

(* The message of an accepted event stays where it is.                     *)
LEMMA StaysLogged ==
    ASSUME IngestTypeOK, IngestTypeOK', Grows, NEW e \in Events, rows'[e] = rows[e],
           NEW o \in Nat, AcceptedOff(e, o)
    PROVE  AcceptedOff(e, o)'
<1> DEFINE p == e.partition
<1>1. /\ p \in Partitions /\ log[p] \in Seq(MessageType)
      /\ o + 1 \in 1..Len(log[p])
      /\ \A q \in 0..(o - 1) : Recorded(p, q)
      /\ log[p][o + 1] = [event |-> e, received_at |-> rows[e].received_at]
  BY EventAssumption DEF IngestTypeOK, AcceptedOff
<1>2. log'[p][o + 1] = log[p][o + 1]
  BY <1>1 DEF Grows
<1>3. \A q \in 0..(o - 1) : Recorded(p, q)'
  <2> TAKE q \in 0..(o - 1)
  <2>1. q \in Nat /\ q < Len(log[p])
    BY <1>1
  <2> QED  BY <1>1, <2>1, StaysRecorded
<1>4. o + 1 \in DOMAIN log'[p]
  <2>1. log'[p] \in Seq(MessageType) /\ Len(log[p]) <= Len(log'[p])
    BY <1>1 DEF IngestTypeOK, Grows
  <2> QED  BY <1>1, <2>1
<1> QED  BY <1>1, <1>2, <1>3, <1>4 DEF AcceptedOff

(* A step adds to the log and the rows only, stuttering included.          *)
LEMMA StepGrows ==
    ASSUME IngestInv, [IngestNext]_ingestVars
    PROVE  IngestInv' /\ Grows
<1>1. IngestInv'
  BY StepInv
<1>2. CASE IngestNext
  BY <1>1, <1>2, StepTypes DEF IngestInv
<1>3. CASE UNCHANGED ingestVars
  <2>1. UNCHANGED <<log, rows>>
    BY <1>3 DEF ingestVars, brokerVars, dbVars
  <2>2. \A p \in Partitions : Len(log[p]) \in Nat
    BY DEF IngestInv, IngestTypeOK
  <2> QED  BY <1>1, <2>1, <2>2 DEF Grows
<1> QED  BY <1>1, <1>2, <1>3

(* What is accepted was in the log, whichever step is taken.               *)
LEMMA LoggedStep ==
    ASSUME TablesInv, [IngestNext]_ingestVars
    PROVE  AcceptedAreLogged'
<1>1. /\ IngestInv' /\ Grows /\ IngestTypeOK /\ IngestTypeOK'
      /\ IngestInv /\ LogInOrder /\ AcceptedAreLogged
  BY StepGrows DEF TablesInv, IngestInv
<1>2. ASSUME NEW f \in Accepted, rows'[f] = rows[f]
      PROVE  \E o \in Nat : AcceptedOff(f, o)'
  <2>1. PICK o \in Nat : AcceptedOff(f, o)
    BY <1>1 DEF AcceptedAreLogged
  <2> QED  BY <1>1, <1>2, <2>1, StaysLogged DEF Accepted
<1>3. CASE UNCHANGED rows
  <2>1. Accepted' = Accepted
    BY <1>3 DEF Accepted
  <2> QED  BY <1>2, <1>3, <2>1 DEF AcceptedAreLogged
<1>4. ASSUME NEW c \in Consumers, Transacts(c),
             NEW e, e = EventOf(c), NEW at, at = Message(c).received_at,
             NEW o, o = next[c][turn[c]]
      PROVE  AcceptedAreLogged'
  <2>1. e \in Events /\ (Repeats(e) \/ Rejects(e) \/ Accepts(e, at)) /\ at \in Nat
    BY <1>1, <1>4, TransactionKinds, AcceptedFrom
  <2>2. \A f \in Accepted : rows'[f] = rows[f]
    BY <1>1, <2>1, OtherRows DEF Accepted
  <2>3. CASE Repeats(e) \/ Rejects(e)
    <3>1. Accepted' = Accepted
      BY <1>1, <2>1, <2>3, AcceptedAfter
    <3> QED  BY <1>2, <2>2, <3>1 DEF AcceptedAreLogged
  <2>4. CASE Accepts(e, at)
    <3>1. Accepted' = Accepted \cup {e}
      BY <1>1, <2>1, <2>4, AcceptedAfter
    <3>2. rows'[e].received_at = at
      BY <1>1, <2>1, <2>4 DEF Accepts, RowOf, IngestTypeOK
    <3>3. /\ o \in Nat
          /\ e.partition \in Partitions
          /\ o + 1 \in DOMAIN log[e.partition]
          /\ log[e.partition][o + 1] = [event |-> e, received_at |-> at]
          /\ \A q \in 0..(o - 1) : Recorded(e.partition, q)
      BY <1>1, <1>4, <2>1, AcceptedFrom, EventAssumption
    <3>4. log' = log
      BY <1>4 DEF Transacts
    <3>5. \A q \in 0..(o - 1) : Recorded(e.partition, q)'
      <4> TAKE q \in 0..(o - 1)
      <4>1. log[e.partition] \in Seq(MessageType)
        BY <1>1, <3>3 DEF IngestTypeOK
      <4>2. q \in Nat /\ q < Len(log[e.partition])
        BY <3>3, <4>1
      <4> QED  BY <1>1, <3>3, <4>2, StaysRecorded
    <3>6. AcceptedOff(e, o)'
      BY <3>2, <3>3, <3>4, <3>5 DEF AcceptedOff
    <3> QED  BY <1>2, <2>2, <3>1, <3>3, <3>6 DEF AcceptedAreLogged
  <2> QED  BY <2>1, <2>3, <2>4
<1> QED  BY <1>3, <1>4, StepKinds DEF tables

-----------------------------------------------------------------------------

(* Empty tables satisfy the invariant.                                     *)
LEMMA InitTables == IngestInit => TablesInv
<1> SUFFICES ASSUME IngestInit PROVE TablesInv
  OBVIOUS
<1>1. IngestInv
  BY InitInv
<1>2. Accepted = {}
  BY DEF IngestInit, Accepted
<1>3. OneDisposition
  BY DEF IngestInit, OneDisposition
<1>4. HistoryIsAccepted
  BY <1>2 DEF IngestInit, HistoryIsAccepted
<1>5. CurrentIsNewest
  BY DEF IngestInit, CurrentIsNewest
<1>6. LogInOrder
  BY DEF IngestInit, LogInOrder
<1> QED  BY <1>1, <1>2, <1>3, <1>4, <1>5, <1>6 DEF TablesInv, AcceptedAreLogged

(* Every step keeps it.                                                    *)
LEMMA StepTables == TablesInv /\ [IngestNext]_ingestVars => TablesInv'
<1> SUFFICES ASSUME TablesInv, [IngestNext]_ingestVars PROVE TablesInv'
  OBVIOUS
<1>1. /\ IngestInv' /\ AcceptedAreLogged'
      /\ IngestInv /\ IngestTypeOK
  BY StepGrows, LoggedStep DEF TablesInv, IngestInv
<1>2. LogInOrder'
  BY <1>1, StepKinds, LogStep DEF TablesInv, Transacts
<1>3. CASE UNCHANGED tables
  <2>1. UNCHANGED <<rows, attempts, readings, current>> /\ Accepted' = Accepted
    BY <1>3 DEF tables, Accepted
  <2> QED  BY <1>1, <1>2, <2>1 DEF TablesInv, OneDisposition, HistoryIsAccepted,
              CurrentIsNewest
<1>4. ASSUME NEW c \in Consumers, Transacts(c) PROVE TablesInv'
  <2>1. PICK e \in Events : Repeats(e) \/ Rejects(e) \/ \E at \in Nat : Accepts(e, at)
    BY <1>1, <1>4, TransactionKinds, AcceptedFrom DEF TablesInv
  <2>2. OneDisposition'
    BY <1>1, <2>1, DispositionStep DEF TablesInv
  <2>3. HistoryIsAccepted'
    BY <1>1, <2>1, HistoryStep DEF TablesInv
  <2>4. CurrentIsNewest'
    BY <1>1, <2>1, <2>3, CurrentStep DEF TablesInv
  <2> QED  BY <1>1, <1>2, <2>2, <2>3, <2>4 DEF TablesInv
<1> QED  BY <1>3, <1>4, StepKinds DEF tables

(* The invariant of the tables holds in every state.                       *)
THEOREM TablesInvariant == IngestSpec => []TablesInv
BY InitTables, StepTables, PTL DEF IngestSpec

(* However often an event is delivered, and to however many consumers, it  *)
(* has one row and one attempt with the disposition of the row; every      *)
(* further attempt is a DUPLICATE.                                         *)
THEOREM DisposedOnce == IngestSpec => []OneDisposition
<1>1. TablesInv => OneDisposition
  BY DEF TablesInv
<1> QED  BY <1>1, TablesInvariant, PTL

(* The telemetry history is what the accepted events measured.             *)
THEOREM HistoryExact == IngestSpec => []HistoryIsAccepted
<1>1. TablesInv => HistoryIsAccepted
  BY DEF TablesInv
<1> QED  BY <1>1, TablesInvariant, PTL

(* The current value of a point is never that of a late event.             *)
THEOREM CurrentNewest == IngestSpec => []CurrentIsNewest
<1>1. TablesInv => CurrentIsNewest
  BY DEF TablesInv
<1> QED  BY <1>1, TablesInvariant, PTL

-----------------------------------------------------------------------------
(* An event that becomes accepted was received after every event of its    *)
(* partition that was accepted before it.                                  *)
LEMMA AcceptedLater ==
    ASSUME TablesInv, [IngestNext]_ingestVars,
           NEW e \in Events, NEW f \in Events, e.partition = f.partition,
           e \in Accepted, f \notin Accepted, f \in Accepted'
    PROVE  rows[e].received_at < rows'[f].received_at
<1>1. IngestInv /\ IngestTypeOK /\ LogInOrder /\ AcceptedAreLogged
  BY DEF TablesInv, IngestInv
<1>2. PICK c \in Consumers : Transacts(c)
  <2>1. ~UNCHANGED tables
    BY DEF tables, Accepted
  <2> QED  BY <2>1, StepKinds DEF tables
<1> DEFINE at == Message(c).received_at
           o  == next[c][turn[c]]
           p  == e.partition
<1>3. /\ EventOf(c) = f
      /\ Accepts(f, at) /\ at \in Nat
  <2>1. /\ EventOf(c) \in Events /\ at \in Nat
        /\ Repeats(EventOf(c)) \/ Rejects(EventOf(c)) \/ Accepts(EventOf(c), at)
    BY <1>1, <1>2, TransactionKinds, AcceptedFrom
  <2>2. ~Repeats(EventOf(c)) /\ ~Rejects(EventOf(c))
    BY <1>1, <2>1, AcceptedAfter
  <2>3. Accepted' = Accepted \cup {EventOf(c)}
    BY <1>1, <2>1, <2>2, AcceptedAfter
  <2> QED  BY <2>1, <2>2, <2>3
<1>4. rows[f] = None /\ rows'[f].received_at = at
  BY <1>1, <1>3 DEF Accepts, RowOf, IngestTypeOK
<1>5. /\ o \in Nat /\ o + 1 \in DOMAIN log[p]
      /\ log[p][o + 1] = [event |-> f, received_at |-> at]
  BY <1>1, <1>2, <1>3, AcceptedFrom
<1>6. PICK m \in Nat :
        /\ m + 1 \in DOMAIN log[p]
        /\ log[p][m + 1] = [event |-> e, received_at |-> rows[e].received_at]
        /\ \A q \in 0..(m - 1) : Recorded(p, q)
  BY <1>1 DEF AcceptedAreLogged, AcceptedOff
<1>7. m # o
  BY <1>5, <1>6
<1>8. ~(o < m)
  <2>1. o < m => Recorded(p, o)
    BY <1>5, <1>6
  <2> QED  BY <1>4, <1>5, <2>1 DEF Recorded
<1>9. m + 1 \in 1..((o + 1) - 1)
  BY <1>5, <1>7, <1>8
<1>10. p \in Partitions
  BY EventAssumption
<1>11. log[p][m + 1].received_at < log[p][o + 1].received_at
  BY <1>1, <1>5, <1>9, <1>10 DEF LogInOrder
<1> QED  BY <1>4, <1>5, <1>6, <1>11

(* Sorting the accepted events of a partition by received_at only ever     *)
(* appends to the list, for any number of consumers, rebalances and        *)
(* redeliveries.                                                           *)
THEOREM ReceiptOrder == IngestSpec => AcceptedInReceiptOrder
<1>1. TablesInv /\ [IngestNext]_ingestVars =>
        [ \A e, f \in Events :
            /\ e.partition = f.partition
            /\ e \in Accepted
            /\ f \notin Accepted /\ f \in Accepted'
            => rows[e].received_at < rows'[f].received_at ]_ingestVars
  BY AcceptedLater
<1> QED  BY <1>1, TablesInvariant, PTL DEF IngestSpec, AcceptedInReceiptOrder

-----------------------------------------------------------------------------
(* The refinement: what TelemetryStore sees of the rows.                   *)
StatusView == [e \in Events |-> IF rows[e] = None THEN None ELSE rows[e].status]

(* What the abstract store sees as accepted are the accepted events.       *)
LEMMA StatusOfAccepted ==
    /\ IngestTypeOK  => \A e \in Events : StatusView[e] = "ACCEPTED" <=> e \in Accepted
    /\ IngestTypeOK' => \A e \in Events : StatusView'[e] = "ACCEPTED" <=> e \in Accepted'
<1> QED  BY IngestionNone DEF StatusView, Accepted

(* The row of a first transaction shows as the status of its event.        *)
LEMMA StatusWritten ==
    ASSUME IngestTypeOK, NEW e \in Events, NEW at \in Nat,
           NEW d \in {"ACCEPTED", "REJECTED"}, rows[e] = None,
           rows' = [rows EXCEPT ![e] = RowOf(d, at)]
    PROVE  StatusView[e] = None /\ StatusView' = [StatusView EXCEPT ![e] = d]
<1>1. RowOf(d, at) \in [status : {"ACCEPTED", "REJECTED"}, received_at : Nat]
  BY DEF RowOf
<1>2. rows'[e] # None /\ rows'[e].status = d
  BY <1>1, IngestionNone DEF IngestTypeOK, RowOf
<1>3. \A f \in Events \ {e} : rows'[f] = rows[f]
  BY DEF IngestTypeOK
<1>4. StatusView[e] = None /\ StatusView'[e] = d
  BY <1>2, IngestionNone DEF StatusView
<1>5. \A f \in Events \ {e} : StatusView'[f] = StatusView[f]
  BY <1>3 DEF StatusView
<1>6. /\ StatusView \in [Events -> {StatusView[f] : f \in Events}]
      /\ StatusView' = [f \in Events |-> StatusView'[f]]
  BY DEF StatusView
<1> HIDE DEF StatusView
<1>7. \A f \in Events : StatusView'[f] = IF f = e THEN d ELSE StatusView[f]
  BY <1>4, <1>5
<1> QED  BY <1>4, <1>6, <1>7

(* Rejecting, accepting and repeating are steps of the abstract store.     *)
LEMMA StoreStep ==
    ASSUME TablesInv, TablesInv', [IngestNext]_ingestVars
    PROVE  Store!StoreNext \/ UNCHANGED <<StatusView, current>>
<1>1. IngestInv /\ IngestTypeOK /\ IngestTypeOK'
  BY DEF TablesInv, IngestInv
<1>2. CASE UNCHANGED tables
  BY <1>2 DEF tables, StatusView
<1>3. ASSUME NEW e \in Events, Repeats(e) PROVE UNCHANGED <<StatusView, current>>
  BY <1>3 DEF Repeats, StatusView
<1>4. ASSUME NEW e \in Events, Rejects(e) PROVE Store!StoreNext
  <2>1. PICK at \in Nat : rows' = [rows EXCEPT ![e] = RowOf("REJECTED", at)]
    BY <1>4 DEF Rejects
  <2>2. StatusView[e] = None /\ StatusView' = [StatusView EXCEPT ![e] = "REJECTED"]
    BY <1>1, <1>4, <2>1, StatusWritten DEF Rejects
  <2>3. current' = current
    BY <1>4 DEF Rejects
  <2>4. Store!Reject(e)
    BY <2>2, <2>3 DEF Store!Reject, StatusView
  <2> QED  BY <2>4 DEF Store!StoreNext
<1>5. ASSUME NEW e \in Events, NEW at \in Nat, Accepts(e, at) PROVE Store!StoreNext
  <2>1. StatusView[e] = None /\ StatusView' = [StatusView EXCEPT ![e] = "ACCEPTED"]
    BY <1>1, <1>5, StatusWritten DEF Accepts
  <2>2. ASSUME NEW pt \in Points
        PROVE  LET mine == {f \in Events : StatusView'[f] = "ACCEPTED" /\ Store!Measures(f, pt)}
               IN  IF mine = {} THEN current'[pt] = None
                   ELSE /\ current'[pt] \in mine
                        /\ \A f \in mine \ {current'[pt]} : Store!NewerEvent(current'[pt], f)
    <3> DEFINE mine == {f \in Events : StatusView'[f] = "ACCEPTED" /\ Store!Measures(f, pt)}
    <3>1. mine = Measured(pt)'
      <4>1. mine = {f \in Accepted' : pt \in DOMAIN f.values}
        BY <1>1, StatusOfAccepted DEF Accepted, Store!Measures
      <4> QED  BY <4>1, MeasuredAreAccepted DEF TablesInv
    <3>2. IsNewestOf(current'[pt], mine)
      BY <3>1 DEF TablesInv, CurrentIsNewest, IsNewestOf, Measured, EventsAt
    <3>3. \A f \in mine : f.id \in Nat /\ f.observed_at \in Nat
      BY EventAssumption
    <3>4. \A f, g \in mine : f.id = g.id => f = g
      BY EventAssumption
    <3> HIDE DEF mine
    <3>5. mine # {} => \A f \in mine \ {current'[pt]} : Store!NewerEvent(current'[pt], f)
      BY <3>2, <3>3, <3>4 DEF IsNewestOf, Store!NewerEvent
    <3> QED  BY <3>2, <3>5 DEF IsNewestOf, mine
  <2>3. DOMAIN current' = Points
    BY <1>5 DEF Accepts
  <2>4. Store!Accept(e)
    BY <2>1, <2>2, <2>3 DEF Store!Accept, StatusView
  <2> QED  BY <2>4 DEF Store!StoreNext
<1>6. ASSUME NEW c \in Consumers, Transacts(c)
      PROVE  Store!StoreNext \/ UNCHANGED <<StatusView, current>>
  BY <1>1, <1>3, <1>4, <1>5, <1>6, TransactionKinds, AcceptedFrom DEF TablesInv
<1> QED  BY <1>2, <1>6, StepKinds DEF tables

(* Whatever the broker, the consumers and the database do, the readers of  *)
(* the tables see a store in which each event is disposed of once and the  *)
(* current values follow the newest accepted event.                        *)
THEOREM RefinesStore == IngestSpec => ImplementsStore
<1>1. IngestInit => Store!StoreInit
  BY DEF IngestInit, Store!StoreInit
<1>2. TablesInv /\ TablesInv' /\ [IngestNext]_ingestVars
        => [Store!StoreNext]_<<StatusView, current>>
  BY StoreStep
<1> QED
  BY <1>1, <1>2, TablesInvariant, PTL
     DEF IngestSpec, ImplementsStore, Store!StoreSpec, Store!storeVars, StatusView
=============================================================================
