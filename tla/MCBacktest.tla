------------------------------ MODULE MCBacktest ------------------------------
(***************************************************************************)
(* A small instance of Backtest: one AHU and samples of every kind, which  *)
(* are received in any order.  The kinds that decide about an issue come   *)
(* at each of the times 1..MaxTime, the other untrusted ones, and a reading*)
(* as old as it may be, in the course of a fault.                          *)
(***************************************************************************)
EXTENDS Backtest

CONSTANTS ahuA, pA, MaxTime

Good(v, at) == [value |-> v, observed_at |-> at, quality |-> "GOOD"]

(* The readings of the three points in a sample observed at time at.       *)
Readings(kind, at) ==
    CASE kind = "fault"   -> [RUN |-> Good("ON", at),  SAT |-> Good(20, at), SAT_SP |-> Good(16, at)]
      [] kind = "equal"   -> [RUN |-> Good("ON", at),  SAT |-> Good(13, at), SAT_SP |-> Good(16, at)]
      [] kind = "off"     -> [RUN |-> Good("OFF", at), SAT |-> Good(20, at), SAT_SP |-> Good(16, at)]
      [] kind = "missing" -> [RUN |-> Good("ON", at),  SAT |-> Good(20, at), SAT_SP |-> None]
      [] kind = "aged"    -> [RUN |-> Good("ON", at),  SAT |-> Good(20, at), SAT_SP |-> Good(16, at - 2)]
      [] kind = "stale"   -> [RUN |-> Good("ON", at),  SAT |-> Good(20, at), SAT_SP |-> Good(16, at - 3)]
      [] kind = "future"  -> [RUN |-> Good("ON", at),  SAT |-> Good(20, at + 1), SAT_SP |-> Good(16, at)]
      [] kind = "badqual" -> [RUN |-> Good("ON", at),  SAT |-> [Good(20, at) EXCEPT !.quality = "INVALID"], SAT_SP |-> Good(16, at)]
      [] kind = "text"    -> [RUN |-> Good("ON", at),  SAT |-> Good(NonNumeric, at), SAT_SP |-> Good(16, at)]

Always  == {"fault", "equal", "off", "missing"}
InCourse == {"aged", "stale", "future", "badqual", "text"}

SamplesOf(kinds, times) ==
    {[observed_at |-> at, readings |-> Readings(k, at), property |-> pA] :
        k \in kinds, at \in times}

MCSample == SamplesOf(Always, 1..MaxTime) \cup SamplesOf(InCourse, 3..(MaxTime - 1))

MCThreshold == [t \in Targets |-> [p \in Properties |-> 3]]
MCDuration  == [t \in Targets |-> [p \in Properties |-> 2]]
MCFreshness == [t \in Targets |-> 2]
=============================================================================
