----------------------------- MODULE BatchFeeder ------------------------------
(***************************************************************************)
(* AsyncBatchFeeder (sampling/feeder.py): a background thread fills a      *)
(* bounded queue, consumers take from it, and the owner starts and stops   *)
(* the thread.  A producer call may fail, and may outlast the five seconds *)
(* that stop waits for the thread.                                         *)
(***************************************************************************)
EXTENDS Integers, Sequences, FiniteSets

CONSTANTS Consumers,    \* threads that call get()
          MaxPrefetch,  \* queue size
          MaxBatches,   \* bound on batches the producer makes
          MaxStarts     \* bound on start() calls

ASSUME MaxPrefetchAssumption == MaxPrefetch \in Nat \ {0}

VARIABLES queue,     \* batches by number, Stop and Failure
          stopped,   \* the stop event
          producer,  \* pc of the thread, and the item it is about to put
          made,      \* batches produced so far
          taken,     \* batches consumers have taken so far
          taker,     \* what each consumer is doing, and what it got last
          owner,     \* where stop() is
          starts     \* start() calls so far

feedVars == <<queue, stopped, producer, made, taken, taker, owner, starts>>

Stop == -1
Failure == -2
Nothing == 0

FeedInit ==
  /\ queue = <<>> /\ stopped = FALSE /\ made = 0 /\ taken = 0 /\ starts = 0
  /\ producer = [pc |-> "dead", item |-> Nothing]
  /\ taker = [c \in Consumers |-> [pc |-> "idle", got |-> Nothing]]
  /\ owner = "idle"

IsAlive == producer.pc # "dead"

\* start: a living thread is left alone, even one that has been told to stop
Start ==
  /\ owner = "idle" /\ starts < MaxStarts
  /\ starts' = starts + 1
  /\ IF IsAlive THEN UNCHANGED <<stopped, producer>>
     ELSE stopped' = FALSE /\ producer' = [pc |-> "run", item |-> Nothing]
  /\ UNCHANGED <<queue, made, taken, taker, owner>>

\* stop, in three steps: the event, the wake-up if it fits, the bounded join
SignalStop ==
  /\ owner = "idle" /\ starts > 0
  /\ stopped' = TRUE /\ owner' = "wake"
  /\ UNCHANGED <<queue, producer, made, taken, taker, starts>>

BadWakeConsumers ==
  /\ owner = "wake"
  /\ queue' = queue
  /\ owner' = "join"
  /\ UNCHANGED <<stopped, producer, made, taken, taker, starts>>

WakeConsumers ==
  /\ owner = "wake"
  /\ queue' = IF Len(queue) < MaxPrefetch THEN Append(queue, Stop) ELSE queue
  /\ owner' = "join"
  /\ UNCHANGED <<stopped, producer, made, taken, taker, starts>>

\* the join ends with the thread, or times out while the producer's call runs
Join ==
  /\ owner = "join" /\ producer.pc \in {"dead", "call"}
  /\ owner' = "idle"
  /\ UNCHANGED <<queue, stopped, producer, made, taken, taker, starts>>

\* _run: the loop test, and the producer's call
LoopTest ==
  /\ producer.pc = "run"
  /\ producer' = [pc |-> IF stopped THEN "dead" ELSE "call", item |-> Nothing]
  /\ UNCHANGED <<queue, stopped, made, taken, taker, owner, starts>>

ProducerReturns ==
  /\ producer.pc = "call"
  /\ \/ made < MaxBatches /\ made' = made + 1 /\ producer' = [pc |-> "test", item |-> made + 1]
     \/ made' = made /\ producer' = [pc |-> "test", item |-> Failure]
  /\ UNCHANGED <<queue, stopped, taken, taker, owner, starts>>

Handed(item) == [pc |-> IF item = Failure THEN "failed" ELSE "run", item |-> Nothing]

\* _put_until_stopped tests the event, and only then tries to put: an item
\* that passed the test may enter the queue after stop
TestStopped ==
  /\ producer.pc = "test"
  /\ producer' = IF stopped THEN Handed(producer.item) ELSE [producer EXCEPT !.pc = "put"]
  /\ UNCHANGED <<queue, stopped, made, taken, taker, owner, starts>>

BadPut ==
  /\ producer.pc = "put"
  /\ queue' = IF Len(queue) < MaxPrefetch THEN Append(queue, producer.item) ELSE queue
  /\ producer' = Handed(producer.item)
  /\ UNCHANGED <<stopped, made, taken, taker, owner, starts>>

Put ==
  /\ producer.pc = "put"
  /\ IF Len(queue) < MaxPrefetch
     THEN queue' = Append(queue, producer.item) /\ producer' = Handed(producer.item)
     ELSE queue' = queue /\ producer' = [producer EXCEPT !.pc = "test"]
  /\ UNCHANGED <<stopped, made, taken, taker, owner, starts>>

\* after a failure the thread sets the event itself and returns
Fail ==
  /\ producer.pc = "failed"
  /\ stopped' = TRUE /\ producer' = [pc |-> "dead", item |-> Nothing]
  /\ UNCHANGED <<queue, made, taken, taker, owner, starts>>

\* get: wait for an item; Stop and producer failures are raised
Get(c) ==
  /\ taker[c].pc = "idle" /\ starts > 0
  /\ taker' = [taker EXCEPT ![c].pc = "waiting"]
  /\ UNCHANGED <<queue, stopped, producer, made, taken, owner, starts>>

Take(c) ==
  /\ taker[c].pc = "waiting" /\ queue # <<>>
  /\ taker' = [taker EXCEPT ![c] = [pc |-> "idle", got |-> Head(queue)]]
  /\ queue' = Tail(queue)
  /\ taken' = taken + IF Head(queue) > 0 THEN 1 ELSE 0
  /\ UNCHANGED <<stopped, producer, made, owner, starts>>

FeedStep == \/ Start \/ SignalStop \/ WakeConsumers \/ Join
            \/ LoopTest \/ ProducerReturns \/ TestStopped \/ Put \/ Fail
            \/ \E c \in Consumers : Get(c) \/ Take(c)

FeedSpec == FeedInit /\ [][FeedStep]_feedVars

\* threads that can run do run, but a producer's call may never return and
\* nobody is obliged to call start, stop or get
FeedFairness ==
  /\ WF_feedVars(WakeConsumers) /\ WF_feedVars(Join)
  /\ WF_feedVars(LoopTest) /\ WF_feedVars(TestStopped) /\ WF_feedVars(Put) /\ WF_feedVars(Fail)
  /\ \A c \in Consumers : WF_feedVars(Take(c))

(* stop() never leaves everybody waiting: when all consumers wait as the    *)
(* event is set, one of them gets a batch or an error, also when the        *)
(* wake-up did not fit the queue and when the producer's call never returns.*)
(* There is one wake-up for all of them, so that it is not any given one.   *)
StopReleases ==
  (owner = "wake" /\ \A c \in Consumers : taker[c].pc = "waiting") ~> \E c \in Consumers : taker[c].pc = "idle"

(* What the docstring of stop says: "Signal the producer to stop and        *)
(* unblock waiting consumers."                                              *)
WaitersReleased ==
  \A c \in Consumers : (owner = "wake" /\ taker[c].pc = "waiting") ~> taker[c].pc = "idle"

\* what is on its way: the queue, then the item in the producer's hands
Pending == Append(queue, producer.item)
Underway == {i \in DOMAIN Pending : Pending[i] > 0}

(* Batches reach consumers in the order they were made, none twice, and at  *)
(* most one is lost each time the feeder is stopped: the one in the hands   *)
(* of a producer that meets a full queue.                                   *)
FeedOrdered ==
  /\ \A i, j \in Underway : i < j => Pending[i] < Pending[j]
  /\ \A c \in Consumers, i \in Underway : taker[c].got < Pending[i]
  /\ made - taken - Cardinality(Underway) \in 0 .. starts
=============================================================================
