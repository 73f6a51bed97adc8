------------------------------- MODULE Outbox -------------------------------
(***************************************************************************)
(* The transactional outbox: the outbox_events rows, and the consumers     *)
(* that claim them in batches, run their handlers a chunk at a time and    *)
(* settle each one by an UPDATE guarded on status and lease owner.  A      *)
(* handler may take any time and fail; deliveries carry the attempt number *)
(* of their claim.  Time is what is left of each timer, as in JobKernel.   *)
(***************************************************************************)
EXTENDS Integers, FiniteSets

CONSTANTS
  Events,          \* identities of outbox events, enqueued or not yet
  Unregistered,    \* the Events whose topic has no handler
  Consumers,       \* process incarnations, each a distinct leaseOwner
  NoOwner,         \* lease_owner IS NULL
  LeaseTicks,      \* leaseDurationMs, in ticks
  RetryTicks,      \* retryDelayMs, in ticks
  MaxAttempts,     \* maxAttempts of the consumer
  BatchSize,       \* batchSize
  Concurrency,     \* concurrency
  MaxLive,         \* processes alive at once (1 in production)
  AttemptBound,    \* bound: claims of one event
  EndBound         \* bound: crashes and shutdowns

ASSUME OutboxAssumption ==
  /\ Unregistered \subseteq Events
  /\ IsFiniteSet(Events) /\ IsFiniteSet(Consumers)
  /\ NoOwner \notin Consumers
  /\ {LeaseTicks, RetryTicks, MaxAttempts, BatchSize, Concurrency}
       \subseteq Nat \ {0}
  /\ {MaxLive, AttemptBound, EndBound} \subseteq Nat

VARIABLES
  event,      \* outbox_events rows
  consumer    \* per process: the pass it runs and the deliveries it awaits

vars == <<event, consumer>>

-----------------------------------------------------------------------------
Statuses == {"absent", "pending", "processing", "published", "dead"}
Final == {"published", "dead"}
Event == [status : Statuses, owner : Consumers \cup {NoOwner}, lease : Nat,
          wait : Nat, attempts : Nat]
Claim == [event : Events, attempt : Nat]

(* batch: claimed and not yet delivered; chunk: the deliveries Promise.all  *)
(* waits for; stray: deliveries of a pass that has been rejected.           *)
Consumer == [life : {"new", "up", "stopping", "closed", "dead"},
             batch : SUBSET Claim, chunk : SUBSET Claim, stray : SUBSET Claim]

Resting(life) == [life |-> life, batch |-> {}, chunk |-> {}, stray |-> {}]
Alive(c) == consumer[c].life \in {"up", "stopping"}

Unowned(row, status) == [row EXCEPT !.status = status, !.owner = NoOwner,
                                    !.lease = 0]
Rescheduled(row) == [Unowned(row, "pending") EXCEPT !.wait = RetryTicks]
Leased(row, c) == [row EXCEPT !.status = "processing", !.owner = c,
                              !.lease = LeaseTicks, !.attempts = @ + 1]

(* The events a transaction of services inserts along with its own writes.  *)
Enqueue(e) ==
  /\ event[e].status = "absent"
  /\ event' = [event EXCEPT ![e].status = "pending"]
  /\ UNCHANGED consumer

-----------------------------------------------------------------------------
(* A pass *)

InFlightForgotten(c) == FALSE
InFlight(c) == consumer[c].batch \cup consumer[c].chunk # {}

ExpiredNever == {}
Expired == {e \in Events : /\ event[e].status = "processing"
                           /\ event[e].lease = 0}
Due == {e \in Events : /\ event[e].status = "pending"
                       /\ event[e].wait = 0}

(* One transaction releases expired leases and claims a batch of what is    *)
(* due, the released events included.  The order of the batch is left open. *)
RunPass(c) ==
  /\ consumer[c].life = "up"
  /\ ~InFlight(c)
  /\ \E S \in SUBSET (Due \cup Expired) :
       /\ S # {}
       /\ \/ Cardinality(S) = BatchSize
          \/ Cardinality(S) < BatchSize /\ S = Due \cup Expired
       /\ \A e \in S : event[e].attempts < AttemptBound
       /\ event' = [e \in Events |->
            IF e \in S THEN Leased(event[e], c)
            ELSE IF e \in Expired THEN Unowned(event[e], "pending")
            ELSE event[e]]
       /\ consumer' = [consumer EXCEPT ![c].batch =
            {[event |-> e, attempt |-> event[e].attempts + 1] : e \in S}]

(* The next chunk of the batch is handed to its handlers, at whatever time  *)
(* the previous chunk ended: the lease is not looked at.                    *)
DeliverChunk(c) ==
  /\ Alive(c)
  /\ consumer[c].chunk = {}
  /\ \E K \in SUBSET consumer[c].batch :
       /\ K # {}
       /\ \/ Cardinality(K) = Concurrency
          \/ Cardinality(K) < Concurrency /\ K = consumer[c].batch
       /\ consumer' = [consumer EXCEPT ![c].batch = @ \ K, ![c].chunk = K]
  /\ UNCHANGED event

-----------------------------------------------------------------------------
(* A delivery *)

(* The guard of markPublished, reschedule and markDead. *)
HoldsAnyState(c, e) == TRUE
Holds(c, e) == event[e].status = "processing" /\ event[e].owner = c

ExhaustedLate(d) == d.attempt > MaxAttempts
Exhausted(d) == d.attempt >= MaxAttempts

(* What the delivery writes when it holds the event. *)
Outcome(d, succeeded) ==
  IF d.event \in Unregistered \/ (~succeeded /\ Exhausted(d))
    THEN Unowned(event[d.event], "dead")
  ELSE IF succeeded THEN Unowned(event[d.event], "published")
  ELSE Rescheduled(event[d.event])

(* A delivery that lost the event throws.  Promise.all then rejects, and    *)
(* the pass is over: the rest of the batch is forgotten and the rest of the *)
(* chunk goes on with nobody waiting for it.                                *)
Reject(c, d) ==
  consumer' = [consumer EXCEPT ![c] =
    IF d \in consumer[c].chunk
    THEN [life |-> consumer[c].life, batch |-> {}, chunk |-> {},
          stray |-> consumer[c].stray \cup (consumer[c].chunk \ {d})]
    ELSE [consumer[c] EXCEPT !.stray = consumer[c].stray \ {d}]]

(* The handler resolves or fails, or there is none for the topic; the       *)
(* settlement follows in the same turn.                                     *)
Answer(c) ==
  /\ Alive(c)
  /\ \E d \in consumer[c].chunk \cup consumer[c].stray, ok \in BOOLEAN :
       \/ /\ Holds(c, d.event)
          /\ event' = [event EXCEPT ![d.event] = Outcome(d, ok)]
          /\ consumer' = [consumer EXCEPT ![c].chunk = @ \ {d},
                                          ![c].stray = @ \ {d}]
       \/ /\ ~Holds(c, d.event)
          /\ Reject(c, d)
          /\ UNCHANGED event

-----------------------------------------------------------------------------
(* Processes and time *)

Start(c) ==
  /\ consumer[c].life = "new"
  /\ Cardinality({b \in Consumers : Alive(b)}) < MaxLive
  /\ consumer' = [consumer EXCEPT ![c].life = "up"]
  /\ UNCHANGED event

Ended == {c \in Consumers : consumer[c].life \in {"stopping", "closed", "dead"}}

Stop(c) ==
  /\ consumer[c].life = "up"
  /\ Cardinality(Ended) < EndBound
  /\ consumer' = [consumer EXCEPT ![c].life = "stopping"]
  /\ UNCHANGED event

CloseAtOnce(c) ==
  /\ consumer[c].life = "stopping"
  /\ consumer' = [consumer EXCEPT ![c] = Resting("closed")]
  /\ UNCHANGED event

(* Shutdown awaits the pass in flight, and nothing else, before the         *)
(* database is closed.                                                      *)
Close(c) ==
  /\ consumer[c].life = "stopping"
  /\ ~InFlight(c)
  /\ consumer' = [consumer EXCEPT ![c] = Resting("closed")]
  /\ UNCHANGED event

Crash(c) ==
  /\ consumer[c].life = "up"
  /\ Cardinality(Ended) < EndBound
  /\ consumer' = [consumer EXCEPT ![c] = Resting("dead")]
  /\ UNCHANGED event

Less(n) == IF n = 0 THEN 0 ELSE n - 1

Tick ==
  /\ \E e \in Events : event[e].lease + event[e].wait > 0
  /\ event' = [e \in Events |-> [event[e] EXCEPT !.lease = Less(@),
                                                 !.wait = Less(@)]]
  /\ UNCHANGED consumer

-----------------------------------------------------------------------------
Init ==
  /\ event = [e \in Events |->
       [status |-> "absent", owner |-> NoOwner, lease |-> 0, wait |-> 0,
        attempts |-> 0]]
  /\ consumer = [c \in Consumers |-> Resting("new")]

Process(c) == \/ Start(c) \/ RunPass(c) \/ DeliverChunk(c) \/ Answer(c)
              \/ Stop(c) \/ Close(c) \/ Crash(c)

Next == Tick \/ (\E e \in Events : Enqueue(e)) \/ \E c \in Consumers : Process(c)

Spec == Init /\ [][Next]_vars

(* The poll timer fires, handlers answer, the platform restarts a process   *)
(* that ended, and the clock goes on.                                       *)
Fairness ==
  /\ WF_vars(Tick)
  /\ \A c \in Consumers : /\ WF_vars(Start(c))
                          /\ WF_vars(RunPass(c))
                          /\ WF_vars(DeliverChunk(c))
                          /\ WF_vars(Answer(c))
                          /\ WF_vars(Close(c))

FairSpec == Spec /\ Fairness

-----------------------------------------------------------------------------
(* Properties *)

(* Rows and processes have their types; a delivery's attempt is one its     *)
(* event has reached.                                                       *)
TypeOK ==
  /\ event \in [Events -> Event]
  /\ consumer \in [Consumers -> Consumer]
  /\ \A c \in Consumers :
       \A d \in consumer[c].batch \cup consumer[c].chunk \cup consumer[c].stray :
         d.attempt <= event[d.event].attempts

(* Whatever late deliveries of lost claims still answer, a published or     *)
(* dead event stays as it is.                                               *)
FinalIsFinal ==
  [][\A e \in Events :
       event[e].status \in Final => event'[e] = event[e]]_vars

(* An event with a handler dies only after its attempts are used up, though *)
(* the attempt compared is the one of a claim that may have been lost.      *)
DeadMeansExhausted ==
  \A e \in Events \ Unregistered :
    event[e].status = "dead" => event[e].attempts >= MaxAttempts

(* With one process at a time, an event is in at most one delivery, and     *)
(* that delivery belongs to the claim the row records: the single flight of *)
(* runOnce, not the lease, keeps a slow handler from being run twice.       *)
OneDeliveryOfTheClaim ==
  \A c \in Consumers :
    \A d \in consumer[c].batch \cup consumer[c].chunk \cup consumer[c].stray :
      /\ Holds(c, d.event)
      /\ d.attempt = event[d.event].attempts

(* A process that shut down in order left no event claimed, however many    *)
(* chunks of its batch were still to be delivered when it was told to stop. *)
ShutdownFinishesClaims ==
  \A c \in Consumers : consumer[c].life = "closed" =>
    \A e \in Events : ~Holds(c, e)

(* Every event is published or dead in the end, whatever handlers fail and  *)
(* processes crash between a claim and its settlement.                      *)
EveryEventSettles ==
  \A e \in Events : event[e].status = "pending" ~> event[e].status \in Final

(* Five attempts are the policy, and claimBatch looks at none of them: with *)
(* one process at a time each claim beyond maxAttempts must be the answer   *)
(* to a process that ended.                                                 *)
LossesExceedPolicy ==
  \A e \in Events : event[e].attempts <= MaxAttempts + Cardinality(Ended)
=============================================================================
