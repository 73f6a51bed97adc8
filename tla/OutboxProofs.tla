---------------------------- MODULE OutboxProofs ----------------------------
(***************************************************************************)
(* What the outbox keeps for any number of events and processes, and what  *)
(* it keeps in addition while one process lives at a time.                 *)
(***************************************************************************)
EXTENDS Outbox, FiniteSetTheorems, TLAPS

Deliveries(c) == consumer[c].batch \cup consumer[c].chunk \cup consumer[c].stray

-----------------------------------------------------------------------------
(* Types: one lemma for each shape that an action gives the two variables. *)

Rows == event \in [Events -> Event]
Records == consumer \in [Consumers -> Consumer]
AttemptsReached ==
  \A c \in Consumers : \A d \in Deliveries(c) :
    d.attempt <= event[d.event].attempts

LEMMA Shape == TypeOK <=> Rows /\ Records /\ AttemptsReached
BY DEF TypeOK, Rows, Records, AttemptsReached, Deliveries

(* No step takes attempts back, and the deliveries of a process are new     *)
(* only when it has just claimed them.                                      *)
AttemptsGrow == \A e \in Events : event'[e].attempts >= event[e].attempts
FewerDeliveries == \A c \in Consumers : Deliveries(c)' \subseteq Deliveries(c)

LEMMA StillReached ==
  ASSUME TypeOK, Rows', Records', AttemptsGrow, FewerDeliveries
  PROVE  TypeOK'
<1> SUFFICES ASSUME NEW c \in Consumers, NEW d \in Deliveries(c)'
             PROVE  d.attempt <= event'[d.event].attempts
  BY Shape DEF TypeOK, Rows, Records, Deliveries
<1>1. d \in Deliveries(c)
  BY DEF FewerDeliveries
<1>2. d \in Claim
  BY <1>1 DEF TypeOK, Deliveries, Consumer
<1>3. d.attempt <= event[d.event].attempts
  BY <1>1 DEF TypeOK, Deliveries
<1>4. event[d.event].attempts \in Nat /\ event'[d.event].attempts \in Nat
  BY <1>2 DEF Claim, TypeOK, Rows, Event
<1>5. event'[d.event].attempts >= event[d.event].attempts
  BY <1>2 DEF Claim, AttemptsGrow
<1> QED
  BY <1>2, <1>3, <1>4, <1>5 DEF Claim

LEMMA RowShapes ==
  ASSUME NEW row \in Event, OutboxAssumption
  PROVE  /\ \A s \in Statuses : Unowned(row, s) \in Event
         /\ Rescheduled(row) \in Event
         /\ \A c \in Consumers :
              /\ Leased(row, c) \in Event
              /\ Leased(row, c).attempts = row.attempts + 1
         /\ \A s \in Statuses : Unowned(row, s).attempts = row.attempts
         /\ Rescheduled(row).attempts = row.attempts
<1>1. LeaseTicks \in Nat /\ RetryTicks \in Nat
  BY DEF OutboxAssumption
<1>2. \A s \in Statuses :
        Unowned(row, s) \in Event /\ Unowned(row, s).attempts = row.attempts
  BY DEF Event, Unowned
<1>3. Unowned(row, "pending") \in Event
      /\ Unowned(row, "pending").attempts = row.attempts
  BY <1>2 DEF Statuses
<1>4. Rescheduled(row) \in Event /\ Rescheduled(row).attempts = row.attempts
  BY <1>1, <1>3 DEF Event, Rescheduled
<1>5. ASSUME NEW c \in Consumers
      PROVE  /\ Leased(row, c) \in Event
             /\ Leased(row, c).attempts = row.attempts + 1
  <2>1. row.attempts \in Nat /\ row.wait \in Nat
    BY DEF Event
  <2>2. row.attempts + 1 \in Nat
    BY <2>1
  <2> DEFINE held == [row EXCEPT !.status = "processing", !.owner = c,
                                 !.lease = LeaseTicks]
  <2>3. held \in Event /\ held.attempts = row.attempts
    BY <1>1 DEF Event, Statuses
  <2>4. Leased(row, c) = [held EXCEPT !.attempts = row.attempts + 1]
    BY DEF Leased, Event
  <2> HIDE DEF held
  <2>5. QED
    BY <2>2, <2>3, <2>4 DEF Event
<1> QED
  BY <1>2, <1>4, <1>5

LEMMA TypeInit == OutboxAssumption /\ Init => TypeOK
BY DEF Init, TypeOK, Event, Statuses, Consumer, Resting

LEMMA ConsumerSteps ==
  ASSUME TypeOK, OutboxAssumption, NEW c \in Consumers,
         \/ Start(c) \/ DeliverChunk(c) \/ Stop(c) \/ Close(c) \/ Crash(c)
  PROVE  TypeOK'
<1>1. Rows' /\ AttemptsGrow
  BY DEF Rows, AttemptsGrow, TypeOK, Event, Start, DeliverChunk, Stop, Close, Crash
<1>2. PICK r \in Consumer :
        /\ consumer' = [consumer EXCEPT ![c] = r]
        /\ r.batch \cup r.chunk \cup r.stray \subseteq Deliveries(c)
  <2>1. CASE DeliverChunk(c)
    <3>1. PICK K \in SUBSET consumer[c].batch :
            consumer' = [consumer EXCEPT ![c].batch = @ \ K, ![c].chunk = K]
      BY <2>1 DEF DeliverChunk
    <3>2. consumer[c] \in Consumer
      BY DEF TypeOK
    <3>3. [consumer[c] EXCEPT !.batch = @ \ K, !.chunk = K] \in Consumer
      BY <3>2 DEF Consumer
    <3> QED
      BY <3>1, <3>2, <3>3 DEF Deliveries, Consumer, TypeOK
  <2>2. CASE Start(c) \/ Stop(c)
    <3>1. PICK life \in {"up", "stopping"} :
            consumer' = [consumer EXCEPT ![c].life = life]
      BY <2>2 DEF Start, Stop
    <3>2. consumer[c] \in Consumer
      BY DEF TypeOK
    <3>3. [consumer[c] EXCEPT !.life = life] \in Consumer
      BY <3>2 DEF Consumer
    <3> QED
      BY <3>1, <3>2, <3>3 DEF Deliveries, Consumer, TypeOK
  <2>3. CASE Close(c) \/ Crash(c)
    BY <2>3 DEF Close, Crash, Resting, Consumer, Deliveries
  <2> QED
    BY <2>1, <2>2, <2>3
<1>3. Records' /\ FewerDeliveries
  BY <1>2 DEF Records, FewerDeliveries, Deliveries, TypeOK
<1> QED
  BY <1>1, <1>2, <1>3, StillReached

LEMMA ClockSteps ==
  ASSUME TypeOK, OutboxAssumption, Tick \/ (\E e \in Events : Enqueue(e))
  PROVE  TypeOK'
<1> DEFINE Aged(e) == [event[e] EXCEPT !.lease = Less(@), !.wait = Less(@)]
<1>1. ASSUME Tick PROVE Rows' /\ AttemptsGrow
  <2>1. \A n \in Nat : Less(n) \in Nat
    BY DEF Less
  <2>2. \A e \in Events : /\ Aged(e) \in Event
                          /\ Aged(e).attempts = event[e].attempts
                          /\ event[e].attempts \in Nat
    BY <2>1 DEF TypeOK, Event
  <2>3. event' = [e \in Events |-> Aged(e)]
    BY <1>1 DEF Tick
  <2> HIDE DEF Aged
  <2>4. QED
    BY <2>2, <2>3 DEF Rows, AttemptsGrow
<1>3. ASSUME \E e \in Events : Enqueue(e) PROVE Rows' /\ AttemptsGrow
  BY <1>3 DEF Rows, AttemptsGrow, TypeOK, Event, Statuses, Enqueue
<1>4. Rows' /\ AttemptsGrow
  BY <1>1, <1>3
<1>2. Records' /\ FewerDeliveries
  BY DEF Records, FewerDeliveries, Deliveries, TypeOK, Tick, Enqueue
<1> QED
  BY <1>4, <1>2, StillReached

LEMMA AnswerStep ==
  ASSUME TypeOK, OutboxAssumption, NEW c \in Consumers, Answer(c)
  PROVE  TypeOK'
<1>1. PICK d \in consumer[c].chunk \cup consumer[c].stray, ok \in BOOLEAN :
        \/ /\ Holds(c, d.event)
           /\ event' = [event EXCEPT ![d.event] = Outcome(d, ok)]
           /\ consumer' = [consumer EXCEPT ![c].chunk = @ \ {d},
                                           ![c].stray = @ \ {d}]
        \/ /\ ~Holds(c, d.event)
           /\ Reject(c, d)
           /\ UNCHANGED event
  BY DEF Answer
<1>2. d \in Claim
  BY DEF TypeOK, Consumer
<1>3. Outcome(d, ok) \in Event /\ Outcome(d, ok).attempts = event[d.event].attempts
  BY <1>2, RowShapes DEF Outcome, Claim, TypeOK, Statuses
<1>4. Rows' /\ AttemptsGrow
  BY <1>1, <1>2, <1>3 DEF Rows, AttemptsGrow, TypeOK, Event, Claim
<1>5. Records'
  BY <1>1 DEF Records, TypeOK, Consumer, Reject
<1>6. FewerDeliveries
  BY <1>1 DEF FewerDeliveries, Deliveries, TypeOK, Consumer, Reject
<1> QED
  BY <1>4, <1>5, <1>6, StillReached

LEMMA RunPassStep ==
  ASSUME TypeOK, OutboxAssumption, NEW c \in Consumers, RunPass(c)
  PROVE  TypeOK'
<1>1. PICK S \in SUBSET (Due \cup Expired) :
        /\ \A e \in S : event[e].attempts < AttemptBound
        /\ event' = [e \in Events |->
             IF e \in S THEN Leased(event[e], c)
             ELSE IF e \in Expired THEN Unowned(event[e], "pending")
             ELSE event[e]]
        /\ consumer' = [consumer EXCEPT ![c].batch =
             {[event |-> e, attempt |-> event[e].attempts + 1] : e \in S}]
  BY DEF RunPass
<1>2. S \subseteq Events
  BY DEF Due, Expired
<1>3. \A e \in Events : event'[e] \in Event /\ event'[e].attempts >= event[e].attempts
  <2> SUFFICES ASSUME NEW e \in Events
               PROVE  event'[e] \in Event /\ event'[e].attempts >= event[e].attempts
    OBVIOUS
  <2>1. event[e] \in Event
    BY DEF TypeOK
  <2>2. event[e].attempts \in Nat
    BY <2>1 DEF Event
  <2>3. CASE e \in S
    <3>1. event'[e] = Leased(event[e], c)
      BY <1>1, <2>3
    <3> QED
      BY <2>1, <2>2, <3>1, RowShapes
  <2>4. CASE e \notin S
    BY <1>1, <2>1, <2>2, <2>4, RowShapes DEF Statuses
  <2> QED
    BY <2>3, <2>4
<1>4. Rows' /\ AttemptsGrow
  BY <1>1, <1>3 DEF Rows, AttemptsGrow
<1>5. consumer'[c].batch = {[event |-> e, attempt |-> event[e].attempts + 1] : e \in S}
  BY <1>1 DEF TypeOK, Consumer
<1>6. \A e \in S : event[e].attempts \in Nat
                   /\ event'[e].attempts = event[e].attempts + 1
  BY <1>1, <1>2 DEF TypeOK, Event, Leased
<1>7. \A d \in consumer'[c].batch :
        d \in Claim /\ d.attempt <= event'[d.event].attempts
  BY <1>2, <1>5, <1>6 DEF Claim
<1>8. Records'
  BY <1>1, <1>5, <1>7 DEF Records, TypeOK, Consumer
<1>9. AttemptsReached'
  <2> SUFFICES ASSUME NEW b \in Consumers, NEW d \in Deliveries(b)'
               PROVE  d.attempt <= event'[d.event].attempts
    BY DEF AttemptsReached
  <2>1. CASE d \in Deliveries(b)
    <3>1. d \in Claim /\ d.attempt <= event[d.event].attempts
      BY <2>1 DEF TypeOK, Deliveries, Consumer
    <3> QED
      BY <3>1, <1>3 DEF Claim, TypeOK, Event
  <2>2. CASE d \notin Deliveries(b)
    <3>1. b = c /\ d \in consumer'[c].batch
      BY <1>1, <2>2 DEF Deliveries, TypeOK, Consumer
    <3> QED
      BY <3>1, <1>7
  <2> QED
    BY <2>1, <2>2
<1> QED
  BY <1>4, <1>8, <1>9, Shape DEF TypeOK, Rows, Records, AttemptsReached, Deliveries

LEMMA TypeStep == OutboxAssumption /\ TypeOK /\ [Next]_vars => TypeOK'
<1> SUFFICES ASSUME OutboxAssumption, TypeOK, [Next]_vars PROVE TypeOK'
  OBVIOUS
<1>1. CASE UNCHANGED vars
  BY <1>1 DEF vars, TypeOK
<1>2. CASE Tick \/ (\E e \in Events : Enqueue(e))
  BY <1>2, ClockSteps
<1>3. ASSUME NEW c \in Consumers, Process(c) PROVE TypeOK'
  BY <1>3, ConsumerSteps, AnswerStep, RunPassStep DEF Process
<1> QED
  BY <1>1, <1>2, <1>3 DEF Next

\* Rows, processes and deliveries keep their types, and no delivery carries an
\* attempt its event has not reached.
THEOREM TypeCorrect == Spec => []TypeOK
BY TypeInit, TypeStep, OutboxAssumption, PTL DEF Spec

-----------------------------------------------------------------------------
(* What settles an event, for any number of processes: a row that is held   *)
(* is not waiting, and a settled one has no timer left to run down.         *)

SettledRow(row) ==
  /\ row.status \in {"processing"} \cup Final => row.wait = 0
  /\ row.status \in Final => row.lease = 0
Exhaustion ==
  /\ TypeOK
  /\ \A e \in Events : SettledRow(event[e])
  /\ DeadMeansExhausted

(* What one step does to the row of one event. *)
RowMove(e) ==
  \/ event'[e] = event[e]
  \/ /\ event[e].status = "absent"
     /\ event'[e] = [event[e] EXCEPT !.status = "pending"]
  \/ event'[e] = [event[e] EXCEPT !.lease = Less(@), !.wait = Less(@)]
  \/ \E c \in Consumers : e \in Due \cup Expired /\ event'[e] = Leased(event[e], c)
  \/ e \in Expired /\ event'[e] = Unowned(event[e], "pending")
  \/ \E c \in Consumers, d \in Claim, ok \in BOOLEAN :
       /\ d \in Deliveries(c) /\ d.event = e /\ Holds(c, e)
       /\ event'[e] = Outcome(d, ok)

LEMMA RowsMove ==
  ASSUME TypeOK, [Next]_vars
  PROVE  \A e \in Events : RowMove(e)
<1> SUFFICES ASSUME NEW e \in Events PROVE RowMove(e)
  OBVIOUS
<1>1. CASE UNCHANGED event
  BY <1>1 DEF RowMove
<1>2. CASE Tick
  BY <1>2 DEF Tick, RowMove
<1>3. CASE \E x \in Events : Enqueue(x)
  <2>1. PICK x \in Events : Enqueue(x)
    BY <1>3
  <2> QED
    BY <2>1 DEF Enqueue, RowMove, TypeOK
<1>4. ASSUME NEW c \in Consumers, RunPass(c) PROVE RowMove(e)
  <2>1. PICK S \in SUBSET (Due \cup Expired) :
          event' = [x \in Events |->
            IF x \in S THEN Leased(event[x], c)
            ELSE IF x \in Expired THEN Unowned(event[x], "pending")
            ELSE event[x]]
    BY <1>4 DEF RunPass
  <2>2. CASE e \in S
    BY <2>1, <2>2 DEF RowMove
  <2>3. CASE e \notin S
    BY <2>1, <2>3 DEF RowMove
  <2> QED
    BY <2>2, <2>3
<1>5. ASSUME NEW c \in Consumers, Answer(c) PROVE RowMove(e)
  <2>1. PICK d \in consumer[c].chunk \cup consumer[c].stray, ok \in BOOLEAN :
          \/ /\ Holds(c, d.event)
             /\ event' = [event EXCEPT ![d.event] = Outcome(d, ok)]
          \/ UNCHANGED event
    BY <1>5 DEF Answer
  <2>2. d \in Claim /\ d \in Deliveries(c)
    BY DEF TypeOK, Consumer, Deliveries
  <2>3. CASE UNCHANGED event
    BY <2>3 DEF RowMove
  <2>4. CASE /\ Holds(c, d.event)
             /\ event' = [event EXCEPT ![d.event] = Outcome(d, ok)]
    <3>1. CASE e = d.event
      <4>1. event'[e] = Outcome(d, ok)
        BY <2>4, <3>1 DEF TypeOK
      <4> QED
        BY <2>2, <2>4, <3>1, <4>1 DEF RowMove
    <3>2. CASE e # d.event
      BY <2>4, <3>2 DEF TypeOK, RowMove
    <3> QED
      BY <3>1, <3>2
  <2> QED
    BY <2>1, <2>3, <2>4
<1>6. \/ UNCHANGED event \/ Tick \/ (\E x \in Events : Enqueue(x))
      \/ \E c \in Consumers : RunPass(c) \/ Answer(c)
  BY DEF Next, Process, vars, Start, DeliverChunk, Stop, Close, Crash
<1> QED
  BY <1>1, <1>2, <1>3, <1>4, <1>5, <1>6

LEMMA OutcomeFields ==
  ASSUME TypeOK, NEW d \in Claim, NEW ok \in BOOLEAN
  PROVE  /\ Outcome(d, ok).attempts = event[d.event].attempts
         /\ Outcome(d, ok).status \in Final =>
              /\ Outcome(d, ok).wait = event[d.event].wait
              /\ Outcome(d, ok).lease = 0
         /\ Outcome(d, ok).status \in {"pending"} \cup Final
         /\ Outcome(d, ok).status = "dead"
              => d.event \in Unregistered \/ Exhausted(d)
<1>1. event[d.event] \in Event
  BY DEF TypeOK, Claim
<1>2. \A s \in Statuses :
        /\ Unowned(event[d.event], s).status = s
        /\ Unowned(event[d.event], s).attempts = event[d.event].attempts
        /\ Unowned(event[d.event], s).wait = event[d.event].wait
        /\ Unowned(event[d.event], s).lease = 0
  BY <1>1 DEF Unowned, Event
<1>3. /\ Rescheduled(event[d.event]).status = "pending"
      /\ Rescheduled(event[d.event]).attempts = event[d.event].attempts
  BY <1>1 DEF Rescheduled, Unowned, Event
<1>4. {"dead", "published"} \subseteq Statuses
  BY DEF Statuses
<1> QED
  BY <1>2, <1>3, <1>4 DEF Outcome, Final

LEMMA ExhaustionInit == OutboxAssumption /\ Init => Exhaustion
<1> SUFFICES ASSUME OutboxAssumption, Init PROVE Exhaustion
  OBVIOUS
<1>1. \A e \in Events : event[e].status = "absent"
  BY DEF Init
<1> QED
  BY <1>1, TypeInit DEF Exhaustion, SettledRow, Final, DeadMeansExhausted

LEMMA RowSettles ==
  ASSUME OutboxAssumption, Exhaustion, TypeOK', NEW e \in Events, RowMove(e)
  PROVE  /\ SettledRow(event'[e])
         /\ event[e].status \in Final => event'[e] = event[e]
         /\ event'[e].status = "dead" /\ e \notin Unregistered
              => event'[e].attempts >= MaxAttempts
<1>1. event[e] \in Event /\ SettledRow(event[e])
  BY DEF Exhaustion, TypeOK
<1>2. event[e].status = "dead" /\ e \notin Unregistered
        => event[e].attempts >= MaxAttempts
  BY DEF Exhaustion, DeadMeansExhausted
<1>3. CASE event'[e] = event[e]
  BY <1>1, <1>2, <1>3
<1>4. CASE /\ event[e].status = "absent"
           /\ event'[e] = [event[e] EXCEPT !.status = "pending"]
  BY <1>1, <1>4 DEF SettledRow, Final, Event
<1>5. CASE event'[e] = [event[e] EXCEPT !.lease = Less(@), !.wait = Less(@)]
  <2>1. Less(0) = 0
    BY DEF Less
  <2>2. /\ event'[e].status = event[e].status
        /\ event'[e].attempts = event[e].attempts
        /\ event'[e].wait = Less(event[e].wait)
        /\ event'[e].lease = Less(event[e].lease)
    BY <1>1, <1>5 DEF Event
  <2>3. event[e].status \in Final => event'[e] = event[e]
    <3> SUFFICES ASSUME event[e].status \in Final PROVE event'[e] = event[e]
      OBVIOUS
    <3>1. event[e].lease = 0 /\ event[e].wait = 0
      BY <1>1 DEF SettledRow
    <3>2. event'[e] = [event[e] EXCEPT !.lease = 0, !.wait = 0]
      BY <1>1, <1>5, <2>1, <3>1 DEF Event
    <3>3. \A row \in Event :
            row.lease = 0 /\ row.wait = 0
              => row = [row EXCEPT !.lease = 0, !.wait = 0]
      BY DEF Event
    <3> QED
      BY <1>1, <3>1, <3>2, <3>3
  <2> QED
    BY <1>1, <1>2, <2>1, <2>2, <2>3 DEF SettledRow
<1>6. CASE \E c \in Consumers :
             e \in Due \cup Expired /\ event'[e] = Leased(event[e], c)
  <2>1. /\ event'[e].status = "processing"
        /\ event'[e].wait = event[e].wait
    BY <1>1, <1>6 DEF Leased, Event
  <2>2. event[e].status \in {"pending", "processing"}
        /\ (event[e].status = "pending" => event[e].wait = 0)
    BY <1>6 DEF Due, Expired
  <2> QED
    BY <1>1, <2>1, <2>2 DEF SettledRow, Final
<1>7. CASE e \in Expired /\ event'[e] = Unowned(event[e], "pending")
  <2>1. event'[e].status = "pending" /\ event[e].status = "processing"
    BY <1>1, <1>7 DEF Expired, Unowned, Event
  <2> QED
    BY <2>1 DEF SettledRow, Final
<1>8. ASSUME NEW c \in Consumers, NEW d \in Claim, NEW ok \in BOOLEAN,
             d \in Deliveries(c), d.event = e, Holds(c, e),
             event'[e] = Outcome(d, ok)
      PROVE  /\ SettledRow(event'[e])
             /\ event[e].status \in Final => event'[e] = event[e]
             /\ event'[e].status = "dead" /\ e \notin Unregistered
                  => event'[e].attempts >= MaxAttempts
  <2>1. event[e].status = "processing" /\ event[e].wait = 0
    BY <1>1, <1>8 DEF Holds, SettledRow
  <2>2. SettledRow(event'[e])
    BY <1>8, <2>1, OutcomeFields DEF SettledRow, Final, Exhaustion
  <2>3. d.attempt \in Nat /\ event[e].attempts \in Nat /\ MaxAttempts \in Nat
    BY <1>1 DEF Claim, Event, OutboxAssumption
  <2>4. d.attempt <= event[e].attempts
    BY <1>8 DEF Exhaustion, TypeOK, Deliveries
  <2>5. event'[e].status = "dead" /\ e \notin Unregistered => d.attempt >= MaxAttempts
    BY <1>8, OutcomeFields DEF Exhausted, Exhaustion
  <2>6. event'[e].attempts = event[e].attempts
    BY <1>8, OutcomeFields DEF Exhaustion
  <2> QED
    BY <2>1, <2>2, <2>3, <2>4, <2>5, <2>6 DEF Final
<1> QED
  BY <1>3, <1>4, <1>5, <1>6, <1>7, <1>8 DEF RowMove

LEMMA ExhaustionStep ==
  OutboxAssumption /\ Exhaustion /\ [Next]_vars
    => /\ Exhaustion'
       /\ \A e \in Events : event[e].status \in Final => event'[e] = event[e]
<1> SUFFICES ASSUME OutboxAssumption, Exhaustion, [Next]_vars
             PROVE  /\ Exhaustion'
                    /\ \A e \in Events :
                         event[e].status \in Final => event'[e] = event[e]
  OBVIOUS
<1>1. TypeOK /\ TypeOK'
  BY TypeStep DEF Exhaustion
<1> QED
  BY <1>1, RowsMove, RowSettles DEF Exhaustion, DeadMeansExhausted

\* An event with a handler dies only after its attempts are used up, whichever
\* process answers for whichever of its claims.
THEOREM DeathTakesAllAttempts == Spec => []DeadMeansExhausted
<1>1. Exhaustion => DeadMeansExhausted
  BY DEF Exhaustion
<1> QED
  BY <1>1, ExhaustionInit, ExhaustionStep, OutboxAssumption, PTL DEF Spec

\* A published or dead event stays as it is, whatever late deliveries answer.
THEOREM SettledStaysSettled == Spec => FinalIsFinal
<1>1. Exhaustion /\ [Next]_vars
        => [\A e \in Events :
              event[e].status \in Final => event'[e] = event[e]]_vars
  BY ExhaustionStep, OutboxAssumption
<1> QED
  BY <1>1, ExhaustionInit, ExhaustionStep, OutboxAssumption, PTL
     DEF Spec, FinalIsFinal

-----------------------------------------------------------------------------
(* One process alive at a time, as in production: its deliveries are the    *)
(* rows it holds, no more and no fewer.                                     *)

Claimed(c) ==
  \A d \in Deliveries(c) :
    Holds(c, d.event) /\ d.attempt = event[d.event].attempts
Delivered(c) ==
  \A e \in Events : Holds(c, e) => \E d \in Deliveries(c) : d.event = e

OneAlive == \A b, c \in Consumers : Alive(b) /\ Alive(c) => b = c
Flight(c) ==
  /\ consumer[c].stray = {} /\ consumer[c].batch \cap consumer[c].chunk = {}
  /\ ~Alive(c) => Deliveries(c) = {}
  /\ Claimed(c)
  /\ consumer[c].life # "dead" => Delivered(c)
Alone == TypeOK /\ OneAlive /\ \A c \in Consumers : Flight(c)

LEMMA AloneInit == OutboxAssumption /\ Init => Alone
<1> SUFFICES ASSUME OutboxAssumption, Init PROVE Alone
  OBVIOUS
<1>1. \A c \in Consumers : ~Alive(c) /\ Deliveries(c) = {}
  BY DEF Init, Resting, Alive, Deliveries
<1>2. \A e \in Events, c \in Consumers : ~Holds(c, e)
  BY DEF Init, Holds
<1>3. \A c \in Consumers : Flight(c)
  BY <1>1, <1>2 DEF Flight, Claimed, Delivered, Init, Resting
<1> QED
  BY <1>1, <1>3, TypeInit DEF Alone, OneAlive

(* The rows keep what Holds and attempts say, the processes what they have. *)
SameHolds ==
  \A e \in Events : /\ event'[e].attempts = event[e].attempts
                    /\ \A c \in Consumers : Holds(c, e)' = Holds(c, e)

LEMMA FlightKept ==
  ASSUME Alone, SameHolds, NEW c \in Consumers,
         consumer'[c] = consumer[c]
  PROVE  Flight(c)'
<1>1. \A d \in Deliveries(c) : d.event \in Events
  BY DEF Alone, TypeOK, Deliveries, Consumer, Claim
<1>2. Deliveries(c)' = Deliveries(c) /\ Alive(c)' = Alive(c)
  BY DEF Deliveries, Alive
<1>3. Flight(c)
  BY DEF Alone
<1>4. Claimed(c)'
  BY <1>1, <1>2, <1>3 DEF Flight, Claimed, SameHolds
<1>5. Delivered(c)' = Delivered(c)
  BY <1>2 DEF Delivered, SameHolds
<1> QED
  BY <1>2, <1>3, <1>4, <1>5 DEF Flight

LEMMA ClockAlone ==
  ASSUME OutboxAssumption, Alone, Tick \/ (\E e \in Events : Enqueue(e))
  PROVE  SameHolds /\ UNCHANGED consumer
<1> DEFINE Aged(e) == [event[e] EXCEPT !.lease = Less(@), !.wait = Less(@)]
<1>1. ASSUME Tick PROVE SameHolds
  <2>1. \A e \in Events : /\ Aged(e).status = event[e].status
                          /\ Aged(e).owner = event[e].owner
                          /\ Aged(e).attempts = event[e].attempts
    BY DEF Alone, TypeOK, Event
  <2>2. event' = [e \in Events |-> Aged(e)]
    BY <1>1 DEF Tick
  <2> HIDE DEF Aged
  <2>3. QED
    BY <2>1, <2>2 DEF SameHolds, Holds
<1>2. ASSUME NEW e \in Events, Enqueue(e) PROVE SameHolds
  BY <1>2 DEF Enqueue, SameHolds, Holds, Alone, TypeOK, Event
<1> QED
  BY <1>1, <1>2 DEF Tick, Enqueue

LEMMA StartsAlone ==
  ASSUME OutboxAssumption, MaxLive = 1, NEW c \in Consumers, Start(c)
  PROVE  \A b \in Consumers : ~Alive(b)
<1> DEFINE Living == {b \in Consumers : Alive(b)}
<1>1. IsFiniteSet(Living)
  BY FS_Subset DEF OutboxAssumption
<1>2. Cardinality(Living) \in Nat /\ Cardinality(Living) < 1
  BY <1>1, FS_CardinalityType DEF Start
<1>3. Living = {}
  BY <1>1, <1>2, FS_EmptySet
<1> QED
  BY <1>3

LEMMA LivesAlone ==
  ASSUME OutboxAssumption, MaxLive = 1, Alone, NEW c \in Consumers,
         Start(c) \/ DeliverChunk(c) \/ Stop(c) \/ Close(c) \/ Crash(c)
  PROVE  OneAlive' /\ \A b \in Consumers : Flight(b)'
<1>1. SameHolds
  BY DEF SameHolds, Holds, Start, DeliverChunk, Stop, Close, Crash
<1>2. \A b \in Consumers \ {c} : consumer'[b] = consumer[b]
  BY DEF Alone, TypeOK, Start, DeliverChunk, Stop, Close, Crash
<1>3. \A b \in Consumers \ {c} : Flight(b)'
  BY <1>1, <1>2, FlightKept
<1>4. consumer[c] \in Consumer /\ Flight(c) /\ OneAlive
  BY DEF Alone, TypeOK
<1>5. OneAlive'
  BY <1>2, <1>4, StartsAlone
     DEF OneAlive, Alive, Alone, TypeOK, Start, DeliverChunk, Stop, Close,
         Crash, Resting, Consumer
<1>6. CASE Start(c) \/ Stop(c)
  <2>1. PICK life \in {"up", "stopping"} :
          consumer' = [consumer EXCEPT ![c].life = life]
    BY <1>6 DEF Start, Stop
  <2>2. /\ consumer'[c].batch = consumer[c].batch
        /\ consumer'[c].chunk = consumer[c].chunk
        /\ consumer'[c].stray = consumer[c].stray
        /\ consumer'[c].life = life
    BY <2>1, <1>4 DEF Alone, TypeOK, Consumer
  <2>3. Alive(c)' /\ consumer[c].life # "dead"
    BY <1>6, <2>2 DEF Alive, Start, Stop
  <2>4. Deliveries(c)' = Deliveries(c)
    BY <2>2 DEF Deliveries
  <2>5. \A d \in Deliveries(c) : d.event \in Events
    BY <1>4 DEF Deliveries, Consumer, Claim
  <2>6. Claimed(c)' /\ Delivered(c)'
    BY <1>1, <1>4, <2>3, <2>4, <2>5 DEF Flight, Claimed, Delivered, SameHolds
  <2>7. Flight(c)'
    BY <1>4, <2>2, <2>3, <2>6 DEF Flight
  <2> QED
    BY <1>3, <1>5, <2>7
<1>7. CASE DeliverChunk(c)
  <2>1. PICK K \in SUBSET consumer[c].batch :
          consumer' = [consumer EXCEPT ![c].batch = @ \ K, ![c].chunk = K]
    BY <1>7 DEF DeliverChunk
  <2>2. /\ consumer'[c].batch = consumer[c].batch \ K
        /\ consumer'[c].chunk = K
        /\ consumer'[c].stray = consumer[c].stray
        /\ consumer'[c].life = consumer[c].life
    BY <2>1, <1>4 DEF Alone, TypeOK, Consumer
  <2>3. Alive(c)' /\ Alive(c) /\ consumer[c].chunk = {}
    BY <1>7, <2>2 DEF Alive, DeliverChunk
  <2>4. Deliveries(c)' = Deliveries(c)
    BY <2>2, <2>3 DEF Deliveries
  <2>5. \A d \in Deliveries(c) : d.event \in Events
    BY <1>4 DEF Deliveries, Consumer, Claim
  <2>6. Claimed(c)' /\ Delivered(c)'
    BY <1>1, <1>4, <2>3, <2>4, <2>5
       DEF Flight, Claimed, Delivered, SameHolds, Alive
  <2>7. Flight(c)'
    BY <1>4, <2>2, <2>3, <2>6 DEF Flight
  <2> QED
    BY <1>3, <1>5, <2>7
<1>8. CASE Close(c) \/ Crash(c)
  <2>1. PICK life \in {"closed", "dead"} :
          /\ consumer' = [consumer EXCEPT ![c] = Resting(life)]
          /\ life = "closed" => ~InFlight(c) /\ consumer[c].life = "stopping"
    BY <1>8 DEF Close, Crash
  <2>2. consumer'[c] = Resting(life)
    BY <2>1 DEF Alone, TypeOK
  <2>3. ~Alive(c)' /\ Deliveries(c)' = {}
    BY <2>2 DEF Alive, Deliveries, Resting
  <2>4. life = "closed" => Deliveries(c) = {}
    BY <1>4, <2>1 DEF InFlight, Deliveries, Flight
  <2>5. life = "closed" => Delivered(c)'
    BY <1>1, <1>4, <2>1, <2>4 DEF Flight, Delivered, SameHolds
  <2>6. Flight(c)'
    BY <2>2, <2>3, <2>5 DEF Flight, Claimed, Resting
  <2> QED
    BY <1>3, <1>5, <2>6
<1> QED
  BY <1>6, <1>7, <1>8

LEMMA AnswerAlone ==
  ASSUME OutboxAssumption, Alone, NEW c \in Consumers, Answer(c)
  PROVE  OneAlive' /\ \A b \in Consumers : Flight(b)'
<1>1. consumer[c] \in Consumer /\ Flight(c) /\ OneAlive /\ TypeOK
  BY DEF Alone, TypeOK
<1>2. PICK d \in consumer[c].chunk, ok \in BOOLEAN :
        /\ event' = [event EXCEPT ![d.event] = Outcome(d, ok)]
        /\ consumer' = [consumer EXCEPT ![c].chunk = @ \ {d},
                                        ![c].stray = @ \ {d}]
  BY <1>1 DEF Answer, Flight, Claimed, Deliveries
<1>3. d \in Claim /\ d \in Deliveries(c) /\ Holds(c, d.event) /\ Alive(c)
  BY <1>1 DEF Consumer, Deliveries, Flight, Claimed, Answer
<1>4. /\ consumer'[c].chunk = consumer[c].chunk \ {d}
      /\ consumer'[c].batch = consumer[c].batch
      /\ consumer'[c].stray = {}
      /\ consumer'[c].life = consumer[c].life
      /\ \A b \in Consumers \ {c} : consumer'[b] = consumer[b]
  BY <1>1, <1>2 DEF TypeOK, Consumer, Flight
<1>5. Deliveries(c)' = Deliveries(c) \ {d}
  BY <1>1, <1>2, <1>4 DEF Deliveries, Flight
<1>6. \A x \in Deliveries(c) \ {d} : x.event \in Events \ {d.event}
  BY <1>1, <1>3 DEF Flight, Claimed, Deliveries, Consumer, Claim
<1>7. /\ \A e \in Events \ {d.event} : event'[e] = event[e]
      /\ event'[d.event].status # "processing"
  BY <1>2, <1>3, <1>1, OutcomeFields DEF TypeOK, Claim, Final
<1>8. /\ \A b \in Consumers : ~Holds(b, d.event)'
      /\ \A e \in Events \ {d.event}, b \in Consumers : Holds(b, e)' = Holds(b, e)
  BY <1>7 DEF Holds
<1>9. Claimed(c)'
  BY <1>1, <1>5, <1>6, <1>7, <1>8 DEF Flight, Claimed
<1>10. Delivered(c)'
  BY <1>1, <1>3, <1>5, <1>8 DEF Flight, Delivered, Alive
<1>11. Flight(c)'
  BY <1>1, <1>3, <1>4, <1>9, <1>10 DEF Flight, Alive
<1>12. ASSUME NEW b \in Consumers \ {c} PROVE Flight(b)'
  <2>1. ~Alive(b) /\ Flight(b) /\ consumer'[b] = consumer[b]
    BY <1>1, <1>3, <1>4 DEF OneAlive, Alone
  <2>2. ~Alive(b)' /\ Deliveries(b)' = {}
    BY <2>1 DEF Alive, Deliveries, Flight
  <2>3. Deliveries(b) = {}
    BY <2>1 DEF Flight
  <2>4. consumer[b].life # "dead" => \A e \in Events : ~Holds(b, e)
    BY <2>1, <2>3 DEF Flight, Delivered
  <2>5. consumer[b].life # "dead" => \A e \in Events : ~Holds(b, e)'
    BY <2>4, <1>8
  <2> QED
    BY <2>1, <2>2, <2>5 DEF Flight, Claimed, Delivered
<1>13. OneAlive'
  BY <1>1, <1>4 DEF OneAlive, Alive
<1> QED
  BY <1>11, <1>12, <1>13

LEMMA PassAlone ==
  ASSUME OutboxAssumption, Alone, NEW c \in Consumers, RunPass(c)
  PROVE  OneAlive' /\ \A b \in Consumers : Flight(b)'
<1>1. consumer[c] \in Consumer /\ Flight(c) /\ OneAlive /\ TypeOK
  BY DEF Alone, TypeOK
<1>2. PICK S \in SUBSET (Due \cup Expired) :
        /\ event' = [e \in Events |->
             IF e \in S THEN Leased(event[e], c)
             ELSE IF e \in Expired THEN Unowned(event[e], "pending")
             ELSE event[e]]
        /\ consumer' = [consumer EXCEPT ![c].batch =
             {[event |-> e, attempt |-> event[e].attempts + 1] : e \in S}]
  BY DEF RunPass
<1>3. Alive(c) /\ Deliveries(c) = {} /\ consumer[c].chunk = {}
  BY <1>1 DEF RunPass, Alive, InFlight, Deliveries, Flight
<1>4. S \subseteq Events
  BY DEF Due, Expired
<1>5. /\ consumer'[c].batch =
           {[event |-> e, attempt |-> event[e].attempts + 1] : e \in S}
      /\ consumer'[c].chunk = {} /\ consumer'[c].stray = {}
      /\ consumer'[c].life = consumer[c].life
      /\ \A b \in Consumers \ {c} : consumer'[b] = consumer[b]
  BY <1>1, <1>2, <1>3 DEF TypeOK, Consumer, Flight
<1>6. \A e \in S : /\ event'[e].status = "processing"
                   /\ event'[e].owner = c
                   /\ event'[e].attempts = event[e].attempts + 1
  BY <1>1, <1>2, <1>4 DEF TypeOK, Event, Leased
<1>7. \A e \in Events \ S : event'[e] = event[e] \/ event'[e].status = "pending"
  BY <1>1, <1>2 DEF TypeOK, Event, Unowned
<1>8. /\ \A e \in S : Holds(c, e)' /\ \A b \in Consumers \ {c} : ~Holds(b, e)'
      /\ \A e \in Events \ S, b \in Consumers : Holds(b, e)' => Holds(b, e)
  BY <1>6, <1>7 DEF Holds
<1>9. Flight(c)'
  <2>1. \A d \in Deliveries(c)' : d.event \in S
                                 /\ d.attempt = event[d.event].attempts + 1
    BY <1>5 DEF Deliveries
  <2>2. Claimed(c)'
    BY <2>1, <1>6, <1>8 DEF Claimed
  <2>3. \A e \in Events : ~Holds(c, e)
    BY <1>1, <1>3 DEF Flight, Delivered, Alive
  <2>4. ASSUME NEW e \in S PROVE \E d \in Deliveries(c)' : d.event = e
    <3> DEFINE d == [event |-> e, attempt |-> event[e].attempts + 1]
    <3>1. d \in consumer'[c].batch
      BY <1>5
    <3>2. d.event = e
      OBVIOUS
    <3> QED
      BY <3>1, <3>2 DEF Deliveries
  <2>5. Delivered(c)'
    BY <1>8, <2>3, <2>4 DEF Delivered
  <2> QED
    BY <1>3, <1>5, <2>2, <2>5 DEF Flight, Alive
<1>10. ASSUME NEW b \in Consumers \ {c} PROVE Flight(b)'
  <2>1. ~Alive(b) /\ Flight(b) /\ consumer'[b] = consumer[b]
    BY <1>1, <1>3, <1>5 DEF OneAlive, Alone
  <2>2. ~Alive(b)' /\ Deliveries(b)' = {}
    BY <2>1 DEF Alive, Deliveries, Flight
  <2>3. Deliveries(b) = {}
    BY <2>1 DEF Flight
  <2>4. consumer[b].life # "dead" => \A e \in Events : ~Holds(b, e)
    BY <2>1, <2>3 DEF Flight, Delivered
  <2>5. consumer[b].life # "dead" => \A e \in Events : ~Holds(b, e)'
    BY <2>4, <1>8
  <2> QED
    BY <2>1, <2>2, <2>5 DEF Flight, Claimed, Delivered
<1>11. OneAlive'
  BY <1>1, <1>5 DEF OneAlive, Alive
<1> QED
  BY <1>9, <1>10, <1>11

LEMMA AloneStep ==
  OutboxAssumption /\ MaxLive = 1 /\ Alone /\ [Next]_vars => Alone'
<1> SUFFICES ASSUME OutboxAssumption, MaxLive = 1, Alone, [Next]_vars
             PROVE  Alone'
  OBVIOUS
<1>1. TypeOK'
  BY TypeStep DEF Alone
<1>2. CASE UNCHANGED vars
  <2>1. SameHolds /\ UNCHANGED consumer
    BY <1>2 DEF vars, SameHolds, Holds
  <2> QED
    BY <1>1, <2>1, FlightKept DEF Alone, OneAlive, Alive
<1>3. CASE Tick \/ (\E e \in Events : Enqueue(e))
  BY <1>1, <1>3, ClockAlone, FlightKept DEF Alone, OneAlive, Alive
<1>4. ASSUME NEW c \in Consumers, Process(c) PROVE Alone'
  BY <1>1, <1>4, LivesAlone, AnswerAlone, PassAlone DEF Alone, Process
<1> QED
  BY <1>2, <1>3, <1>4 DEF Next

\* With one process at a time an event is in one delivery at most, and that is
\* of the claim the row records, however late the handlers answer.
THEOREM OneDelivery ==
  ASSUME MaxLive = 1 PROVE Spec => []OneDeliveryOfTheClaim
<1>1. Alone => OneDeliveryOfTheClaim
  BY DEF Alone, Flight, Claimed, Deliveries, OneDeliveryOfTheClaim
<1> QED
  BY <1>1, AloneInit, AloneStep, OutboxAssumption, PTL DEF Spec

\* With one process at a time a process that shut down in order holds nothing.
THEOREM ShutdownLeavesNothing ==
  ASSUME MaxLive = 1 PROVE Spec => []ShutdownFinishesClaims
<1>1. Alone => ShutdownFinishesClaims
  BY DEF Alone, Flight, Delivered, Alive, ShutdownFinishesClaims
<1> QED
  BY <1>1, AloneInit, AloneStep, OutboxAssumption, PTL DEF Spec

-----------------------------------------------------------------------------
(* What claims may still be made while one process lives at a time: every   *)
(* claim beyond maxAttempts is paid for by a process that ended.  An event  *)
(* that waits has one left, and so has a claimed one unless its owner is    *)
(* up, which then has it in a delivery and claims nothing meanwhile.        *)

Budget == MaxAttempts + Cardinality(Ended)

Within(e) ==
  /\ event[e].attempts <= Budget
  /\ event[e].status \in {"absent", "pending"} => event[e].attempts < Budget
  /\ event[e].status = "processing" =>
       \/ event[e].attempts < Budget
       \/ \E c \in Consumers : consumer[c].life = "up" /\ Holds(c, e)

AllWithin == \A e \in Events : Within(e)

LEMMA BudgetType ==
  OutboxAssumption => Budget \in Nat /\ Budget >= MaxAttempts
<1> SUFFICES ASSUME OutboxAssumption
             PROVE  Budget \in Nat /\ Budget >= MaxAttempts
  OBVIOUS
<1>1. IsFiniteSet(Ended)
  BY FS_Subset DEF OutboxAssumption, Ended
<1>2. Cardinality(Ended) \in Nat /\ MaxAttempts \in Nat
  BY <1>1, FS_CardinalityType DEF OutboxAssumption
<1> QED
  BY <1>2 DEF Budget

(* A process ends. *)
LEMMA BudgetRises ==
  ASSUME OutboxAssumption, NEW c \in Consumers, c \notin Ended,
         Ended' = Ended \cup {c}
  PROVE  Budget' = Budget + 1
<1>1. IsFiniteSet(Ended)
  BY FS_Subset DEF OutboxAssumption, Ended
<1>2. Cardinality(Ended') = Cardinality(Ended) + 1
  BY <1>1, FS_AddElement
<1>3. Cardinality(Ended) \in Nat /\ MaxAttempts \in Nat
  BY <1>1, FS_CardinalityType DEF OutboxAssumption
<1> QED
  BY <1>2, <1>3 DEF Budget

(* Rows whose claims stand, while nobody ends that was up. *)
LEMMA WithinKept ==
  ASSUME TypeOK, AllWithin, Budget' = Budget, NEW e \in Events,
         event'[e].attempts = event[e].attempts,
         \/ event'[e].status = event[e].status
         \/ event[e].status = "absent" /\ event'[e].status = "pending",
         event'[e].owner = event[e].owner,
         \A c \in Consumers :
           consumer[c].life = "up" => consumer'[c].life = "up"
  PROVE  Within(e)'
<1>1. Within(e)
  BY DEF AllWithin
<1> QED
  BY <1>1 DEF Within, Holds

LEMMA ClockWithin ==
  ASSUME OutboxAssumption, TypeOK, AllWithin,
         Tick \/ (\E e \in Events : Enqueue(e)) \/ UNCHANGED vars
  PROVE  AllWithin'
<1> SUFFICES ASSUME NEW e \in Events PROVE Within(e)'
  BY DEF AllWithin
<1>1. consumer' = consumer
  BY DEF Tick, Enqueue, vars
<1>2. Budget' = Budget
  BY <1>1 DEF Budget, Ended
<1>3. /\ event'[e].attempts = event[e].attempts
      /\ event'[e].owner = event[e].owner
      /\ \/ event'[e].status = event[e].status
         \/ event[e].status = "absent" /\ event'[e].status = "pending"
  <2>1. event[e] \in Event
    BY DEF TypeOK
  <2>2. CASE Tick
    <3>1. event'[e] = [event[e] EXCEPT !.lease = Less(@), !.wait = Less(@)]
      BY <2>2 DEF Tick
    <3> QED
      BY <2>1, <3>1 DEF Event
  <2>3. CASE \E x \in Events : Enqueue(x)
    BY <2>1, <2>3 DEF Enqueue, TypeOK, Event
  <2> QED
    BY <2>2, <2>3 DEF vars
<1> QED
  BY <1>1, <1>2, <1>3, WithinKept

LEMMA LivesWithin ==
  ASSUME OutboxAssumption, TypeOK, AllWithin, NEW c \in Consumers,
         Start(c) \/ DeliverChunk(c) \/ Stop(c) \/ Close(c) \/ Crash(c)
  PROVE  AllWithin'
<1>1. event' = event
  BY DEF Start, DeliverChunk, Stop, Close, Crash
<1>2. consumer[c] \in Consumer
  BY DEF TypeOK
<1>3. \A b \in Consumers \ {c} : consumer'[b] = consumer[b]
  BY DEF TypeOK, Start, DeliverChunk, Stop, Close, Crash
<1>4. CASE Stop(c) \/ Crash(c)
  <2>1. consumer[c].life = "up" /\ consumer'[c].life \in {"stopping", "dead"}
    BY <1>2, <1>4 DEF Stop, Crash, Resting, TypeOK, Consumer
  <2>2. c \notin Ended /\ Ended' = Ended \cup {c}
    BY <1>3, <2>1 DEF Ended
  <2>3. Budget' = Budget + 1 /\ Budget \in Nat
    BY <2>2, BudgetRises, BudgetType
  <2>4. \A e \in Events : event[e].attempts \in Nat
    BY DEF TypeOK, Event
  <2> QED
    BY <1>1, <2>3, <2>4 DEF AllWithin, Within
<1>5. CASE Start(c) \/ DeliverChunk(c) \/ Close(c)
  <2>1. \/ /\ consumer[c].life = "new" \/ consumer[c].life = "up"
           /\ consumer'[c].life = "up"
        \/ /\ consumer[c].life = "stopping"
           /\ consumer'[c].life \in {"stopping", "closed"}
    <3>1. CASE Start(c)
      BY <1>2, <3>1 DEF Start, TypeOK, Consumer
    <3>2. CASE DeliverChunk(c)
      <4>1. PICK K \in SUBSET consumer[c].batch :
              consumer' = [consumer EXCEPT ![c].batch = @ \ K, ![c].chunk = K]
        BY <3>2 DEF DeliverChunk
      <4>2. consumer'[c].life = consumer[c].life
        BY <1>2, <4>1 DEF TypeOK, Consumer
      <4> QED
        BY <3>2, <4>2 DEF DeliverChunk, Alive
    <3>3. CASE Close(c)
      BY <3>3 DEF Close, Resting, TypeOK
    <3> QED
      BY <1>5, <3>1, <3>2, <3>3
  <2>2. Ended' = Ended
    BY <1>3, <2>1 DEF Ended
  <2>3. Budget' = Budget
    BY <2>2 DEF Budget
  <2>4. \A b \in Consumers : consumer[b].life = "up" => consumer'[b].life = "up"
    BY <1>3, <2>1
  <2> QED
    BY <1>1, <2>3, <2>4, WithinKept DEF AllWithin
<1> QED
  BY <1>4, <1>5

(* Whoever claims has nothing in flight, so nobody who is up holds a row.   *)
LEMMA PassWithin ==
  ASSUME OutboxAssumption, Alone, AllWithin, NEW c \in Consumers, RunPass(c)
  PROVE  AllWithin'
<1>1. TypeOK /\ OneAlive /\ Flight(c) /\ consumer[c] \in Consumer
  BY DEF Alone, TypeOK
<1>2. PICK S \in SUBSET (Due \cup Expired) :
        /\ event' = [e \in Events |->
             IF e \in S THEN Leased(event[e], c)
             ELSE IF e \in Expired THEN Unowned(event[e], "pending")
             ELSE event[e]]
        /\ consumer' = [consumer EXCEPT ![c].batch =
             {[event |-> e, attempt |-> event[e].attempts + 1] : e \in S}]
  BY DEF RunPass
<1>3. /\ consumer[c].life = "up" /\ Deliveries(c) = {}
      /\ \A b \in Consumers : consumer'[b].life = consumer[b].life
  BY <1>1, <1>2 DEF RunPass, InFlight, Deliveries, Flight, TypeOK, Consumer
<1>4. Ended' = Ended
  BY <1>3 DEF Ended
<1>5. Budget' = Budget /\ Budget \in Nat
  BY <1>4, BudgetType DEF Budget
<1>6. \A b \in Consumers, e \in Events : consumer[b].life = "up" => ~Holds(b, e)
  <2>1. \A e \in Events : ~Holds(c, e)
    BY <1>1, <1>3 DEF Flight, Delivered
  <2>2. \A b \in Consumers : consumer[b].life = "up" => b = c
    BY <1>1, <1>3 DEF OneAlive, Alive
  <2> QED
    BY <2>1, <2>2
<1>7. \A e \in Due \cup Expired : event[e].attempts < Budget
  BY <1>6 DEF AllWithin, Within, Due, Expired
<1> SUFFICES ASSUME NEW e \in Events PROVE Within(e)'
  BY DEF AllWithin
<1>8. event[e] \in Event /\ event[e].attempts \in Nat
  BY <1>1 DEF TypeOK, Event
<1>9. CASE e \in S
  <2>1. event'[e] = Leased(event[e], c)
    BY <1>2, <1>9
  <2>2. /\ event'[e].attempts = event[e].attempts + 1
        /\ event'[e].status = "processing" /\ event'[e].owner = c
    BY <1>8, <2>1 DEF Leased, Event
  <2>3. event[e].attempts < Budget
    BY <1>7, <1>9
  <2> QED
    BY <1>3, <1>5, <1>8, <2>2, <2>3 DEF Within, Holds
<1>10. CASE e \in Expired \ S
  <2>1. event'[e] = Unowned(event[e], "pending")
    BY <1>2, <1>10
  <2>2. event'[e].attempts = event[e].attempts /\ event'[e].status = "pending"
    BY <1>8, <2>1 DEF Unowned, Event
  <2> QED
    BY <1>5, <1>7, <1>8, <1>10, <2>2 DEF Within
<1>11. CASE e \notin S \cup Expired
  <2>1. event'[e] = event[e]
    BY <1>2, <1>11
  <2> QED
    BY <1>1, <1>3, <1>5, <2>1, WithinKept
<1> QED
  BY <1>9, <1>10, <1>11

(* Whoever answers holds the row at the attempt it delivers, and reschedules *)
(* only below the policy.                                                   *)
LEMMA AnswerWithin ==
  ASSUME OutboxAssumption, Alone, AllWithin, NEW c \in Consumers, Answer(c)
  PROVE  AllWithin'
<1>1. consumer[c] \in Consumer /\ Flight(c) /\ TypeOK
  BY DEF Alone, TypeOK
<1>2. PICK d \in consumer[c].chunk, ok \in BOOLEAN :
        /\ event' = [event EXCEPT ![d.event] = Outcome(d, ok)]
        /\ consumer' = [consumer EXCEPT ![c].chunk = @ \ {d},
                                        ![c].stray = @ \ {d}]
  BY <1>1 DEF Answer, Flight, Claimed, Deliveries
<1>3. d \in Claim /\ d.event \in Events /\ d.attempt = event[d.event].attempts
  BY <1>1 DEF Consumer, Deliveries, Flight, Claimed, Claim
<1>4. \A b \in Consumers : consumer'[b].life = consumer[b].life
  BY <1>1, <1>2 DEF TypeOK, Consumer
<1>5. Ended' = Ended
  BY <1>4 DEF Ended
<1>6. Budget' = Budget /\ Budget \in Nat /\ Budget >= MaxAttempts
  BY <1>5, BudgetType DEF Budget
<1> SUFFICES ASSUME NEW e \in Events PROVE Within(e)'
  BY DEF AllWithin
<1>7. CASE e # d.event
  <2>1. event'[e] = event[e]
    BY <1>1, <1>2, <1>7 DEF TypeOK
  <2> QED
    BY <1>1, <1>4, <1>6, <2>1, WithinKept
<1>8. CASE e = d.event
  <2>1. event'[e] = Outcome(d, ok)
    BY <1>1, <1>2, <1>8 DEF TypeOK
  <2>2. /\ event'[e].attempts = event[e].attempts
        /\ event'[e].status \in {"pending"} \cup Final
    BY <1>1, <1>3, <1>8, <2>1, OutcomeFields
  <2>3. event'[e].status = "pending" => ~Exhausted(d)
    <3>1. \A s \in Statuses : Unowned(event[e], s).status = s
      BY <1>1 DEF Unowned, TypeOK, Event
    <3> QED
      BY <1>8, <2>1, <3>1 DEF Outcome, Statuses
  <2>4. event[e].attempts \in Nat /\ MaxAttempts \in Nat
    BY <1>1 DEF TypeOK, Event, OutboxAssumption
  <2>5. event'[e].status = "pending" => event[e].attempts < Budget
    BY <1>3, <1>6, <1>8, <2>3, <2>4 DEF Exhausted
  <2>6. event[e].attempts <= Budget
    BY DEF AllWithin, Within
  <2> QED
    BY <1>6, <2>2, <2>5, <2>6 DEF Within, Final
<1> QED
  BY <1>7, <1>8

LEMMA WithinStep ==
  OutboxAssumption /\ Alone /\ AllWithin /\ [Next]_vars => AllWithin'
<1> SUFFICES ASSUME OutboxAssumption, Alone, AllWithin, [Next]_vars
             PROVE  AllWithin'
  OBVIOUS
<1>1. TypeOK
  BY DEF Alone
<1>2. CASE Tick \/ (\E e \in Events : Enqueue(e)) \/ UNCHANGED vars
  BY <1>1, <1>2, ClockWithin
<1>3. ASSUME NEW c \in Consumers, Process(c) PROVE AllWithin'
  BY <1>1, <1>3, LivesWithin, AnswerWithin, PassWithin DEF Process
<1> QED
  BY <1>2, <1>3 DEF Next

\* With one process at a time each claim of an event beyond maxAttempts is the
\* answer to a process that ended, although claimBatch looks at no attempts.
THEOREM ClaimsAnswerEnds ==
  ASSUME MaxLive = 1 PROVE Spec => []LossesExceedPolicy
<1>1. OutboxAssumption /\ Init => AllWithin
  <2> SUFFICES ASSUME OutboxAssumption, Init PROVE AllWithin
    OBVIOUS
  <2>1. Budget \in Nat /\ Budget >= MaxAttempts /\ MaxAttempts \in Nat \ {0}
    BY BudgetType DEF OutboxAssumption
  <2>2. \A e \in Events : event[e].attempts = 0 /\ event[e].status = "absent"
    BY DEF Init
  <2> QED
    BY <2>1, <2>2 DEF AllWithin, Within
<1>2. AllWithin => LossesExceedPolicy
  BY DEF AllWithin, Within, Budget, LossesExceedPolicy
<1> QED
  BY <1>1, <1>2, AloneInit, AloneStep, WithinStep, OutboxAssumption, PTL
     DEF Spec
=============================================================================
