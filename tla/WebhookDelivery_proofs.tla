----------------------- MODULE WebhookDelivery_proofs -----------------------
(***************************************************************************)
(* Proofs about WebhookDelivery, for any number of deliveries and faults   *)
(* and a queue of any size: the types, that nothing is dispatched twice,   *)
(* and that outcomes tell the truth.                                       *)
(*                                                                         *)
(* Dispatch looks at no row.  That it happens once rests on a delivery     *)
(* being in one hand at a time (its handler, the queue or the worker) for  *)
(* as long as it was not dispatched, and on a reserved row behind each     *)
(* hand: reserved rows never share a replay key.                           *)
(***************************************************************************)
EXTENDS WebhookDelivery, TLAPS

(* What is ever written into the row of an event. *)
Written == {"accepted", "queued", "ignored", "backpressure", "auth_failed", "error"}

(* A handler that is not past its dispatch is the only one that has the    *)
(* delivery, and its row is as it left it.                                 *)
HandlerInv ==
    \A d \in Delivery :
        /\ work[d].stage \in {"idle", "reserving", "matching", "dispatching"} =>
              work[d].outcome = "none" /\ tried[d] = 0 /\ ~Held(d)
        /\ work[d].stage \in {"idle", "reserving"} => row[d] = "none"
        /\ work[d].stage \in {"matching", "dispatching"} => row[d] = "received"
        /\ work[d].stage = "writing" =>
              /\ work[d].outcome \in Written
              /\ work[d].outcome = "auth_failed" => row[d] = "none"
              /\ work[d].outcome # "auth_failed" => Reserved(d)
        /\ row[d] = "auth_failed" => work[d].stage = "done"
        /\ row[d] \in Written \cup {"none", "received"}

WorkerInv ==
    /\ work[Worker].stage \in {"idle", "dispatching", "writing"}
    /\ hand = NoJob <=> work[Worker].stage = "idle"
    /\ work[Worker].stage = "dispatching" => tried[hand] = 0
    /\ work[Worker].stage = "writing" =>
          tried[hand] = 1 /\ work[Worker].outcome \in {"queued", "error"}

(* What waits in the queue waits there once, and nobody else has it. *)
QueueInv ==
    /\ \A i, j \in 1..Len(jobs) : jobs[i] = jobs[j] => i = j
    /\ \A d \in Delivery : Queued(d) => tried[d] = 0 /\ hand # d

TriedOnce == \A d \in Delivery : tried[d] <= 1

(* Whatever is in a hand after its handler, or was dispatched, has a       *)
(* reserved row, and no two of these have one replay key.                  *)
HeldIsReserved ==
    \A d \in Delivery : Held(d) \/ tried[d] > 0 => Reserved(d)
ReservedOnce ==
    \A d, e \in Delivery :
        d # e /\ Reserved(d) /\ Reserved(e) => ~SameReplayKey(d, e)

DeliveryInv ==
    /\ TypeOK /\ HandlerInv /\ WorkerInv /\ QueueInv /\ TriedOnce
    /\ HeldIsReserved /\ ReservedOnce /\ OutcomesTellTruth

----------------------------------------------------------------------------
(* The queue. *)

LEMMA AppendQueues ==
    ASSUME TypeOK, NEW d \in Delivery, jobs' = Append(jobs, d)
    PROVE  /\ jobs' \in Seq(Delivery)
           /\ \A e : Queued(e)' <=> Queued(e) \/ e = d
           /\ Len(jobs') = Len(jobs) + 1
           /\ jobs'[Len(jobs) + 1] = d
           /\ \A i \in 1..Len(jobs) : jobs'[i] = jobs[i]
<1> USE DEF TypeOK
<1>1. /\ jobs' \in Seq(Delivery) /\ Len(jobs') = Len(jobs) + 1
      /\ jobs'[Len(jobs) + 1] = d
      /\ \A i \in 1..Len(jobs) : jobs'[i] = jobs[i]
  OBVIOUS
<1>2. ASSUME NEW e PROVE Queued(e)' <=> Queued(e) \/ e = d
  <2>1. Len(jobs) \in Nat
    OBVIOUS
  <2>2. ASSUME Queued(e)' PROVE Queued(e) \/ e = d
    BY <1>1, <2>1, <2>2 DEF Queued
  <2>3. ASSUME Queued(e) \/ e = d PROVE Queued(e)'
    BY <1>1, <2>1, <2>3 DEF Queued
  <2>4. QED
    BY <2>2, <2>3
<1>3. QED
  BY <1>1, <1>2

LEMMA FreshIsNotQueued ==
    ASSUME TypeOK, QueueInv, NEW d \in Delivery, ~Queued(d),
           jobs' = Append(jobs, d)
    PROVE  \A i, j \in 1..Len(jobs') : jobs'[i] = jobs'[j] => i = j
<1> SUFFICES ASSUME NEW i \in 1..Len(jobs'), NEW j \in 1..Len(jobs'),
                    jobs'[i] = jobs'[j]
             PROVE  i = j
  OBVIOUS
<1>1. /\ Len(jobs) \in Nat /\ Len(jobs') = Len(jobs) + 1
      /\ jobs'[Len(jobs) + 1] = d
      /\ \A k \in 1..Len(jobs) : jobs'[k] = jobs[k] /\ jobs[k] # d
  BY AppendQueues DEF TypeOK, Queued
<1>2. (i \in 1..Len(jobs) \/ i = Len(jobs) + 1) /\ (j \in 1..Len(jobs) \/ j = Len(jobs) + 1)
  BY <1>1
<1>3. QED
  BY <1>1, <1>2 DEF QueueInv

LEMMA TakeUnqueues ==
    ASSUME TypeOK, QueueInv, jobs # <<>>, jobs' = Tail(jobs)
    PROVE  /\ jobs' \in Seq(Delivery)
           /\ Head(jobs) \in Delivery /\ Queued(Head(jobs))
           /\ \A e : Queued(e)' => Queued(e) /\ e # Head(jobs)
           /\ \A e : Queued(e) => Queued(e)' \/ e = Head(jobs)
           /\ \A i, j \in 1..Len(jobs') : jobs'[i] = jobs'[j] => i = j
<1> USE DEF TypeOK
<1>1. /\ jobs' \in Seq(Delivery) /\ Len(jobs') = Len(jobs) - 1
      /\ Head(jobs) = jobs[1] /\ Len(jobs) \in Nat \ {0}
      /\ \A i \in 1..Len(jobs') : jobs'[i] = jobs[i + 1]
  OBVIOUS
<1>2. Head(jobs) \in Delivery /\ Queued(Head(jobs))
  BY <1>1 DEF Queued
<1>3. \A i, j \in 1..Len(jobs') : jobs'[i] = jobs'[j] => i = j
  <2> SUFFICES ASSUME NEW i \in 1..Len(jobs'), NEW j \in 1..Len(jobs'),
                      jobs'[i] = jobs'[j]
               PROVE  i = j
    OBVIOUS
  <2>1. i + 1 \in 1..Len(jobs) /\ j + 1 \in 1..Len(jobs)
    BY <1>1
  <2>2. QED
    BY <1>1, <2>1 DEF QueueInv
<1>4. ASSUME NEW e, Queued(e)' PROVE Queued(e) /\ e # Head(jobs)
  <2>1. PICK i \in 1..Len(jobs') : jobs'[i] = e
    BY <1>4 DEF Queued
  <2>2. i + 1 \in 1..Len(jobs) /\ 1 \in 1..Len(jobs) /\ i + 1 # 1
    BY <1>1
  <2>3. QED
    BY <1>1, <2>1, <2>2 DEF Queued, QueueInv
<1>5. ASSUME NEW e, Queued(e), e # Head(jobs) PROVE Queued(e)'
  <2>1. PICK i \in 1..Len(jobs) : jobs[i] = e
    BY <1>5 DEF Queued
  <2>2. i - 1 \in 1..Len(jobs') /\ (i - 1) + 1 = i
    BY <1>1, <1>5, <2>1
  <2>3. jobs'[i - 1] = e
    BY <1>1, <2>1, <2>2
  <2>4. QED
    BY <2>2, <2>3 DEF Queued
<1>6. QED
  BY <1>1, <1>2, <1>3, <1>4, <1>5

LEMMA EmptyUnqueues ==
    ASSUME jobs' = <<>>
    PROVE  /\ jobs' \in Seq(Delivery)
           /\ \A e : ~Queued(e)'
           /\ \A i, j \in 1..Len(jobs') : jobs'[i] = jobs'[j] => i = j
BY DEF Queued

(* Reserved rows stay apart when no row becomes a reserved one, nor the    *)
(* time of receipt of one is changed.                                      *)
LEMMA ReservedStaysApart ==
    ASSUME ReservedOnce,
           \A d \in Delivery : Reserved(d)' => Reserved(d) /\ received'[d] = received[d]
    PROVE  ReservedOnce'
<1> SUFFICES ASSUME NEW d \in Delivery, NEW e \in Delivery, d # e,
                    Reserved(d)', Reserved(e)', SameReplayKey(d, e)'
             PROVE  FALSE
  BY DEF ReservedOnce
<1>1. SameReplayKey(d, e)
  BY DEF SameReplayKey, Bucket
<1>2. QED
  BY <1>1 DEF ReservedOnce

----------------------------------------------------------------------------
(* One step of each kind keeps the invariant. *)

(* A request comes in, to be reserved. *)
LEMMA ReceiveStep ==
    ASSUME DeliveryInv, NEW d \in Delivery, Receive(d)
    PROVE  DeliveryInv'
<1> USE WebhookAssumption DEF DeliveryInv
<1>0. /\ work[d].stage = "idle"
      /\ work' = [work EXCEPT ![d] = [stage |-> "reserving", outcome |-> "none"]]
      /\ received' = [received EXCEPT ![d] = now]
      /\ UNCHANGED <<now, row, hand, jobs, open, tried, lost, hits>>
  BY DEF Receive, At, Moves
<1>q. \A e : Queued(e)' <=> Queued(e)
  BY <1>0 DEF Queued
<1>1. TypeOK'
  <2>1. work' \in [Actor -> [stage : Stage, outcome : Outcome]]
    BY <1>0 DEF TypeOK, Stage, Outcome
  <2>2. row' \in [Delivery -> Outcome] /\ lost' \subseteq Delivery
    BY <1>0 DEF TypeOK
  <2>3. jobs' \in Seq(Delivery) /\ hand' \in Delivery \cup {NoJob}
    BY <1>0 DEF TypeOK
  <2>4. /\ now' \in Nat /\ hits' \in Nat /\ open' \in BOOLEAN
        /\ received' \in [Delivery -> Nat] /\ tried' \in [Delivery -> Nat]
    BY <1>0 DEF TypeOK
  <2>5. QED
    BY <2>1, <2>2, <2>3, <2>4 DEF TypeOK
<1>2. HandlerInv'
  BY <1>0, <1>q DEF HandlerInv, Held, Reserved
<1>3. WorkerInv'
  BY <1>0 DEF WorkerInv
<1>4. QueueInv'
  BY <1>0, <1>q DEF QueueInv
<1>5. TriedOnce'
  BY <1>0 DEF TriedOnce
<1>6. HeldIsReserved'
  BY <1>0, <1>q DEF HeldIsReserved, Held, Reserved
<1>7. ReservedOnce'
  <2>1. \A e \in Delivery :
           Reserved(e)' => Reserved(e) /\ received'[e] = received[e]
    BY <1>0 DEF Reserved, HandlerInv
  <2>2. QED
    BY <2>1, ReservedStaysApart
<1>8. OutcomesTellTruth'
  BY <1>0, <1>q DEF OutcomesTellTruth, Truthful, Held
<1>9. QED
  BY <1>1, <1>2, <1>3, <1>4, <1>5, <1>6, <1>7, <1>8

(* A request comes in, and is denied. *)
LEMMA DenyStep ==
    ASSUME DeliveryInv, NEW d \in Delivery, Deny(d)
    PROVE  DeliveryInv'
<1> USE WebhookAssumption DEF DeliveryInv
<1>0. /\ work[d].stage = "idle"
      /\ work' = [work EXCEPT ![d] = [stage |-> "writing", outcome |-> "auth_failed"]]
      /\ received' = [received EXCEPT ![d] = now]
      /\ UNCHANGED <<now, row, hand, jobs, open, tried, lost, hits>>
  BY DEF Deny, At, Moves
<1>q. \A e : Queued(e)' <=> Queued(e)
  BY <1>0 DEF Queued
<1>1. TypeOK'
  <2>1. work' \in [Actor -> [stage : Stage, outcome : Outcome]]
    BY <1>0 DEF TypeOK, Stage, Outcome
  <2>2. row' \in [Delivery -> Outcome] /\ lost' \subseteq Delivery
    BY <1>0 DEF TypeOK
  <2>3. jobs' \in Seq(Delivery) /\ hand' \in Delivery \cup {NoJob}
    BY <1>0 DEF TypeOK
  <2>4. /\ now' \in Nat /\ hits' \in Nat /\ open' \in BOOLEAN
        /\ received' \in [Delivery -> Nat] /\ tried' \in [Delivery -> Nat]
    BY <1>0 DEF TypeOK
  <2>5. QED
    BY <2>1, <2>2, <2>3, <2>4 DEF TypeOK
<1>2. HandlerInv'
  BY <1>0, <1>q DEF HandlerInv, Held, Reserved, Written
<1>3. WorkerInv'
  BY <1>0 DEF WorkerInv
<1>4. QueueInv'
  BY <1>0, <1>q DEF QueueInv
<1>5. TriedOnce'
  BY <1>0 DEF TriedOnce
<1>6. HeldIsReserved'
  BY <1>0, <1>q DEF HeldIsReserved, Held, Reserved
<1>7. ReservedOnce'
  <2>1. \A e \in Delivery :
           Reserved(e)' => Reserved(e) /\ received'[e] = received[e]
    BY <1>0 DEF Reserved, HandlerInv
  <2>2. QED
    BY <2>1, ReservedStaysApart
<1>8. OutcomesTellTruth'
  BY <1>0, <1>q DEF OutcomesTellTruth, Truthful, Held, HandlerInv
<1>9. QED
  BY <1>1, <1>2, <1>3, <1>4, <1>5, <1>6, <1>7, <1>8

(* A reservation is refused. *)
LEMMA RefuseStep ==
    ASSUME DeliveryInv, NEW d \in Delivery, Reserve(d), row' = row
    PROVE  DeliveryInv'
<1> USE WebhookAssumption DEF DeliveryInv
<1>0. /\ work[d].stage = "reserving"
      /\ work' = [work EXCEPT ![d] = [stage |-> "done", outcome |-> "duplicate"]]
      /\ UNCHANGED <<now, received, row, hand, jobs, open, tried, lost, hits>>
  BY DEF Reserve, At, Moves, HandlerInv, TypeOK
<1>q. \A e : Queued(e)' <=> Queued(e)
  BY <1>0 DEF Queued
<1>1. TypeOK'
  <2>1. work' \in [Actor -> [stage : Stage, outcome : Outcome]]
    BY <1>0 DEF TypeOK, Stage, Outcome
  <2>2. row' \in [Delivery -> Outcome] /\ lost' \subseteq Delivery
    BY <1>0 DEF TypeOK
  <2>3. jobs' \in Seq(Delivery) /\ hand' \in Delivery \cup {NoJob}
    BY <1>0 DEF TypeOK
  <2>4. /\ now' \in Nat /\ hits' \in Nat /\ open' \in BOOLEAN
        /\ received' \in [Delivery -> Nat] /\ tried' \in [Delivery -> Nat]
    BY <1>0 DEF TypeOK
  <2>5. QED
    BY <2>1, <2>2, <2>3, <2>4 DEF TypeOK
<1>2. HandlerInv'
  BY <1>0, <1>q DEF HandlerInv, Held, Reserved
<1>3. WorkerInv'
  BY <1>0 DEF WorkerInv
<1>4. QueueInv'
  BY <1>0, <1>q DEF QueueInv
<1>5. TriedOnce'
  BY <1>0 DEF TriedOnce
<1>6. HeldIsReserved'
  BY <1>0, <1>q DEF HeldIsReserved, Held, Reserved
<1>7. ReservedOnce'
  <2>1. \A e \in Delivery :
           Reserved(e)' => Reserved(e) /\ received'[e] = received[e]
    BY <1>0 DEF Reserved
  <2>2. QED
    BY <2>1, ReservedStaysApart
<1>8. OutcomesTellTruth'
  BY <1>0, <1>q DEF OutcomesTellTruth, Truthful, Held, HandlerInv
<1>9. QED
  BY <1>1, <1>2, <1>3, <1>4, <1>5, <1>6, <1>7, <1>8

(* A reservation is made. *)
LEMMA ReserveStep ==
    ASSUME DeliveryInv, NEW d \in Delivery, Reserve(d), row' # row
    PROVE  DeliveryInv'
<1> USE WebhookAssumption DEF DeliveryInv
<1>0. /\ work[d].stage = "reserving"
      /\ work' = [work EXCEPT ![d] = [stage |-> "matching", outcome |-> "none"]]
      /\ row' = [row EXCEPT ![d] = "received"]
      /\ \A e \in Delivery : Reserved(e) => ~SameReplayKey(d, e)
      /\ UNCHANGED <<now, received, hand, jobs, open, tried, lost, hits>>
  BY DEF Reserve, At, Moves
<1>q. \A e : Queued(e)' <=> Queued(e)
  BY <1>0 DEF Queued
<1>1. TypeOK'
  <2>1. work' \in [Actor -> [stage : Stage, outcome : Outcome]]
    BY <1>0 DEF TypeOK, Stage, Outcome
  <2>2. row' \in [Delivery -> Outcome] /\ lost' \subseteq Delivery
    BY <1>0 DEF TypeOK, Outcome
  <2>3. jobs' \in Seq(Delivery) /\ hand' \in Delivery \cup {NoJob}
    BY <1>0 DEF TypeOK
  <2>4. /\ now' \in Nat /\ hits' \in Nat /\ open' \in BOOLEAN
        /\ received' \in [Delivery -> Nat] /\ tried' \in [Delivery -> Nat]
    BY <1>0 DEF TypeOK
  <2>5. QED
    BY <2>1, <2>2, <2>3, <2>4 DEF TypeOK
<1>2. HandlerInv'
  BY <1>0, <1>q DEF TypeOK, Actor, HandlerInv, Held, Reserved
<1>3. WorkerInv'
  BY <1>0 DEF WorkerInv
<1>4. QueueInv'
  BY <1>0, <1>q DEF QueueInv
<1>5. TriedOnce'
  BY <1>0 DEF TriedOnce
<1>6. HeldIsReserved'
  BY <1>0, <1>q DEF HeldIsReserved, Held, Reserved
<1>7. ReservedOnce'
  <2> SUFFICES ASSUME NEW e \in Delivery, NEW f \in Delivery, e # f,
                      Reserved(e)', Reserved(f)', SameReplayKey(e, f)'
               PROVE  FALSE
    BY DEF ReservedOnce
  <2>1. SameReplayKey(e, f) /\ SameReplayKey(f, e)
    BY <1>0 DEF SameReplayKey, Bucket
  <2>2. (Reserved(e) \/ e = d) /\ (Reserved(f) \/ f = d)
    BY <1>0 DEF Reserved
  <2>3. QED
    BY <1>0, <2>1, <2>2 DEF ReservedOnce
<1>8. OutcomesTellTruth'
  BY <1>0, <1>q DEF OutcomesTellTruth, Truthful, Held
<1>9. QED
  BY <1>1, <1>2, <1>3, <1>4, <1>5, <1>6, <1>7, <1>8

(* The rule does not match. *)
LEMMA IgnoreStep ==
    ASSUME DeliveryInv, NEW d \in Delivery, Ignore(d)
    PROVE  DeliveryInv'
<1> USE WebhookAssumption DEF DeliveryInv
<1>0. /\ work[d].stage = "matching"
      /\ work' = [work EXCEPT ![d] = [stage |-> "writing", outcome |-> "ignored"]]
      /\ UNCHANGED <<now, received, row, hand, jobs, open, tried, lost, hits>>
  BY DEF Ignore, At, Moves
<1>q. \A e : Queued(e)' <=> Queued(e)
  BY <1>0 DEF Queued
<1>1. TypeOK'
  <2>1. work' \in [Actor -> [stage : Stage, outcome : Outcome]]
    BY <1>0 DEF TypeOK, Stage, Outcome
  <2>2. row' \in [Delivery -> Outcome] /\ lost' \subseteq Delivery
    BY <1>0 DEF TypeOK
  <2>3. jobs' \in Seq(Delivery) /\ hand' \in Delivery \cup {NoJob}
    BY <1>0 DEF TypeOK
  <2>4. /\ now' \in Nat /\ hits' \in Nat /\ open' \in BOOLEAN
        /\ received' \in [Delivery -> Nat] /\ tried' \in [Delivery -> Nat]
    BY <1>0 DEF TypeOK
  <2>5. QED
    BY <2>1, <2>2, <2>3, <2>4 DEF TypeOK
<1>2. HandlerInv'
  BY <1>0, <1>q DEF HandlerInv, Held, Reserved, Written
<1>3. WorkerInv'
  BY <1>0 DEF WorkerInv
<1>4. QueueInv'
  BY <1>0, <1>q DEF QueueInv
<1>5. TriedOnce'
  BY <1>0 DEF TriedOnce
<1>6. HeldIsReserved'
  BY <1>0, <1>q DEF HeldIsReserved, Held, Reserved
<1>7. ReservedOnce'
  <2>1. \A e \in Delivery :
           Reserved(e)' => Reserved(e) /\ received'[e] = received[e]
    BY <1>0 DEF Reserved
  <2>2. QED
    BY <2>1, ReservedStaysApart
<1>8. OutcomesTellTruth'
  BY <1>0, <1>q DEF OutcomesTellTruth, Truthful, Held, HandlerInv
<1>9. QED
  BY <1>1, <1>2, <1>3, <1>4, <1>5, <1>6, <1>7, <1>8

(* The handler dispatches by itself. *)
LEMMA DispatchInlineStep ==
    ASSUME DeliveryInv, NEW d \in Delivery, DispatchInline(d)
    PROVE  DeliveryInv'
<1> USE WebhookAssumption DEF DeliveryInv
<1>0. /\ work[d].stage = "matching"
      /\ work' = [work EXCEPT ![d] = [stage |-> "dispatching", outcome |-> "none"]]
      /\ UNCHANGED <<now, received, row, hand, jobs, open, tried, lost, hits>>
  BY DEF DispatchInline, At, Moves
<1>q. \A e : Queued(e)' <=> Queued(e)
  BY <1>0 DEF Queued
<1>1. TypeOK'
  <2>1. work' \in [Actor -> [stage : Stage, outcome : Outcome]]
    BY <1>0 DEF TypeOK, Stage, Outcome
  <2>2. row' \in [Delivery -> Outcome] /\ lost' \subseteq Delivery
    BY <1>0 DEF TypeOK
  <2>3. jobs' \in Seq(Delivery) /\ hand' \in Delivery \cup {NoJob}
    BY <1>0 DEF TypeOK
  <2>4. /\ now' \in Nat /\ hits' \in Nat /\ open' \in BOOLEAN
        /\ received' \in [Delivery -> Nat] /\ tried' \in [Delivery -> Nat]
    BY <1>0 DEF TypeOK
  <2>5. QED
    BY <2>1, <2>2, <2>3, <2>4 DEF TypeOK
<1>2. HandlerInv'
  BY <1>0, <1>q DEF HandlerInv, Held, Reserved
<1>3. WorkerInv'
  BY <1>0 DEF WorkerInv
<1>4. QueueInv'
  BY <1>0, <1>q DEF QueueInv
<1>5. TriedOnce'
  BY <1>0 DEF TriedOnce
<1>6. HeldIsReserved'
  BY <1>0, <1>q DEF HeldIsReserved, Held, Reserved
<1>7. ReservedOnce'
  <2>1. \A e \in Delivery :
           Reserved(e)' => Reserved(e) /\ received'[e] = received[e]
    BY <1>0 DEF Reserved
  <2>2. QED
    BY <2>1, ReservedStaysApart
<1>8. OutcomesTellTruth'
  BY <1>0, <1>q DEF OutcomesTellTruth, Truthful, Held
<1>9. QED
  BY <1>1, <1>2, <1>3, <1>4, <1>5, <1>6, <1>7, <1>8

(* The queue is full. *)
LEMMA RejectStep ==
    ASSUME DeliveryInv, NEW d \in Delivery, Enqueue(d), ~(Len(jobs) < Capacity)
    PROVE  DeliveryInv'
<1> USE WebhookAssumption DEF DeliveryInv
<1>0. /\ work[d].stage = "matching"
      /\ work' = [work EXCEPT ![d] = [stage |-> "writing", outcome |-> "backpressure"]]
      /\ UNCHANGED <<now, received, row, hand, jobs, open, tried, lost, hits>>
  BY DEF Enqueue, At, Moves
<1>q. \A e : Queued(e)' <=> Queued(e)
  BY <1>0 DEF Queued
<1>1. TypeOK'
  <2>1. work' \in [Actor -> [stage : Stage, outcome : Outcome]]
    BY <1>0 DEF TypeOK, Stage, Outcome
  <2>2. row' \in [Delivery -> Outcome] /\ lost' \subseteq Delivery
    BY <1>0 DEF TypeOK
  <2>3. jobs' \in Seq(Delivery) /\ hand' \in Delivery \cup {NoJob}
    BY <1>0 DEF TypeOK
  <2>4. /\ now' \in Nat /\ hits' \in Nat /\ open' \in BOOLEAN
        /\ received' \in [Delivery -> Nat] /\ tried' \in [Delivery -> Nat]
    BY <1>0 DEF TypeOK
  <2>5. QED
    BY <2>1, <2>2, <2>3, <2>4 DEF TypeOK
<1>2. HandlerInv'
  BY <1>0, <1>q DEF HandlerInv, Held, Reserved, Written
<1>3. WorkerInv'
  BY <1>0 DEF WorkerInv
<1>4. QueueInv'
  BY <1>0, <1>q DEF QueueInv
<1>5. TriedOnce'
  BY <1>0 DEF TriedOnce
<1>6. HeldIsReserved'
  BY <1>0, <1>q DEF HeldIsReserved, Held, Reserved
<1>7. ReservedOnce'
  <2>1. \A e \in Delivery :
           Reserved(e)' => Reserved(e) /\ received'[e] = received[e]
    BY <1>0 DEF Reserved
  <2>2. QED
    BY <2>1, ReservedStaysApart
<1>8. OutcomesTellTruth'
  BY <1>0, <1>q DEF OutcomesTellTruth, Truthful, Held, HandlerInv
<1>9. QED
  BY <1>1, <1>2, <1>3, <1>4, <1>5, <1>6, <1>7, <1>8

(* A job is queued. *)
LEMMA EnqueueStep ==
    ASSUME DeliveryInv, NEW d \in Delivery, Enqueue(d), Len(jobs) < Capacity
    PROVE  DeliveryInv'
<1> USE WebhookAssumption DEF DeliveryInv
<1>0. /\ work[d].stage = "matching"
      /\ work' = [work EXCEPT ![d] = [stage |-> "writing", outcome |-> "accepted"]]
      /\ jobs' = Append(jobs, d)
      /\ UNCHANGED <<now, received, row, hand, open, tried, lost, hits>>
  BY DEF Enqueue, At, Moves
<1>q. /\ jobs' \in Seq(Delivery)
      /\ \A e : Queued(e)' <=> Queued(e) \/ e = d
      /\ ~Queued(d)
  BY <1>0, AppendQueues DEF HandlerInv, Held
<1>r. \A i, j \in 1..Len(jobs') : jobs'[i] = jobs'[j] => i = j
  BY <1>0, <1>q, FreshIsNotQueued
<1>1. TypeOK'
  <2>1. work' \in [Actor -> [stage : Stage, outcome : Outcome]]
    BY <1>0 DEF TypeOK, Stage, Outcome
  <2>2. row' \in [Delivery -> Outcome] /\ lost' \subseteq Delivery
    BY <1>0 DEF TypeOK
  <2>3. jobs' \in Seq(Delivery) /\ hand' \in Delivery \cup {NoJob}
    BY <1>0 DEF TypeOK
  <2>4. /\ now' \in Nat /\ hits' \in Nat /\ open' \in BOOLEAN
        /\ received' \in [Delivery -> Nat] /\ tried' \in [Delivery -> Nat]
    BY <1>0 DEF TypeOK
  <2>5. QED
    BY <2>1, <2>2, <2>3, <2>4 DEF TypeOK
<1>2. HandlerInv'
  BY <1>0, <1>q DEF TypeOK, Actor, HandlerInv, Held, Reserved, Written
<1>3. WorkerInv'
  BY <1>0 DEF WorkerInv
<1>4. QueueInv'
  BY <1>0, <1>q, <1>r DEF QueueInv, HandlerInv, Held
<1>5. TriedOnce'
  BY <1>0 DEF TriedOnce
<1>6. HeldIsReserved'
  BY <1>0, <1>q DEF HeldIsReserved, Held, Reserved, HandlerInv
<1>7. ReservedOnce'
  <2>1. \A e \in Delivery :
           Reserved(e)' => Reserved(e) /\ received'[e] = received[e]
    BY <1>0 DEF Reserved
  <2>2. QED
    BY <2>1, ReservedStaysApart
<1>8. OutcomesTellTruth'
  BY <1>0, <1>q DEF OutcomesTellTruth, Truthful, Held, HandlerInv
<1>9. QED
  BY <1>1, <1>2, <1>3, <1>4, <1>5, <1>6, <1>7, <1>8

(* A handler dispatches. *)
LEMMA DispatchStep ==
    ASSUME DeliveryInv, NEW d \in Delivery, NEW o \in {"queued", "error"}, Dispatch(d), Moves(d, "writing", o)
    PROVE  DeliveryInv'
<1> USE WebhookAssumption DEF DeliveryInv
<1>0. /\ work[d].stage = "dispatching"
      /\ work' = [work EXCEPT ![d] = [stage |-> "writing", outcome |-> o]]
      /\ tried' = [tried EXCEPT ![d] = @ + 1]
      /\ UNCHANGED <<now, received, row, hand, jobs, open, lost, hits>>
  BY DEF Dispatch, At, Moves, Concerns
<1>q. \A e : Queued(e)' <=> Queued(e)
  BY <1>0 DEF Queued
<1>1. TypeOK'
  <2>1. work' \in [Actor -> [stage : Stage, outcome : Outcome]]
    BY <1>0 DEF TypeOK, Stage, Outcome
  <2>2. row' \in [Delivery -> Outcome] /\ lost' \subseteq Delivery
    BY <1>0 DEF TypeOK
  <2>3. jobs' \in Seq(Delivery) /\ hand' \in Delivery \cup {NoJob}
    BY <1>0 DEF TypeOK
  <2>4. /\ now' \in Nat /\ hits' \in Nat /\ open' \in BOOLEAN
        /\ received' \in [Delivery -> Nat] /\ tried' \in [Delivery -> Nat]
    BY <1>0 DEF TypeOK
  <2>5. QED
    BY <2>1, <2>2, <2>3, <2>4 DEF TypeOK
<1>2. HandlerInv'
  BY <1>0, <1>q DEF TypeOK, Actor, HandlerInv, Held, Reserved, Written
<1>3. WorkerInv'
  BY <1>0 DEF WorkerInv, HandlerInv, Held
<1>4. QueueInv'
  BY <1>0, <1>q DEF QueueInv, HandlerInv, Held
<1>5. TriedOnce'
  BY <1>0 DEF TriedOnce, HandlerInv
<1>6. HeldIsReserved'
  BY <1>0, <1>q DEF HeldIsReserved, Held, Reserved, HandlerInv
<1>7. ReservedOnce'
  <2>1. \A e \in Delivery :
           Reserved(e)' => Reserved(e) /\ received'[e] = received[e]
    BY <1>0 DEF Reserved
  <2>2. QED
    BY <2>1, ReservedStaysApart
<1>8. OutcomesTellTruth'
  BY <1>0, <1>q DEF TypeOK, OutcomesTellTruth, Truthful, Held, HandlerInv
<1>9. QED
  BY <1>1, <1>2, <1>3, <1>4, <1>5, <1>6, <1>7, <1>8

(* The worker dispatches. *)
LEMMA WorkerDispatchStep ==
    ASSUME DeliveryInv, NEW o \in {"queued", "error"}, Dispatch(Worker), Moves(Worker, "writing", o)
    PROVE  DeliveryInv'
<1> USE WebhookAssumption DEF DeliveryInv
<1>0. /\ work[Worker].stage = "dispatching" /\ hand \in Delivery
      /\ work' = [work EXCEPT ![Worker] = [stage |-> "writing", outcome |-> o]]
      /\ tried' = [tried EXCEPT ![hand] = @ + 1]
      /\ UNCHANGED <<now, received, row, hand, jobs, open, lost, hits>>
  BY DEF Dispatch, At, Moves, Concerns, WorkerInv, TypeOK
<1>q. \A e : Queued(e)' <=> Queued(e)
  BY <1>0 DEF Queued
<1>1. TypeOK'
  <2>1. work' \in [Actor -> [stage : Stage, outcome : Outcome]]
    BY <1>0 DEF TypeOK, Stage, Outcome
  <2>2. row' \in [Delivery -> Outcome] /\ lost' \subseteq Delivery
    BY <1>0 DEF TypeOK
  <2>3. jobs' \in Seq(Delivery) /\ hand' \in Delivery \cup {NoJob}
    BY <1>0 DEF TypeOK
  <2>4. /\ now' \in Nat /\ hits' \in Nat /\ open' \in BOOLEAN
        /\ received' \in [Delivery -> Nat] /\ tried' \in [Delivery -> Nat]
    BY <1>0 DEF TypeOK
  <2>5. QED
    BY <2>1, <2>2, <2>3, <2>4 DEF TypeOK
<1>2. HandlerInv'
  BY <1>0, <1>q DEF HandlerInv, Held, Reserved
<1>3. WorkerInv'
  BY <1>0 DEF TypeOK, Actor, WorkerInv
<1>4. QueueInv'
  BY <1>0, <1>q DEF QueueInv
<1>5. TriedOnce'
  BY <1>0 DEF TriedOnce, WorkerInv
<1>6. HeldIsReserved'
  BY <1>0, <1>q DEF HeldIsReserved, Held, Reserved
<1>7. ReservedOnce'
  <2>1. \A e \in Delivery :
           Reserved(e)' => Reserved(e) /\ received'[e] = received[e]
    BY <1>0 DEF Reserved
  <2>2. QED
    BY <2>1, ReservedStaysApart
<1>8. OutcomesTellTruth'
  BY <1>0, <1>q DEF OutcomesTellTruth, Truthful, Held, WorkerInv
<1>9. QED
  BY <1>1, <1>2, <1>3, <1>4, <1>5, <1>6, <1>7, <1>8

(* A handler writes the outcome, and is through. *)
LEMMA RecordStep ==
    ASSUME DeliveryInv, NEW d \in Delivery, Record(d)
    PROVE  DeliveryInv'
<1> USE WebhookAssumption DEF DeliveryInv
<1>0. /\ work[d].stage = "writing"
      /\ work' = [work EXCEPT ![d] = [stage |-> "done", outcome |-> work[d].outcome]]
      /\ row' = [row EXCEPT ![d] = work[d].outcome]
      /\ UNCHANGED <<now, received, hand, jobs, open, tried, lost, hits>>
  BY DEF Record, Stored, Ends, At, Moves, Concerns
<1>q. \A e : Queued(e)' <=> Queued(e)
  BY <1>0 DEF Queued
<1>1. TypeOK'
  <2>1. work' \in [Actor -> [stage : Stage, outcome : Outcome]]
    BY <1>0 DEF TypeOK, Stage
  <2>2. row' \in [Delivery -> Outcome] /\ lost' \subseteq Delivery
    BY <1>0 DEF TypeOK, Actor
  <2>3. jobs' \in Seq(Delivery) /\ hand' \in Delivery \cup {NoJob}
    BY <1>0 DEF TypeOK
  <2>4. /\ now' \in Nat /\ hits' \in Nat /\ open' \in BOOLEAN
        /\ received' \in [Delivery -> Nat] /\ tried' \in [Delivery -> Nat]
    BY <1>0 DEF TypeOK
  <2>5. QED
    BY <2>1, <2>2, <2>3, <2>4 DEF TypeOK
<1>2. HandlerInv'
  BY <1>0, <1>q DEF TypeOK, Actor, HandlerInv, Held, Reserved
<1>3. WorkerInv'
  BY <1>0 DEF WorkerInv
<1>4. QueueInv'
  BY <1>0, <1>q DEF QueueInv
<1>5. TriedOnce'
  BY <1>0 DEF TriedOnce
<1>6. HeldIsReserved'
  BY <1>0, <1>q DEF HeldIsReserved, Held, Reserved, HandlerInv, Written
<1>7. ReservedOnce'
  <2>1. \A e \in Delivery :
           Reserved(e)' => Reserved(e) /\ received'[e] = received[e]
    BY <1>0 DEF Reserved, HandlerInv
  <2>2. QED
    BY <2>1, ReservedStaysApart
<1>8. OutcomesTellTruth'
  BY <1>0, <1>q DEF OutcomesTellTruth, Truthful, Held
<1>9. QED
  BY <1>1, <1>2, <1>3, <1>4, <1>5, <1>6, <1>7, <1>8

(* The worker writes the outcome, and is free. *)
LEMMA WorkerRecordStep ==
    ASSUME DeliveryInv, Record(Worker)
    PROVE  DeliveryInv'
<1> USE WebhookAssumption DEF DeliveryInv
<1>0. /\ work[Worker].stage = "writing" /\ hand \in Delivery
      /\ work' = [work EXCEPT ![Worker] = Idle] /\ hand' = NoJob
      /\ row' = [row EXCEPT ![hand] = work[Worker].outcome]
      /\ UNCHANGED <<now, received, jobs, open, tried, lost, hits>>
  BY DEF Record, Stored, Ends, At, Concerns, WorkerInv, TypeOK
<1>q. \A e : Queued(e)' <=> Queued(e)
  BY <1>0 DEF Queued
<1>1. TypeOK'
  <2>1. work' \in [Actor -> [stage : Stage, outcome : Outcome]]
    BY <1>0 DEF TypeOK, Stage, Outcome, Idle
  <2>2. row' \in [Delivery -> Outcome] /\ lost' \subseteq Delivery
    BY <1>0 DEF TypeOK, Actor
  <2>3. jobs' \in Seq(Delivery) /\ hand' \in Delivery \cup {NoJob}
    BY <1>0 DEF TypeOK
  <2>4. /\ now' \in Nat /\ hits' \in Nat /\ open' \in BOOLEAN
        /\ received' \in [Delivery -> Nat] /\ tried' \in [Delivery -> Nat]
    BY <1>0 DEF TypeOK
  <2>5. QED
    BY <2>1, <2>2, <2>3, <2>4 DEF TypeOK
<1>2. HandlerInv'
  BY <1>0, <1>q DEF HandlerInv, WorkerInv, Held, Reserved, Written,
                    HeldIsReserved
<1>3. WorkerInv'
  BY <1>0 DEF TypeOK, Actor, Idle, WorkerInv
<1>4. QueueInv'
  BY <1>0, <1>q DEF QueueInv
<1>5. TriedOnce'
  BY <1>0 DEF TriedOnce
<1>6. HeldIsReserved'
  BY <1>0, <1>q DEF HeldIsReserved, Held, Reserved, WorkerInv
<1>7. ReservedOnce'
  <2>1. \A e \in Delivery :
           Reserved(e)' => Reserved(e) /\ received'[e] = received[e]
    BY <1>0 DEF Reserved, WorkerInv, HeldIsReserved
  <2>2. QED
    BY <2>1, ReservedStaysApart
<1>8. OutcomesTellTruth'
  BY <1>0, <1>q DEF OutcomesTellTruth, Truthful, Held, WorkerInv
<1>9. QED
  BY <1>1, <1>2, <1>3, <1>4, <1>5, <1>6, <1>7, <1>8

(* The worker takes a job. *)
LEMMA TakeJobStep ==
    ASSUME DeliveryInv, TakeJob
    PROVE  DeliveryInv'
<1> USE WebhookAssumption DEF DeliveryInv
<1>0. /\ work[Worker].stage = "idle" /\ jobs # <<>>
      /\ work' = [work EXCEPT ![Worker] = [stage |-> "dispatching", outcome |-> "none"]]
      /\ hand' = Head(jobs) /\ jobs' = Tail(jobs)
      /\ UNCHANGED <<now, received, row, open, tried, lost, hits>>
  BY DEF TakeJob, At, Moves
<1>q. /\ jobs' \in Seq(Delivery)
      /\ Head(jobs) \in Delivery /\ Queued(Head(jobs))
      /\ \A e : Queued(e)' => Queued(e) /\ e # Head(jobs)
      /\ \A e : Queued(e) => Queued(e)' \/ e = Head(jobs)
      /\ \A i, j \in 1..Len(jobs') : jobs'[i] = jobs'[j] => i = j
  BY <1>0, TakeUnqueues
<1>1. TypeOK'
  <2>1. work' \in [Actor -> [stage : Stage, outcome : Outcome]]
    BY <1>0 DEF TypeOK, Stage, Outcome
  <2>2. row' \in [Delivery -> Outcome] /\ lost' \subseteq Delivery
    BY <1>0 DEF TypeOK
  <2>3. jobs' \in Seq(Delivery) /\ hand' \in Delivery \cup {NoJob}
    BY <1>0, <1>q
  <2>4. /\ now' \in Nat /\ hits' \in Nat /\ open' \in BOOLEAN
        /\ received' \in [Delivery -> Nat] /\ tried' \in [Delivery -> Nat]
    BY <1>0 DEF TypeOK
  <2>5. QED
    BY <2>1, <2>2, <2>3, <2>4 DEF TypeOK
<1>2. HandlerInv'
  BY <1>0, <1>q DEF HandlerInv, Held, Reserved
<1>3. WorkerInv'
  BY <1>0, <1>q DEF TypeOK, Actor, WorkerInv, QueueInv
<1>4. QueueInv'
  BY <1>0, <1>q DEF QueueInv
<1>5. TriedOnce'
  BY <1>0 DEF TriedOnce
<1>6. HeldIsReserved'
  BY <1>0, <1>q DEF HeldIsReserved, Held, Reserved
<1>7. ReservedOnce'
  <2>1. \A e \in Delivery :
           Reserved(e)' => Reserved(e) /\ received'[e] = received[e]
    BY <1>0 DEF Reserved
  <2>2. QED
    BY <2>1, ReservedStaysApart
<1>8. OutcomesTellTruth'
  BY <1>0, <1>q DEF OutcomesTellTruth, Truthful, Held, WorkerInv
<1>9. QED
  BY <1>1, <1>2, <1>3, <1>4, <1>5, <1>6, <1>7, <1>8

(* A handler fails, before or without its write. *)
LEMMA FailStep ==
    ASSUME DeliveryInv, NEW d \in Delivery, Fail(d), UNCHANGED row
    PROVE  DeliveryInv'
<1> USE WebhookAssumption DEF DeliveryInv
<1>0. /\ work[d].stage \in {"reserving", "matching", "dispatching", "writing"}
      /\ work' = [work EXCEPT ![d] =
            [stage |-> "done", outcome |->
                IF work[d].outcome = "auth_failed" THEN "auth_failed" ELSE "failed"]]
      /\ hits' = hits + 1 /\ hits' \in Nat
      /\ UNCHANGED <<now, received, row, hand, jobs, open, tried, lost>>
  BY DEF Fail, Hit, Moves, Stage, TypeOK
<1>q. \A e : Queued(e)' <=> Queued(e)
  BY <1>0 DEF Queued
<1>1. TypeOK'
  <2>1. work' \in [Actor -> [stage : Stage, outcome : Outcome]]
    BY <1>0 DEF TypeOK, Stage, Outcome
  <2>2. row' \in [Delivery -> Outcome] /\ lost' \subseteq Delivery
    BY <1>0 DEF TypeOK
  <2>3. jobs' \in Seq(Delivery) /\ hand' \in Delivery \cup {NoJob}
    BY <1>0 DEF TypeOK
  <2>4. /\ now' \in Nat /\ hits' \in Nat /\ open' \in BOOLEAN
        /\ received' \in [Delivery -> Nat] /\ tried' \in [Delivery -> Nat]
    BY <1>0 DEF TypeOK
  <2>5. QED
    BY <2>1, <2>2, <2>3, <2>4 DEF TypeOK
<1>2. HandlerInv'
  BY <1>0, <1>q DEF HandlerInv, Held, Reserved
<1>3. WorkerInv'
  BY <1>0 DEF WorkerInv
<1>4. QueueInv'
  BY <1>0, <1>q DEF QueueInv
<1>5. TriedOnce'
  BY <1>0 DEF TriedOnce
<1>6. HeldIsReserved'
  BY <1>0, <1>q DEF HeldIsReserved, Held, Reserved
<1>7. ReservedOnce'
  <2>1. \A e \in Delivery :
           Reserved(e)' => Reserved(e) /\ received'[e] = received[e]
    BY <1>0 DEF Reserved
  <2>2. QED
    BY <2>1, ReservedStaysApart
<1>8. OutcomesTellTruth'
  BY <1>0, <1>q DEF OutcomesTellTruth, Truthful, Held
<1>9. QED
  BY <1>1, <1>2, <1>3, <1>4, <1>5, <1>6, <1>7, <1>8

(* A handler fails after its write. *)
LEMMA FailAfterWriteStep ==
    ASSUME DeliveryInv, NEW d \in Delivery, Fail(d), work[d].stage = "writing",
           row' = [row EXCEPT ![d] = work[d].outcome]
    PROVE  DeliveryInv'
<1> USE WebhookAssumption DEF DeliveryInv
<1>0. /\ work[d].stage = "writing"
      /\ work' = [work EXCEPT ![d] =
            [stage |-> "done", outcome |->
                IF work[d].outcome = "auth_failed" THEN "auth_failed" ELSE "failed"]]
      /\ row' = [row EXCEPT ![d] = work[d].outcome]
      /\ hits' = hits + 1 /\ hits' \in Nat
      /\ UNCHANGED <<now, received, hand, jobs, open, tried, lost>>
  BY DEF Fail, Hit, Moves, TypeOK
<1>q. \A e : Queued(e)' <=> Queued(e)
  BY <1>0 DEF Queued
<1>1. TypeOK'
  <2>1. work' \in [Actor -> [stage : Stage, outcome : Outcome]]
    BY <1>0 DEF TypeOK, Stage, Outcome
  <2>2. row' \in [Delivery -> Outcome] /\ lost' \subseteq Delivery
    BY <1>0 DEF TypeOK, Actor
  <2>3. jobs' \in Seq(Delivery) /\ hand' \in Delivery \cup {NoJob}
    BY <1>0 DEF TypeOK
  <2>4. /\ now' \in Nat /\ hits' \in Nat /\ open' \in BOOLEAN
        /\ received' \in [Delivery -> Nat] /\ tried' \in [Delivery -> Nat]
    BY <1>0 DEF TypeOK
  <2>5. QED
    BY <2>1, <2>2, <2>3, <2>4 DEF TypeOK
<1>2. HandlerInv'
  BY <1>0, <1>q DEF TypeOK, Actor, HandlerInv, Held, Reserved
<1>3. WorkerInv'
  BY <1>0 DEF WorkerInv
<1>4. QueueInv'
  BY <1>0, <1>q DEF QueueInv
<1>5. TriedOnce'
  BY <1>0 DEF TriedOnce
<1>6. HeldIsReserved'
  BY <1>0, <1>q DEF HeldIsReserved, Held, Reserved, HandlerInv, Written
<1>7. ReservedOnce'
  <2>1. \A e \in Delivery :
           Reserved(e)' => Reserved(e) /\ received'[e] = received[e]
    BY <1>0 DEF Reserved, HandlerInv
  <2>2. QED
    BY <2>1, ReservedStaysApart
<1>8. OutcomesTellTruth'
  BY <1>0, <1>q DEF OutcomesTellTruth, Truthful, Held
<1>9. QED
  BY <1>1, <1>2, <1>3, <1>4, <1>5, <1>6, <1>7, <1>8

(* A job fails before its write. *)
LEMMA WorkerFailsStep ==
    ASSUME DeliveryInv, WorkerFails, UNCHANGED row
    PROVE  DeliveryInv'
<1> USE WebhookAssumption DEF DeliveryInv
<1>0. /\ work[Worker].stage = "writing"
      /\ work' = [work EXCEPT ![Worker] = Idle] /\ hand' = NoJob
      /\ hits' = hits + 1 /\ hits' \in Nat
      /\ UNCHANGED <<now, received, row, jobs, open, tried, lost>>
  BY DEF WorkerFails, Hit, At, Ends, TypeOK
<1>q. \A e : Queued(e)' <=> Queued(e)
  BY <1>0 DEF Queued
<1>1. TypeOK'
  <2>1. work' \in [Actor -> [stage : Stage, outcome : Outcome]]
    BY <1>0 DEF TypeOK, Stage, Outcome, Idle
  <2>2. row' \in [Delivery -> Outcome] /\ lost' \subseteq Delivery
    BY <1>0 DEF TypeOK
  <2>3. jobs' \in Seq(Delivery) /\ hand' \in Delivery \cup {NoJob}
    BY <1>0 DEF TypeOK
  <2>4. /\ now' \in Nat /\ hits' \in Nat /\ open' \in BOOLEAN
        /\ received' \in [Delivery -> Nat] /\ tried' \in [Delivery -> Nat]
    BY <1>0 DEF TypeOK
  <2>5. QED
    BY <2>1, <2>2, <2>3, <2>4 DEF TypeOK
<1>2. HandlerInv'
  BY <1>0, <1>q DEF HandlerInv, Held, Reserved
<1>3. WorkerInv'
  BY <1>0 DEF TypeOK, Actor, Idle, WorkerInv
<1>4. QueueInv'
  BY <1>0, <1>q DEF QueueInv
<1>5. TriedOnce'
  BY <1>0 DEF TriedOnce
<1>6. HeldIsReserved'
  BY <1>0, <1>q DEF HeldIsReserved, Held, Reserved
<1>7. ReservedOnce'
  <2>1. \A e \in Delivery :
           Reserved(e)' => Reserved(e) /\ received'[e] = received[e]
    BY <1>0 DEF Reserved
  <2>2. QED
    BY <2>1, ReservedStaysApart
<1>8. OutcomesTellTruth'
  BY <1>0, <1>q DEF OutcomesTellTruth, Truthful, Held, WorkerInv
<1>9. QED
  BY <1>1, <1>2, <1>3, <1>4, <1>5, <1>6, <1>7, <1>8

(* A job fails after its write. *)
LEMMA WorkerFailsAfterWriteStep ==
    ASSUME DeliveryInv, WorkerFails, Stored(Worker)
    PROVE  DeliveryInv'
<1> USE WebhookAssumption DEF DeliveryInv
<1>0. /\ work[Worker].stage = "writing" /\ hand \in Delivery
      /\ work' = [work EXCEPT ![Worker] = Idle] /\ hand' = NoJob
      /\ row' = [row EXCEPT ![hand] = work[Worker].outcome]
      /\ hits' = hits + 1 /\ hits' \in Nat
      /\ UNCHANGED <<now, received, jobs, open, tried, lost>>
  BY DEF WorkerFails, Hit, At, Ends, Stored, Concerns, WorkerInv, TypeOK
<1>q. \A e : Queued(e)' <=> Queued(e)
  BY <1>0 DEF Queued
<1>1. TypeOK'
  <2>1. work' \in [Actor -> [stage : Stage, outcome : Outcome]]
    BY <1>0 DEF TypeOK, Stage, Outcome, Idle
  <2>2. row' \in [Delivery -> Outcome] /\ lost' \subseteq Delivery
    BY <1>0 DEF TypeOK, Actor
  <2>3. jobs' \in Seq(Delivery) /\ hand' \in Delivery \cup {NoJob}
    BY <1>0 DEF TypeOK
  <2>4. /\ now' \in Nat /\ hits' \in Nat /\ open' \in BOOLEAN
        /\ received' \in [Delivery -> Nat] /\ tried' \in [Delivery -> Nat]
    BY <1>0 DEF TypeOK
  <2>5. QED
    BY <2>1, <2>2, <2>3, <2>4 DEF TypeOK
<1>2. HandlerInv'
  BY <1>0, <1>q DEF HandlerInv, WorkerInv, Held, Reserved, Written,
                    HeldIsReserved
<1>3. WorkerInv'
  BY <1>0 DEF TypeOK, Actor, Idle, WorkerInv
<1>4. QueueInv'
  BY <1>0, <1>q DEF QueueInv
<1>5. TriedOnce'
  BY <1>0 DEF TriedOnce
<1>6. HeldIsReserved'
  BY <1>0, <1>q DEF HeldIsReserved, Held, Reserved, WorkerInv
<1>7. ReservedOnce'
  <2>1. \A e \in Delivery :
           Reserved(e)' => Reserved(e) /\ received'[e] = received[e]
    BY <1>0 DEF Reserved, WorkerInv, HeldIsReserved
  <2>2. QED
    BY <2>1, ReservedStaysApart
<1>8. OutcomesTellTruth'
  BY <1>0, <1>q DEF OutcomesTellTruth, Truthful, Held, WorkerInv
<1>9. QED
  BY <1>1, <1>2, <1>3, <1>4, <1>5, <1>6, <1>7, <1>8

(* The worker stops. *)
LEMMA ShutdownStep ==
    ASSUME DeliveryInv, Shutdown
    PROVE  DeliveryInv'
<1> USE WebhookAssumption DEF DeliveryInv
<1>0. /\ work[Worker].stage = "idle" /\ work' = work /\ open' = FALSE /\ jobs' = <<>>
      /\ lost' = lost \cup {d \in Delivery : Queued(d)}
      /\ hits' = hits + 1 /\ hits' \in Nat
      /\ UNCHANGED <<now, received, row, hand, tried>>
  BY DEF Shutdown, Hit, At, TypeOK
<1>q. /\ jobs' \in Seq(Delivery)
      /\ \A e : ~Queued(e)'
      /\ \A i, j \in 1..Len(jobs') : jobs'[i] = jobs'[j] => i = j
  BY <1>0, EmptyUnqueues
<1>1. TypeOK'
  <2>1. work' \in [Actor -> [stage : Stage, outcome : Outcome]]
    BY <1>0 DEF TypeOK
  <2>2. row' \in [Delivery -> Outcome] /\ lost' \subseteq Delivery
    BY <1>0 DEF TypeOK
  <2>3. jobs' \in Seq(Delivery) /\ hand' \in Delivery \cup {NoJob}
    BY <1>0 DEF TypeOK
  <2>4. /\ now' \in Nat /\ hits' \in Nat /\ open' \in BOOLEAN
        /\ received' \in [Delivery -> Nat] /\ tried' \in [Delivery -> Nat]
    BY <1>0 DEF TypeOK
  <2>5. QED
    BY <2>1, <2>2, <2>3, <2>4 DEF TypeOK
<1>2. HandlerInv'
  BY <1>0, <1>q DEF HandlerInv, Held, Reserved
<1>3. WorkerInv'
  BY <1>0 DEF WorkerInv
<1>4. QueueInv'
  BY <1>q DEF QueueInv
<1>5. TriedOnce'
  BY <1>0 DEF TriedOnce
<1>6. HeldIsReserved'
  BY <1>0, <1>q DEF HeldIsReserved, Held, Reserved
<1>7. ReservedOnce'
  <2>1. \A e \in Delivery :
           Reserved(e)' => Reserved(e) /\ received'[e] = received[e]
    BY <1>0 DEF Reserved
  <2>2. QED
    BY <2>1, ReservedStaysApart
<1>8. OutcomesTellTruth'
  BY <1>0, <1>q DEF OutcomesTellTruth, Truthful, Held
<1>9. QED
  BY <1>1, <1>2, <1>3, <1>4, <1>5, <1>6, <1>7, <1>8

(* The process starts again. *)
LEMMA RestartStep ==
    ASSUME DeliveryInv, Restart
    PROVE  DeliveryInv'
<1> USE WebhookAssumption DEF DeliveryInv
<1>0. /\ work' = [a \in Actor |->
            IF a = Worker \/ work[a].stage = "idle" THEN Idle
            ELSE IF work[a].stage = "done" THEN work[a]
            ELSE [stage |-> "done", outcome |-> "failed"]]
      /\ lost' = lost \cup {d \in Delivery : Queued(d) \/ hand = d}
      /\ hand' = NoJob /\ jobs' = <<>> /\ open' = TRUE
      /\ hits' = hits + 1 /\ hits' \in Nat
      /\ UNCHANGED <<now, received, row, tried>>
  BY DEF Restart, Hit, At, TypeOK
<1>q. /\ jobs' \in Seq(Delivery)
      /\ \A e : ~Queued(e)'
      /\ \A i, j \in 1..Len(jobs') : jobs'[i] = jobs'[j] => i = j
  BY <1>0, EmptyUnqueues
<1>1. TypeOK'
  <2>1. work' \in [Actor -> [stage : Stage, outcome : Outcome]]
    BY <1>0 DEF TypeOK, Stage, Outcome, Idle
  <2>2. row' \in [Delivery -> Outcome] /\ lost' \subseteq Delivery
    BY <1>0 DEF TypeOK
  <2>3. jobs' \in Seq(Delivery) /\ hand' \in Delivery \cup {NoJob}
    BY <1>0
  <2>4. /\ now' \in Nat /\ hits' \in Nat /\ open' \in BOOLEAN
        /\ received' \in [Delivery -> Nat] /\ tried' \in [Delivery -> Nat]
    BY <1>0 DEF TypeOK
  <2>5. QED
    BY <2>1, <2>2, <2>3, <2>4 DEF TypeOK
<1>2. HandlerInv'
  BY <1>0, <1>q DEF Actor, Idle, HandlerInv, Held
<1>3. WorkerInv'
  BY <1>0 DEF Actor, Idle, WorkerInv
<1>4. QueueInv'
  BY <1>q DEF QueueInv
<1>5. TriedOnce'
  BY <1>0 DEF TriedOnce
<1>6. HeldIsReserved'
  BY <1>0, <1>q DEF HeldIsReserved, Held, Reserved
<1>7. ReservedOnce'
  <2>1. \A e \in Delivery :
           Reserved(e)' => Reserved(e) /\ received'[e] = received[e]
    BY <1>0 DEF Reserved
  <2>2. QED
    BY <2>1, ReservedStaysApart
<1>8. OutcomesTellTruth'
  BY <1>0, <1>q DEF Actor, Idle, OutcomesTellTruth, Truthful, Held
<1>9. QED
  BY <1>1, <1>2, <1>3, <1>4, <1>5, <1>6, <1>7, <1>8

(* The clock goes on, or nothing does. *)
LEMMA QuietStep ==
    ASSUME DeliveryInv, Tick \/ UNCHANGED vars
    PROVE  DeliveryInv'
<1> USE WebhookAssumption DEF DeliveryInv
<1>0. /\ work' = work /\ now' \in Nat
      /\ UNCHANGED <<received, row, hand, jobs, open, tried, lost, hits>>
  BY DEF Tick, vars, TypeOK
<1>q. \A e : Queued(e)' <=> Queued(e)
  BY <1>0 DEF Queued
<1>1. TypeOK'
  <2>1. work' \in [Actor -> [stage : Stage, outcome : Outcome]]
    BY <1>0 DEF TypeOK
  <2>2. row' \in [Delivery -> Outcome] /\ lost' \subseteq Delivery
    BY <1>0 DEF TypeOK
  <2>3. jobs' \in Seq(Delivery) /\ hand' \in Delivery \cup {NoJob}
    BY <1>0 DEF TypeOK
  <2>4. /\ now' \in Nat /\ hits' \in Nat /\ open' \in BOOLEAN
        /\ received' \in [Delivery -> Nat] /\ tried' \in [Delivery -> Nat]
    BY <1>0 DEF TypeOK
  <2>5. QED
    BY <2>1, <2>2, <2>3, <2>4 DEF TypeOK
<1>2. HandlerInv'
  BY <1>0, <1>q DEF HandlerInv, Held, Reserved
<1>3. WorkerInv'
  BY <1>0 DEF WorkerInv
<1>4. QueueInv'
  BY <1>0, <1>q DEF QueueInv
<1>5. TriedOnce'
  BY <1>0 DEF TriedOnce
<1>6. HeldIsReserved'
  BY <1>0, <1>q DEF HeldIsReserved, Held, Reserved
<1>7. ReservedOnce'
  <2>1. \A e \in Delivery :
           Reserved(e)' => Reserved(e) /\ received'[e] = received[e]
    BY <1>0 DEF Reserved
  <2>2. QED
    BY <2>1, ReservedStaysApart
<1>8. OutcomesTellTruth'
  BY <1>0, <1>q DEF OutcomesTellTruth, Truthful, Held
<1>9. QED
  BY <1>1, <1>2, <1>3, <1>4, <1>5, <1>6, <1>7, <1>8

----------------------------------------------------------------------------
(* No delivery is anywhere before the first request. *)
LEMMA DeliveryInitInv == Init => DeliveryInv
<1> SUFFICES ASSUME Init PROVE DeliveryInv
  OBVIOUS
<1> USE WebhookAssumption DEF Init, Idle
<1>1. TypeOK
  BY DEF TypeOK, Actor, Stage, Outcome
<1>2. \A d : ~Queued(d)
  <2>1. jobs = <<>>
    OBVIOUS
  <2>2. QED
    BY ONLY <2>1 DEF Queued
<1>3. HandlerInv /\ WorkerInv /\ TriedOnce
  BY <1>2 DEF HandlerInv, WorkerInv, TriedOnce, Held, Actor, Written
<1>4. QueueInv /\ HeldIsReserved /\ ReservedOnce
  BY <1>2 DEF QueueInv, HeldIsReserved, ReservedOnce, Held, Reserved
<1>5. OutcomesTellTruth
  BY DEF OutcomesTellTruth, Truthful, Actor
<1>6. QED
  BY <1>1, <1>3, <1>4, <1>5 DEF DeliveryInv

(* What a handler does. *)
LEMMA HandlerStep ==
    ASSUME DeliveryInv, NEW d \in Delivery,
           Receive(d) \/ Deny(d) \/ Handle(d) \/ Both(d)
    PROVE  DeliveryInv'
<1>1. CASE Receive(d)
  BY <1>1, ReceiveStep
<1>2. CASE Deny(d)
  BY <1>2, DenyStep
<1>3. CASE Reserve(d)
  BY <1>3, RefuseStep, ReserveStep
<1>4. CASE Ignore(d)
  BY <1>4, IgnoreStep
<1>5. CASE DispatchInline(d)
  BY <1>5, DispatchInlineStep
<1>6. CASE Enqueue(d)
  BY <1>6, RejectStep, EnqueueStep
<1>7. CASE Dispatch(d)
  <2>1. PICK o \in {"queued", "error"} : Moves(d, "writing", o)
    BY <1>7 DEF Dispatch
  <2>2. QED
    BY <1>7, <2>1, DispatchStep
<1>8. CASE Record(d)
  BY <1>8, RecordStep
<1>9. QED
  BY <1>1, <1>2, <1>3, <1>4, <1>5, <1>6, <1>7, <1>8 DEF Handle, Both

(* What the worker does. *)
LEMMA WorkerStep ==
    ASSUME DeliveryInv, Both(Worker) \/ TakeJob
    PROVE  DeliveryInv'
<1>1. CASE Dispatch(Worker)
  <2>1. PICK o \in {"queued", "error"} : Moves(Worker, "writing", o)
    BY <1>1 DEF Dispatch
  <2>2. QED
    BY <1>1, <2>1, WorkerDispatchStep
<1>2. CASE Record(Worker)
  BY <1>2, WorkerRecordStep
<1>3. CASE TakeJob
  BY <1>3, TakeJobStep
<1>4. QED
  BY <1>1, <1>2, <1>3 DEF Both

(* What goes wrong. *)
LEMMA FaultStep ==
    ASSUME DeliveryInv,
           (\E d \in Delivery : Fail(d)) \/ WorkerFails \/ Shutdown \/ Restart
    PROVE  DeliveryInv'
<1>1. ASSUME NEW d \in Delivery, Fail(d)
      PROVE  DeliveryInv'
  <2>1. CASE UNCHANGED row
    BY <1>1, <2>1, FailStep
  <2>2. CASE work[d].stage = "writing" /\ Stored(d)
    <3>1. row' = [row EXCEPT ![d] = work[d].outcome]
      BY <2>2, WebhookAssumption DEF Stored, Concerns
    <3>2. QED
      BY <1>1, <2>2, <3>1, FailAfterWriteStep
  <2>3. QED
    BY <1>1, <2>1, <2>2 DEF Fail, At
<1>2. CASE WorkerFails
  <2>1. CASE UNCHANGED row
    BY <1>2, <2>1, WorkerFailsStep
  <2>2. CASE Stored(Worker)
    BY <1>2, <2>2, WorkerFailsAfterWriteStep
  <2>3. QED
    BY <1>2, <2>1, <2>2 DEF WorkerFails
<1>3. CASE Shutdown
  BY <1>3, ShutdownStep
<1>4. CASE Restart
  BY <1>4, RestartStep
<1>5. QED
  BY <1>1, <1>2, <1>3, <1>4

LEMMA DeliveryNextInv ==
    ASSUME DeliveryInv, [Next]_vars
    PROVE  DeliveryInv'
<1>1. CASE \E d \in Delivery : Receive(d) \/ Deny(d) \/ Handle(d)
  BY <1>1, HandlerStep
<1>2. CASE \E a \in Actor : Both(a)
  BY <1>2, HandlerStep, WorkerStep DEF Actor
<1>3. CASE TakeJob
  BY <1>3, WorkerStep
<1>4. CASE (\E d \in Delivery : Fail(d)) \/ WorkerFails \/ Shutdown \/ Restart
  BY <1>4, FaultStep
<1>5. CASE Tick \/ UNCHANGED vars
  BY <1>5, QuietStep
<1>6. QED
  BY <1>1, <1>2, <1>3, <1>4, <1>5 DEF Next

LEMMA DeliveryInvariant == Spec => []DeliveryInv
<1>1. DeliveryInv /\ [Next]_vars => DeliveryInv'
  BY DeliveryNextInv
<1>2. QED
  BY <1>1, DeliveryInitInv, PTL DEF Spec

----------------------------------------------------------------------------
(* The variables stay in their types. *)
THEOREM TypeCorrect == Spec => []TypeOK
<1>1. DeliveryInv => TypeOK
  BY DEF DeliveryInv
<1>2. QED
  BY <1>1, DeliveryInvariant, PTL

(* No delivery and no replay key is dispatched twice, by whatever          *)
(* interleaving of handlers, worker, failures and restarts                 *)
(* (reserve_webhook_event_once, dispatch_matched_event).                   *)
THEOREM NothingDispatchedTwice == Spec => []DispatchedOnce
<1>1. DeliveryInv => DispatchedOnce
  BY DEF DeliveryInv, DispatchedOnce, TriedOnce, HeldIsReserved, ReservedOnce
<1>2. QED
  BY <1>1, DeliveryInvariant, PTL

(* What a sender was told and what a row says of a delivery is so, and     *)
(* stays so (route_event, update_webhook_event_outcome).                   *)
THEOREM OutcomesStayTrue == Spec => []OutcomesTellTruth
<1>1. DeliveryInv => OutcomesTellTruth
  BY DEF DeliveryInv
<1>2. QED
  BY <1>1, DeliveryInvariant, PTL

----------------------------------------------------------------------------
(* Implementation of EventDelivery. *)

(* What is lost is in no hand and past its handler's decisions, and nothing *)
(* is received after the clock stops.                                      *)
LostIsGone ==
    \A d \in lost : ~Held(d) /\ work[d].stage \in {"writing", "done"}
InTime == now <= MaxTime /\ \A d \in Delivery : received[d] <= MaxTime

(* Replay keys as values.                                                  *)
LEMMA Division ==
    ASSUME NEW a \in Nat, NEW w \in Nat \ {0}
    PROVE  a \div w \in 0..a
OBVIOUS

LEMMA ReplayKeys ==
    ASSUME TypeOK, NEW d \in Delivery, NEW e \in Delivery
    PROVE  /\ SameReplayKey(d, e) <=> ReplayKeyOf(d) = ReplayKeyOf(e)
           /\ InTime => ReplayKeyOf(d) \in Key \X (-1..MaxTime)
<1>1. /\ Bucket(d) \in 0..received[d] /\ Bucket(e) \in 0..received[e]
      /\ received[d] \in Nat /\ received[e] \in Nat
  BY WebhookAssumption, Division DEF TypeOK, Bucket
<1>2. KeyOf[d] \in Key /\ KeyOf[e] \in Key
  BY WebhookAssumption
<1>3. SameReplayKey(d, e) <=> ReplayKeyOf(d) = ReplayKeyOf(e)
  BY <1>1 DEF SameReplayKey, ReplayKeyOf
<1>4. InTime => ReplayKeyOf(d) \in Key \X (-1..MaxTime)
  BY <1>1, <1>2, WebhookAssumption DEF InTime, ReplayKeyOf
<1> QED
  BY <1>3, <1>4

(* The fate of a delivery, state by state.                                 *)
LEMMA FateIs ==
    ASSUME NEW d \in Delivery, tried[d] \in Nat
    PROVE  /\ tried[d] > 0 => Fate(d) = "dispatched"
           /\ tried[d] = 0 /\ Held(d) => Fate(d) = "accepted"
           /\ tried[d] = 0 /\ ~Held(d) /\ d \in lost => Fate(d) = "lost"
           /\ tried[d] = 0 /\ ~Held(d) /\ d \notin lost =>
                 /\ work[d].stage \in {"idle", "reserving"} => Fate(d) = "new"
                 /\ work[d].stage \in {"matching", "dispatching"}
                       => Fate(d) = "admitted"
                 /\ work[d].stage \in {"writing", "done"} => Fate(d) = "refused"
BY DEF Fate

LEMMA FateWillBe ==
    ASSUME NEW d \in Delivery, tried'[d] \in Nat
    PROVE  /\ tried'[d] > 0 => Fate(d)' = "dispatched"
           /\ tried'[d] = 0 /\ Held(d)' => Fate(d)' = "accepted"
           /\ tried'[d] = 0 /\ ~Held(d)' /\ d \in lost' => Fate(d)' = "lost"
           /\ tried'[d] = 0 /\ ~Held(d)' /\ d \notin lost' =>
                 /\ work'[d].stage \in {"idle", "reserving"} => Fate(d)' = "new"
                 /\ work'[d].stage \in {"matching", "dispatching"}
                       => Fate(d)' = "admitted"
                 /\ work'[d].stage \in {"writing", "done"}
                       => Fate(d)' = "refused"
BY DEF Fate

(* It stays what it is when the stage stays of its kind.                   *)
SameKind(d) ==
    \/ work'[d].stage = work[d].stage
    \/ {work[d].stage, work'[d].stage} \subseteq {"idle", "reserving"}
    \/ {work[d].stage, work'[d].stage} \subseteq {"matching", "dispatching"}
    \/ {work[d].stage, work'[d].stage} \subseteq {"writing", "done"}

LEMMA FateStays ==
    ASSUME NEW d \in Delivery, tried[d] \in Nat, tried'[d] = tried[d],
           tried[d] > 0 \/ (Held(d)' <=> Held(d)),
           tried[d] > 0 \/ Held(d) \/ (d \in lost' <=> d \in lost),
           tried[d] > 0 \/ Held(d) \/ d \in lost \/ SameKind(d)
    PROVE  Fate(d)' = Fate(d)
BY DEF Fate, SameKind

LEMMA OneTurns ==
    ASSUME NEW d \in Delivery, NEW to, Fate(d)' = to,
           \A e \in Delivery \ {d} : Fate(e)' = Fate(e)
    PROVE  Fates' = [Fates EXCEPT ![d] = to] /\ Fates[d] = Fate(d)
BY DEF Fates

LEMMA NoneTurns ==
    ASSUME \A e \in Delivery : Fate(e)' = Fate(e)
    PROVE  Fates' = Fates
BY DEF Fates

LEMMA SpentStays ==
    ASSUME \A d \in Delivery : Reserved(d)' <=> Reserved(d),
           \A d \in Delivery : Reserved(d) => received'[d] = received[d]
    PROVE  Spent' = Spent
<1>1. \A d \in Delivery : Reserved(d) => ReplayKeyOf(d)' = ReplayKeyOf(d)
  BY DEF ReplayKeyOf, Bucket
<1> QED
  BY <1>1 DEF Spent

EventInv == DeliveryInv /\ LostIsGone /\ InTime

(* What a handler does to its own stage is nobody else's fate.             *)
LEMMA OthersStay ==
    ASSUME TypeOK, NEW d \in Delivery, UNCHANGED <<tried, hand, lost>>,
           \A e \in Delivery \ {d} : work'[e] = work[e],
           \A e \in Delivery \ {d} : Queued(e)' <=> Queued(e)
    PROVE  \A e \in Delivery \ {d} : Fate(e)' = Fate(e)
BY FateStays DEF TypeOK, Held, SameKind

(* Whoever is before the decision of its handler is in no hand.            *)
LEMMA Undecided ==
    ASSUME EventInv, NEW d \in Delivery,
           work[d].stage \in {"idle", "reserving", "matching", "dispatching"}
    PROVE  tried[d] = 0 /\ ~Held(d) /\ d \notin lost
BY DEF EventInv, DeliveryInv, HandlerInv, LostIsGone

(* A handler turns a delivery away.                                        *)
LEMMA Refusal ==
    ASSUME EventInv, NEW d \in Delivery, NEW to \in {"writing", "done"}, NEW o,
           work[d].stage \in {"idle", "reserving", "matching", "dispatching"},
           Moves(d, to, o), UNCHANGED <<row, tried, hand, lost, jobs>>,
           \/ received' = received
           \/ work[d].stage = "idle" /\ received' = [received EXCEPT ![d] = now]
    PROVE  Events!Refuse(d)
<1> USE DEF EventInv, DeliveryInv
<1>0. tried \in [Delivery -> Nat] /\ work \in [Actor -> [stage : Stage, outcome : Outcome]]
      /\ received \in [Delivery -> Nat] /\ d \in Actor
  BY DEF TypeOK, Actor
<1>1. /\ work'[d].stage = to /\ \A e \in Delivery \ {d} : work'[e] = work[e]
      /\ \A e \in Delivery : Queued(e)' <=> Queued(e)
  BY <1>0 DEF Moves, Actor, Queued
<1>2. tried[d] = 0 /\ ~Held(d) /\ d \notin lost
  BY Undecided
<1>3. Fate(d) \in {"new", "admitted"}
  BY <1>0, <1>2, FateIs
<1>4. Fate(d)' = "refused"
  BY <1>0, <1>1, <1>2, FateWillBe DEF Held
<1>5. Fates' = [Fates EXCEPT ![d] = "refused"] /\ Fates[d] = Fate(d)
  BY <1>1, <1>4, OthersStay, OneTurns
<1>6. Spent' = Spent
  BY <1>0, SpentStays DEF Reserved, HandlerInv
<1> QED
  BY <1>3, <1>5, <1>6 DEF Events!Refuse, Events!Becomes

(* A reservation spends the replay key.                                    *)
LEMMA Admission ==
    ASSUME EventInv, NEW d \in Delivery, Reserve(d), row' # row
    PROVE  Events!Admit(d)
<1> USE DEF EventInv, DeliveryInv
<1>0. /\ tried \in [Delivery -> Nat] /\ row \in [Delivery -> Outcome]
      /\ work \in [Actor -> [stage : Stage, outcome : Outcome]] /\ d \in Actor
  BY DEF TypeOK, Actor
<1>1. /\ work[d].stage = "reserving"
      /\ work' = [work EXCEPT ![d] = [stage |-> "matching", outcome |-> "none"]]
      /\ row' = [row EXCEPT ![d] = "received"]
      /\ \A e \in Delivery : Reserved(e) => ~SameReplayKey(d, e)
      /\ UNCHANGED <<now, received, hand, jobs, open, tried, lost, hits>>
  BY DEF Reserve, At, Moves
<1>2. /\ work'[d].stage = "matching" /\ \A e \in Delivery \ {d} : work'[e] = work[e]
      /\ \A e \in Delivery : Queued(e)' <=> Queued(e)
  BY <1>0, <1>1 DEF Actor, Queued
<1>3. tried[d] = 0 /\ ~Held(d) /\ d \notin lost
  BY <1>1, Undecided
<1>4. Fate(d) = "new" /\ Fate(d)' = "admitted"
  BY <1>0, <1>1, <1>2, <1>3, FateIs, FateWillBe DEF Held
<1>5. Fates' = [Fates EXCEPT ![d] = "admitted"] /\ Fates[d] = Fate(d)
  BY <1>1, <1>2, <1>4, OthersStay, OneTurns
<1>6. ReplayKeyOf(d) \in (Key \X (-1..MaxTime)) \ Spent
  BY <1>1, ReplayKeys DEF Spent
<1>7. Spent' = Spent \cup {ReplayKeyOf(d)}
  <2>1. \A e \in Delivery : ReplayKeyOf(e)' = ReplayKeyOf(e)
    BY <1>1 DEF ReplayKeyOf, Bucket
  <2>2. \A e \in Delivery : Reserved(e)' <=> Reserved(e) \/ e = d
    BY <1>0, <1>1 DEF Reserved
  <2> QED BY <2>1, <2>2 DEF Spent
<1> QED
  BY <1>1, <1>4, <1>5, <1>6, <1>7 DEF Events!Admit, Events!Becomes

(* A job is in the queue.                                                  *)
LEMMA Acceptance ==
    ASSUME EventInv, NEW d \in Delivery, work[d].stage = "matching",
           Moves(d, "writing", "accepted"), jobs' = Append(jobs, d),
           UNCHANGED <<received, row, hand, tried, lost>>
    PROVE  Events!Accept(d)
<1> USE DEF EventInv, DeliveryInv
<1>0. tried \in [Delivery -> Nat] /\ work \in [Actor -> [stage : Stage, outcome : Outcome]]
      /\ d \in Actor
  BY DEF TypeOK, Actor
<1>1. \A e \in Delivery \ {d} : work'[e] = work[e]
  BY <1>0 DEF Moves, Actor
<1>2. Queued(d)' /\ \A e \in Delivery \ {d} : Queued(e)' <=> Queued(e)
  BY AppendQueues
<1>3. Fate(d) = "admitted" /\ Fate(d)' = "accepted"
  BY <1>0, <1>2, Undecided, FateIs, FateWillBe DEF Held
<1>4. Fates' = [Fates EXCEPT ![d] = "accepted"] /\ Fates[d] = Fate(d)
  BY <1>1, <1>2, <1>3, OthersStay, OneTurns
<1>5. Spent' = Spent
  BY SpentStays DEF Reserved
<1> QED
  BY <1>3, <1>4, <1>5 DEF Events!Accept, Events!Becomes

(* A handler, or the worker, hands a delivery to the task queue.           *)
LEMMA HandOver ==
    ASSUME EventInv, NEW a \in Actor, Dispatch(a)
    PROVE  \E d \in Delivery : Events!Dispatch(d)
<1> USE WebhookAssumption DEF EventInv, DeliveryInv
<1>0. /\ tried \in [Delivery -> Nat] /\ hand \in Delivery \cup {NoJob}
      /\ work \in [Actor -> [stage : Stage, outcome : Outcome]]
      /\ work[a].stage = "dispatching"
      /\ UNCHANGED <<received, row, hand, jobs, lost>>
  BY DEF TypeOK, Dispatch, At
<1>1. PICK d \in Delivery : d = Concerns(a)
  BY <1>0 DEF Concerns, WorkerInv, Actor
<1>2. \A e \in Delivery \ {a} : work'[e] = work[e]
  BY <1>0 DEF Dispatch, Moves, Actor
<1>3. tried[d] = 0 /\ Fate(d) \in {"admitted", "accepted"}
  <2>1. CASE a = Worker
    <3>1. d = hand /\ tried[d] = 0 /\ Held(d)
      BY <1>0, <1>1, <2>1 DEF Concerns, WorkerInv, Held
    <3> QED BY <3>1, FateIs
  <2>2. CASE a # Worker
    <3>1. d = a
      BY <1>1, <2>2 DEF Concerns
    <3> QED BY <1>0, <3>1, Undecided, FateIs
  <2> QED BY <2>1, <2>2
<1>4. tried' = [tried EXCEPT ![d] = @ + 1] /\ tried'[d] = 1
  BY <1>0, <1>1, <1>3 DEF Dispatch
<1>5. Fate(d)' = "dispatched"
  BY <1>4, FateWillBe
<1>6. \A e \in Delivery \ {d} : Fate(e)' = Fate(e)
  <2> SUFFICES ASSUME NEW e \in Delivery \ {d} PROVE Fate(e)' = Fate(e)
    OBVIOUS
  <2>1. /\ work'[e] = work[e] /\ (Held(e)' <=> Held(e))
        /\ tried[e] \in Nat /\ tried'[e] = tried[e]
    BY <1>0, <1>1, <1>2, <1>4 DEF Concerns, Held, Queued
  <2> QED BY <1>0, <2>1, FateStays DEF SameKind
<1>7. Fates' = [Fates EXCEPT ![d] = "dispatched"] /\ Fates[d] = Fate(d)
  BY <1>5, <1>6, OneTurns
<1>8. Spent' = Spent
  BY <1>0, SpentStays DEF Reserved
<1> QED
  BY <1>3, <1>4, <1>7, <1>8 DEF Events!Dispatch, Events!Becomes

(* A handler goes on, or writes what was decided.                          *)
LEMMA HandlerGoesOn ==
    ASSUME EventInv, NEW d \in Delivery, NEW s, NEW o, Moves(d, s, o), SameKind(d),
           UNCHANGED <<tried, hand, lost, jobs>>,
           \/ row' = row /\ received' = received
           \/ row' = row /\ work[d].stage = "idle"
              /\ received' = [received EXCEPT ![d] = now]
           \/ work[d].stage = "writing" /\ Stored(d) /\ received' = received
    PROVE  UNCHANGED Events!vars
<1> USE WebhookAssumption DEF EventInv, DeliveryInv
<1>0. /\ tried \in [Delivery -> Nat] /\ received \in [Delivery -> Nat]
      /\ work \in [Actor -> [stage : Stage, outcome : Outcome]]
      /\ row \in [Delivery -> Outcome] /\ d \in Actor
  BY DEF TypeOK, Actor
<1>1. /\ \A e \in Delivery \ {d} : work'[e] = work[e]
      /\ \A e \in Delivery : Queued(e)' <=> Queued(e)
  BY <1>0 DEF Moves, Actor, Queued
<1>2. Fate(d)' = Fate(d)
  BY <1>0, <1>1, FateStays DEF Held
<1>3. Fates' = Fates
  BY <1>1, <1>2, OthersStay, NoneTurns
<1>4. Spent' = Spent
  <2>1. CASE row' = row
    BY <1>0, <2>1, SpentStays DEF Reserved, HandlerInv
  <2>2. CASE work[d].stage = "writing" /\ Stored(d) /\ received' = received
    <3>1. row' = [row EXCEPT ![d] = work[d].outcome]
      BY <2>2 DEF Stored, Concerns
    <3>2. \A e \in Delivery : Reserved(e)' <=> Reserved(e)
      BY <1>0, <2>2, <3>1 DEF Reserved, HandlerInv, Written
    <3> QED BY <2>2, <3>2, SpentStays
  <2> QED BY <2>1, <2>2
<1> QED
  BY <1>3, <1>4 DEF Events!vars

(* The worker takes a job, or is through with one.                         *)
LEMMA WorkerGoesOn ==
    ASSUME EventInv, UNCHANGED <<tried, lost, received>>,
           \A d \in Delivery : work'[d] = work[d],
           \/ TakeJob
           \/ /\ work[Worker].stage = "writing" /\ hand' = NoJob /\ jobs' = jobs
              /\ row' = row \/ Stored(Worker)
    PROVE  UNCHANGED Events!vars
<1> USE WebhookAssumption DEF EventInv, DeliveryInv
<1>0. /\ tried \in [Delivery -> Nat] /\ hand \in Delivery \cup {NoJob}
      /\ row \in [Delivery -> Outcome]
  BY DEF TypeOK
<1>1. CASE TakeJob
  <2>1. /\ jobs # <<>> /\ hand' = Head(jobs) /\ jobs' = Tail(jobs)
        /\ row' = row /\ hand = NoJob
    BY <1>1 DEF TakeJob, At, WorkerInv
  <2>2. \A d \in Delivery : Held(d)' <=> Held(d)
    BY <2>1, TakeUnqueues DEF Held
  <2>3. Fates' = Fates
    BY <1>0, <2>2, FateStays, NoneTurns DEF SameKind
  <2>4. Spent' = Spent
    BY <2>1, SpentStays DEF Reserved
  <2> QED BY <2>3, <2>4 DEF Events!vars
<1>2. CASE /\ work[Worker].stage = "writing" /\ hand' = NoJob /\ jobs' = jobs
           /\ row' = row \/ Stored(Worker)
  <2>1. /\ hand \in Delivery /\ tried[hand] = 1
        /\ work[Worker].outcome \in {"queued", "error"}
    BY <1>0, <1>2 DEF WorkerInv
  <2>2. \A d \in Delivery : d # hand => (Held(d)' <=> Held(d))
    BY <1>2 DEF Held, Queued
  <2>3. \A d \in Delivery : Fate(d)' = Fate(d)
    BY <1>0, <2>1, <2>2, FateStays DEF SameKind
  <2>4. Fates' = Fates
    BY <2>3, NoneTurns
  <2>5. row' = row \/ row' = [row EXCEPT ![hand] = work[Worker].outcome]
    BY <1>2 DEF Stored, Concerns
  <2>6. \A d \in Delivery : Reserved(d)' <=> Reserved(d)
    BY <1>0, <2>1, <2>5 DEF Reserved, HeldIsReserved
  <2>7. Spent' = Spent
    BY <2>6, SpentStays
  <2> QED BY <2>4, <2>7 DEF Events!vars
<1> QED
  BY <1>1, <1>2

(* The queue goes, with the worker or with the process.                    *)
LEMMA QueueGoes ==
    ASSUME EventInv, Shutdown \/ Restart
    PROVE  \E cut \in SUBSET Delivery : Events!Stop(cut)
<1> USE WebhookAssumption DEF EventInv, DeliveryInv
<1> DEFINE early == {"idle", "reserving", "matching", "dispatching"}
<1>0. /\ tried \in [Delivery -> Nat] /\ hand \in Delivery \cup {NoJob}
      /\ work \in [Actor -> [stage : Stage, outcome : Outcome]]
      /\ UNCHANGED <<received, row, tried>> /\ jobs' = <<>> /\ hand' = NoJob
  BY DEF TypeOK, Shutdown, Restart, At, WorkerInv
<1>1. \A d \in Delivery : ~Held(d)' /\ (d \in lost' <=> d \in lost \/ Held(d))
  <2>1. \A d \in Delivery : ~Held(d)'
    BY <1>0, EmptyUnqueues DEF Held
  <2>2. CASE Restart
    BY <2>1, <2>2 DEF Restart, Held
  <2>3. CASE Shutdown
    <3>1. hand = NoJob
      BY <2>3 DEF Shutdown, At, WorkerInv
    <3> QED BY <2>1, <2>3, <3>1 DEF Shutdown, Held
  <2> QED BY <2>2, <2>3
<1>2. PICK cut \in SUBSET Delivery :
         /\ \A d \in cut : work[d].stage \in early /\ work'[d].stage = "done"
         /\ \A d \in Delivery \ cut : SameKind(d)
  <2>1. CASE Shutdown
    <3>1. work' = work
      BY <2>1 DEF Shutdown
    <3> WITNESS {} \in SUBSET Delivery
    <3> QED BY <3>1 DEF SameKind
  <2>2. CASE Restart
    <3> DEFINE C == {d \in Delivery :
                       work[d].stage \in {"reserving", "matching", "dispatching"}}
    <3> WITNESS C \in SUBSET Delivery
    <3>1. \A d \in Delivery :
             work'[d] = IF work[d].stage = "idle" THEN Idle
                        ELSE IF work[d].stage = "done" THEN work[d]
                        ELSE [stage |-> "done", outcome |-> "failed"]
      BY <2>2 DEF Restart, Actor, At
    <3>2. \A d \in C : work[d].stage \in early /\ work'[d].stage = "done"
      BY <3>1
    <3>3. \A d \in Delivery \ C : work[d].stage \in {"idle", "writing", "done"}
      BY <1>0 DEF Actor, Stage
    <3>4. \A d \in Delivery \ C : SameKind(d)
      BY <3>1, <3>3 DEF SameKind, Idle
    <3> QED BY <3>2, <3>4
  <2> QED BY <2>1, <2>2
<1>3. \A d \in cut : Fate(d) \in {"new", "admitted"} /\ Fate(d)' = "refused"
  <2> SUFFICES ASSUME NEW d \in cut
               PROVE  Fate(d) \in {"new", "admitted"} /\ Fate(d)' = "refused"
    OBVIOUS
  <2>1. d \in Delivery /\ tried[d] = 0 /\ ~Held(d) /\ d \notin lost
    BY <1>2, Undecided
  <2>2. Fate(d) \in {"new", "admitted"}
    BY <1>2, <2>1, FateIs
  <2>3. Fate(d)' = "refused"
    BY <1>0, <1>1, <1>2, <2>1, FateWillBe
  <2> QED BY <2>2, <2>3
<1>4. \A d \in Delivery \ cut :
         Fate(d)' = IF Fate(d) = "accepted" THEN "lost" ELSE Fate(d)
  <2> SUFFICES ASSUME NEW d \in Delivery \ cut
               PROVE  Fate(d)' = IF Fate(d) = "accepted" THEN "lost" ELSE Fate(d)
    OBVIOUS
  <2>0. tried[d] \in Nat /\ tried'[d] = tried[d] /\ SameKind(d)
    BY <1>0, <1>2
  <2>1. CASE tried[d] > 0
    BY <2>0, <2>1, FateIs, FateWillBe
  <2>2. CASE tried[d] = 0 /\ Held(d)
    BY <1>1, <2>0, <2>2, FateIs, FateWillBe
  <2>3. CASE tried[d] = 0 /\ ~Held(d)
    <3>1. Fate(d)' = Fate(d)
      BY <1>1, <2>0, <2>3, FateStays
    <3>2. Fate(d) # "accepted"
      BY <2>3 DEF Fate
    <3> QED BY <3>1, <3>2
  <2> QED BY <2>0, <2>1, <2>2, <2>3
<1>5. Fates' = [d \in Delivery |-> IF d \in cut THEN "refused"
                                  ELSE IF Fates[d] = "accepted" THEN "lost"
                                  ELSE Fates[d]]
  BY <1>3, <1>4 DEF Fates
<1>6. \A d \in cut : Fates[d] \in {"new", "admitted"}
  BY <1>3 DEF Fates
<1>7. Spent' = Spent
  BY <1>0, SpentStays DEF Reserved
<1> QED
  BY <1>0, <1>5, <1>6, <1>7 DEF Events!Stop

LEMMA EventInitInv == Init => EventInv /\ Events!Init
<1> SUFFICES ASSUME Init PROVE EventInv /\ Events!Init
  OBVIOUS
<1>1. DeliveryInv
  BY DeliveryInitInv
<1>2. LostIsGone /\ InTime
  BY WebhookAssumption DEF Init, LostIsGone, InTime
<1>3. \A d \in Delivery : ~Held(d) /\ ~Reserved(d)
  BY <1>1 DEF Init, DeliveryInv, HandlerInv, Actor, Idle, Reserved
<1>4. \A d \in Delivery : Fate(d) = "new"
  BY <1>3, FateIs DEF Init, Actor, Idle
<1>5. Events!Init
  BY <1>3, <1>4 DEF Init, Events!Init, Fates, Spent
<1> QED
  BY <1>1, <1>2, <1>5 DEF EventInv

(* What is lost stays lost, and the clock does not pass its bound.         *)
LEMMA LostStep ==
    ASSUME EventInv, [Next]_vars
    PROVE  LostIsGone' /\ InTime'
<1> USE WebhookAssumption DEF EventInv, DeliveryInv
<1>0. /\ work \in [Actor -> [stage : Stage, outcome : Outcome]] /\ now \in Nat
      /\ received \in [Delivery -> Nat] /\ lost \subseteq Delivery
      /\ hand \in Delivery \cup {NoJob}
  BY DEF TypeOK
<1>1. ASSUME lost' = lost, now' = now \/ (now' = now + 1 /\ now < MaxTime),
             \/ received' = received
             \/ \E d \in Delivery : received' = [received EXCEPT ![d] = now],
             \A d \in lost : Held(d)' => Held(d),
             \A d \in lost : work'[d] = work[d] \/ work'[d].stage \in {"writing", "done"}
      PROVE  LostIsGone' /\ InTime'
  <2>1. LostIsGone'
    BY <1>0, <1>1 DEF LostIsGone
  <2>2. InTime'
    BY <1>0, <1>1 DEF InTime
  <2> QED BY <2>1, <2>2
<1>2. ASSUME NEW d \in Delivery, Receive(d) \/ Deny(d) \/ Reserve(d) \/ Ignore(d)
                                 \/ DispatchInline(d) \/ Enqueue(d)
      PROVE  LostIsGone' /\ InTime'
  <2>1. d \notin lost /\ lost' = lost /\ now' = now
    BY <1>2, Undecided DEF Receive, Deny, Reserve, Ignore, DispatchInline, Enqueue, At
  <2>2. \A e \in lost : work'[e] = work[e]
    BY <1>0, <1>2, <2>1
    DEF Receive, Deny, Reserve, Ignore, DispatchInline, Enqueue, Moves, Actor
  <2>3. \A e \in lost : Held(e)' => Held(e)
    <3>1. hand' = hand /\ (jobs' = jobs \/ jobs' = Append(jobs, d))
      BY <1>2 DEF Receive, Deny, Reserve, Ignore, DispatchInline, Enqueue
    <3>2. CASE jobs' = jobs
      BY <3>1, <3>2 DEF Held, Queued
    <3>3. CASE jobs' = Append(jobs, d)
      BY <2>1, <3>1, <3>3, AppendQueues DEF Held
    <3> QED BY <3>1, <3>2, <3>3
  <2>4. \/ received' = received
        \/ \E e \in Delivery : received' = [received EXCEPT ![e] = now]
    BY <1>2 DEF Receive, Deny, Reserve, Ignore, DispatchInline, Enqueue
  <2> QED BY <1>1, <2>1, <2>2, <2>3, <2>4
<1>3. ASSUME NEW a \in Actor, Dispatch(a) \/ Record(a) \/ (a \in Delivery /\ Fail(a))
      PROVE  LostIsGone' /\ InTime'
  <2>1. lost' = lost /\ now' = now /\ received' = received
    BY <1>3 DEF Dispatch, Record, Fail
  <2>2. \A e \in lost :
           work'[e] = work[e] \/ work'[e].stage \in {"writing", "done"}
    BY <1>0, <1>3 DEF Dispatch, Record, Ends, Fail, Moves, Actor
  <2>3. \A e \in lost : Held(e)' => Held(e)
    BY <1>0, <1>3 DEF Dispatch, Record, Ends, Fail, Held, Queued
  <2> QED BY <1>1, <2>1, <2>2, <2>3
<1>4. ASSUME TakeJob PROVE LostIsGone' /\ InTime'
  <2>1. /\ lost' = lost /\ now' = now /\ received' = received
        /\ jobs # <<>> /\ jobs' = Tail(jobs) /\ hand' = Head(jobs)
        /\ \A e \in lost : work'[e] = work[e]
    BY <1>0, <1>4 DEF TakeJob, Moves, Actor
  <2>2. \A e \in lost : Held(e)' => Held(e)
    BY <2>1, TakeUnqueues DEF Held
  <2> QED BY <1>1, <2>1, <2>2
<1>5. ASSUME WorkerFails PROVE LostIsGone' /\ InTime'
  <2>1. /\ lost' = lost /\ now' = now /\ received' = received
        /\ jobs' = jobs /\ hand' = NoJob
        /\ \A e \in lost : work'[e] = work[e]
    BY <1>0, <1>5 DEF WorkerFails, Ends, Actor
  <2>2. \A e \in lost : Held(e)' => Held(e)
    BY <1>0, <2>1 DEF Held, Queued
  <2> QED BY <1>1, <2>1, <2>2
<1>6. ASSUME Shutdown \/ Restart PROVE LostIsGone' /\ InTime'
  <2>1. jobs' = <<>> /\ hand' = NoJob /\ now' = now /\ received' = received
    BY <1>6 DEF Shutdown, Restart, At, WorkerInv
  <2>2. \A d \in Delivery : ~Held(d)'
    BY <2>1, EmptyUnqueues DEF Held
  <2>3. lost' \subseteq lost \cup {d \in Delivery : Held(d)}
    BY <1>6 DEF Shutdown, Restart, Held
  <2>4. \A d \in lost' : d \in Delivery /\ work[d].stage \in {"writing", "done"}
    BY <1>0, <2>3 DEF LostIsGone, HandlerInv, Stage, Actor
  <2>5. \A d \in lost' : work'[d].stage \in {"writing", "done"}
    BY <1>0, <1>6, <2>4 DEF Shutdown, Restart, Actor, At
  <2>6. LostIsGone'
    BY <1>0, <2>2, <2>3, <2>5 DEF LostIsGone
  <2> QED BY <2>1, <2>6 DEF InTime
<1>7. ASSUME Tick \/ UNCHANGED vars PROVE LostIsGone' /\ InTime'
  <2>1. \A e \in lost : Held(e)' => Held(e)
    BY <1>7 DEF Tick, vars, Held, Queued
  <2> QED BY <1>1, <1>7, <2>1 DEF Tick, vars
<1> QED
  BY <1>2, <1>3, <1>4, <1>5, <1>6, <1>7 DEF Next, Handle, Both, Actor

LEMMA EventStep ==
    ASSUME EventInv, [Next]_vars
    PROVE  [Events!Next]_(Events!vars)
<1> USE WebhookAssumption DEF EventInv, DeliveryInv
<1>0. /\ work \in [Actor -> [stage : Stage, outcome : Outcome]]
      /\ \A d \in Delivery : d \in Actor /\ d # Worker
  BY DEF TypeOK, Actor
<1>1. ASSUME NEW d \in Delivery, Receive(d) PROVE UNCHANGED Events!vars
  BY <1>0, <1>1, HandlerGoesOn DEF Receive, At, Moves, SameKind
<1>2. ASSUME NEW d \in Delivery, Deny(d) PROVE Events!Refuse(d)
  <2>1. /\ work[d].stage = "idle" /\ Moves(d, "writing", "auth_failed")
        /\ UNCHANGED <<row, tried, hand, lost, jobs>>
    BY <1>2 DEF Deny, At
  <2>2. \/ received' = received
        \/ work[d].stage = "idle" /\ received' = [received EXCEPT ![d] = now]
    BY <1>2 DEF Deny, At
  <2> HIDE <1>0 DEF DeliveryInv
  <2> QED BY <2>1, <2>2, Refusal
<1>3. ASSUME NEW d \in Delivery, Reserve(d) PROVE Events!Admit(d) \/ Events!Refuse(d)
  <2>1. CASE row' # row
    BY <1>3, <2>1, Admission
  <2>2. CASE row' = row
    <3>1. work[d].stage = "reserving" /\ Moves(d, "done", "duplicate")
      BY <1>3, <2>2 DEF Reserve, At, HandlerInv, TypeOK
    <3> QED BY <1>3, <2>2, <3>1, Refusal DEF Reserve
  <2> QED BY <2>1, <2>2
<1>4. ASSUME NEW d \in Delivery, Ignore(d) PROVE Events!Refuse(d)
  BY <1>4, Refusal DEF Ignore, At
<1>5. ASSUME NEW d \in Delivery, DispatchInline(d) PROVE UNCHANGED Events!vars
  BY <1>0, <1>5, HandlerGoesOn DEF DispatchInline, At, Moves, SameKind
<1>6. ASSUME NEW d \in Delivery, Enqueue(d)
      PROVE  Events!Accept(d) \/ Events!Refuse(d)
  <2>1. CASE Len(jobs) < Capacity
    BY <1>6, <2>1, Acceptance DEF Enqueue, At
  <2>2. CASE ~(Len(jobs) < Capacity)
    BY <1>6, <2>2, Refusal DEF Enqueue, At
  <2> QED BY <2>1, <2>2
<1>7. ASSUME NEW d \in Delivery, Record(d) PROVE UNCHANGED Events!vars
  <2>1. Moves(d, "done", work[d].outcome) /\ hand' = hand
    BY <1>0, <1>7 DEF Record, Ends
  <2>2. SameKind(d)
    BY <1>0, <1>7, <2>1 DEF Record, At, Moves, SameKind
  <2> QED BY <1>7, <2>1, <2>2, HandlerGoesOn DEF Record, At
<1>8. ASSUME NEW d \in Delivery, Fail(d)
      PROVE  UNCHANGED Events!vars \/ Events!Refuse(d)
  <2>1. PICK o : Moves(d, "done", o)
    BY <1>8 DEF Fail
  <2>2. CASE work[d].stage = "writing"
    <3>1. SameKind(d)
      BY <1>0, <2>1, <2>2 DEF Moves, SameKind
    <3> QED BY <1>8, <2>1, <2>2, <3>1, HandlerGoesOn DEF Fail, At
  <2>3. CASE work[d].stage # "writing"
    <3>1. work[d].stage \in {"reserving", "matching", "dispatching"}
      BY <1>8, <2>3 DEF Fail, Stage
    <3> QED BY <1>8, <2>1, <3>1, Refusal DEF Fail, At
  <2> QED BY <2>2, <2>3
<1>9. ASSUME Record(Worker) \/ WorkerFails \/ TakeJob PROVE UNCHANGED Events!vars
  <2>1. \A d \in Delivery : work'[d] = work[d]
    BY <1>0, <1>9 DEF Record, WorkerFails, TakeJob, Ends, Moves
  <2> QED BY <1>9, <2>1, WorkerGoesOn DEF Record, WorkerFails, TakeJob, Ends, At
<1>10. ASSUME Tick \/ UNCHANGED vars PROVE UNCHANGED Events!vars
  <2>1. \A d \in Delivery : Fate(d)' = Fate(d)
    BY <1>10 DEF Tick, vars, Fate, Held, Queued
  <2>2. Fates' = Fates
    BY <2>1, NoneTurns
  <2>3. Spent' = Spent
    BY <1>10, SpentStays DEF Tick, vars, Reserved
  <2> QED BY <1>10, <2>2, <2>3 DEF Tick, vars, Events!vars
<1> QED
  BY <1>1, <1>2, <1>3, <1>4, <1>5, <1>6, <1>7, <1>8, <1>9, <1>10, HandOver,
     QueueGoes DEF Next, Handle, Both, Actor, Events!Next

(* The source implements EventDelivery: refusals, hand-overs and losses    *)
(* are final, each admission spends a replay key of its own for good, and  *)
(* only the end of the worker or the process loses accepted deliveries;    *)
(* for any deliveries, keys, window, queue size and faults (route_event,   *)
(* reserve_webhook_event_once, spawn_webhook_dispatch_worker).             *)
THEOREM SourceImplementsEvents == Spec => EventSpec
<1>1. EventInv /\ [Next]_vars => EventInv'
  BY DeliveryNextInv, LostStep DEF EventInv
<1>2. EventInv /\ [Next]_vars => [Events!Next]_(Events!vars)
  BY EventStep
<1> QED
  BY <1>1, <1>2, EventInitInv, PTL DEF Spec, EventSpec, Events!Spec
=============================================================================
