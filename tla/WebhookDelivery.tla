--------------------------- MODULE WebhookDelivery ---------------------------
(* One webhook source: the deliveries of its sender, the table of events   *)
(* that says which of them were seen before, the dispatch queue in memory  *)
(* and the worker that turns its jobs into tasks                           *)
(* (channels/http/integration_api/webhooks.rs,                             *)
(* storage/repositories/webhooks.rs).                                      *)
(*                                                                         *)
(* A delivery is one HTTP request; a redelivery is another one with the    *)
(* same key.  Several handlers run at a time, with each other and with the *)
(* worker, and are interrupted at every await.                             *)
EXTENDS Integers, Sequences

CONSTANTS
    Delivery,   \* the requests
    Worker,     \* the dispatch worker
    NoJob,      \* what the worker holds when it is idle
    Key,        \* dedupe keys
    KeyOf,      \* the key of a delivery: of its delivery id, else of its body
    Durable,    \* the keys made of a delivery id
    Window,     \* dedupe_window_secs, in ticks
    Capacity,   \* of the dispatch queue
    MaxTime, MaxFaults

ASSUME WebhookAssumption ==
    /\ Worker \notin Delivery /\ NoJob \notin Delivery
    /\ KeyOf \in [Delivery -> Key]
    /\ Durable \subseteq Key
    /\ Window \in Nat \ {0} /\ Capacity \in Nat \ {0}
    /\ MaxTime \in Nat /\ MaxFaults \in Nat

VARIABLES
    now,        \* the clock
    received,   \* received_at of each delivery
    row,        \* outcome of its row in webhook_events, "none" without one
    work,       \* how far the handlers and the worker are, with what outcome
    hand,       \* the job the worker holds
    jobs,       \* the channel
    open,       \* the worker still receives
    tried,      \* history: how often a delivery was handed to the task queue
    lost,       \* history: the jobs that were dropped with the process
    hits        \* faults so far

vars == <<now, received, row, work, hand, jobs, open, tried, lost, hits>>

Actor == Delivery \cup {Worker}
Stage == {"idle", "reserving", "matching", "dispatching", "writing", "done"}
Outcome == {"none", "received", "accepted", "queued", "duplicate", "ignored",
            "backpressure", "auth_failed", "error", "failed"}

Idle == [stage |-> "idle", outcome |-> "none"]
At(a, s) == work[a].stage = s
Moves(a, s, o) == work' = [work EXCEPT ![a] = [stage |-> s, outcome |-> o]]

Concerns(a) == IF a = Worker THEN hand ELSE a
Queued(d) == \E i \in 1..Len(jobs) : jobs[i] = d

(* webhook_replay_idempotency_key: one for ever for a delivery id, else    *)
(* one per window.                                                         *)
Bucket(d) == received[d] \div Window
SameReplayKey(d, e) ==
    /\ KeyOf[d] = KeyOf[e]
    /\ KeyOf[d] \in Durable \/ Bucket(d) = Bucket(e)

(* Rows inserted under a replay key; append_event uses a key of its own.   *)
Reserved(d) == row[d] \notin {"none", "auth_failed"}

TypeOK ==
    /\ now \in Nat /\ hits \in Nat
    /\ received \in [Delivery -> Nat]
    /\ row \in [Delivery -> Outcome]
    /\ work \in [Actor -> [stage : Stage, outcome : Outcome]]
    /\ hand \in Delivery \cup {NoJob}
    /\ jobs \in Seq(Delivery)
    /\ open \in BOOLEAN
    /\ tried \in [Delivery -> Nat]
    /\ lost \subseteq Delivery

Init ==
    /\ now = 0 /\ hits = 0
    /\ received = [d \in Delivery |-> 0]
    /\ row = [d \in Delivery |-> "none"]
    /\ work = [a \in Actor |-> Idle]
    /\ hand = NoJob /\ jobs = <<>> /\ open = TRUE
    /\ tried = [d \in Delivery |-> 0]
    /\ lost = {}

----------------------------------------------------------------------------
(* A request. *)

(* handle_inbound_webhook up to the reservation, test_webhook_source: the  *)
(* time of receipt is taken before the transaction begins.  That a request *)
(* is a test shows only in the choice between DispatchInline and Enqueue.  *)
Receive(d) ==
    /\ At(d, "idle")
    /\ Moves(d, "reserving", "none")
    /\ received' = [received EXCEPT ![d] = now]
    /\ UNCHANGED <<now, row, hand, jobs, open, tried, lost, hits>>

(* verify_source_secret fails: a row is appended all the same. *)
Deny(d) ==
    /\ At(d, "idle")
    /\ Moves(d, "writing", "auth_failed")
    /\ received' = [received EXCEPT ![d] = now]
    /\ UNCHANGED <<now, row, hand, jobs, open, tried, lost, hits>>

(* Any row of the key that was received inside the window counts, whatever *)
(* became of it.                                                           *)
SeenInWindow(d) ==
    \E e \in Delivery : /\ row[e] # "none" /\ KeyOf[e] = KeyOf[d]
                        /\ received[e] >= now - Window

(* Mutant: the window is looked at, the unique index is not. *)
ReserveByWindow(d) ==
    /\ At(d, "reserving")
    /\ IF SeenInWindow(d)
       THEN Moves(d, "done", "duplicate") /\ UNCHANGED row
       ELSE Moves(d, "matching", "none") /\ row' = [row EXCEPT ![d] = "received"]
    /\ UNCHANGED <<now, received, hand, jobs, open, tried, lost, hits>>

(* reserve_webhook_event_once: one transaction under the advisory lock of  *)
(* the key; the unique index refuses a replay key that is taken.           *)
Reserve(d) ==
    /\ At(d, "reserving")
    /\ IF SeenInWindow(d) \/ \E e \in Delivery : Reserved(e) /\ SameReplayKey(d, e)
       THEN Moves(d, "done", "duplicate") /\ UNCHANGED row
       ELSE Moves(d, "matching", "none") /\ row' = [row EXCEPT ![d] = "received"]
    /\ UNCHANGED <<now, received, hand, jobs, open, tried, lost, hits>>

(* matches_rule says no. *)
Ignore(d) ==
    /\ At(d, "matching")
    /\ Moves(d, "writing", "ignored")
    /\ UNCHANGED <<now, received, row, hand, jobs, open, tried, lost, hits>>

(* A test event, or a queue that is closed: dispatched by the handler. *)
DispatchInline(d) ==
    /\ At(d, "matching")
    /\ Moves(d, "dispatching", "none")
    /\ UNCHANGED <<now, received, row, hand, jobs, open, tried, lost, hits>>

(* Mutant: the job of a delivery that is told to come back is kept. *)
EnqueueAnyway(d) ==
    /\ At(d, "matching") /\ open
    /\ jobs' = Append(jobs, d)
    /\ Moves(d, "writing", IF Len(jobs) < Capacity THEN "accepted" ELSE "backpressure")
    /\ UNCHANGED <<now, received, row, hand, open, tried, lost, hits>>

(* try_send: the job is out of the handler's hands before its row says so. *)
Enqueue(d) ==
    /\ At(d, "matching") /\ open
    /\ IF Len(jobs) < Capacity
       THEN jobs' = Append(jobs, d) /\ Moves(d, "writing", "accepted")
       ELSE Moves(d, "writing", "backpressure") /\ UNCHANGED jobs
    /\ UNCHANGED <<now, received, row, hand, open, tried, lost, hits>>

----------------------------------------------------------------------------
(* Handlers and the worker. *)

(* dispatch_matched_event: add_or_update_similar_task, which may fail. *)
Dispatch(a) ==
    /\ At(a, "dispatching")
    /\ tried' = [tried EXCEPT ![Concerns(a)] = @ + 1]
    /\ \E o \in {"queued", "error"} : Moves(a, "writing", o)
    /\ UNCHANGED <<now, received, row, hand, jobs, open, lost, hits>>

Stored(a) == row' = [row EXCEPT ![Concerns(a)] = work[a].outcome]

(* The actor is through: the handler has answered, the worker is free. *)
Ends(a, o) ==
    IF a = Worker
    THEN work' = [work EXCEPT ![Worker] = Idle] /\ hand' = NoJob
    ELSE Moves(a, "done", o) /\ UNCHANGED hand

(* update_webhook_event_outcome, append_event: without a look at the row.  *)
(* The state of the source follows (persist_source_runtime_state), which   *)
(* nobody decides on, and the answer.                                      *)
Record(a) ==
    /\ At(a, "writing")
    /\ Stored(a)
    /\ Ends(a, work[a].outcome)
    /\ UNCHANGED <<now, received, jobs, open, tried, lost, hits>>

(* Mutant: the worker takes all there is. *)
TakeAll ==
    /\ open /\ At(Worker, "idle") /\ jobs # <<>>
    /\ hand' = jobs
    /\ jobs' = <<>>
    /\ Moves(Worker, "dispatching", "none")
    /\ UNCHANGED <<now, received, row, open, tried, lost, hits>>

(* Mutant: the job stays in the queue while it is dispatched. *)
PeekJob ==
    /\ open /\ At(Worker, "idle") /\ jobs # <<>>
    /\ hand' = Head(jobs)
    /\ Moves(Worker, "dispatching", "none")
    /\ UNCHANGED <<now, received, row, jobs, open, tried, lost, hits>>

(* recv in spawn_webhook_dispatch_worker. *)
TakeJob ==
    /\ open /\ At(Worker, "idle") /\ jobs # <<>>
    /\ hand' = Head(jobs)
    /\ jobs' = Tail(jobs)
    /\ Moves(Worker, "dispatching", "none")
    /\ UNCHANGED <<now, received, row, open, tried, lost, hits>>

----------------------------------------------------------------------------
(* Faults. *)

Hit == hits < MaxFaults /\ hits' = hits + 1

(* A statement fails, or the sender hangs up and the handler is dropped at *)
(* an await.  The row may have been inserted or written by then.  The      *)
(* answer to a delivery that is denied does not depend on its writes.      *)
Fail(d) ==
    /\ Hit
    /\ work[d].stage \in Stage \ {"idle", "done"}
    /\ Moves(d, "done", IF work[d].outcome = "auth_failed" THEN "auth_failed"
                                                           ELSE "failed")
    /\ UNCHANGED row \/ (At(d, "writing") /\ Stored(d))
    /\ UNCHANGED <<now, received, hand, jobs, open, tried, lost>>

(* Mutant: an error ends the loop of the worker. *)
WorkerStops ==
    /\ Hit
    /\ At(Worker, "writing")
    /\ Ends(Worker, "none")
    /\ open' = FALSE
    /\ UNCHANGED <<now, received, row, jobs, tried, lost>>

(* process_webhook_dispatch_job returns an error, which is logged. *)
WorkerFails ==
    /\ Hit
    /\ At(Worker, "writing")
    /\ Ends(Worker, "none")
    /\ UNCHANGED row \/ Stored(Worker)
    /\ UNCHANGED <<now, received, jobs, open, tried, lost>>

(* The worker leaves its loop between two jobs; the channel goes with it.  *)
Shutdown ==
    /\ Hit /\ open /\ At(Worker, "idle")
    /\ open' = FALSE /\ jobs' = <<>>
    /\ lost' = lost \cup {d \in Delivery : Queued(d)}
    /\ UNCHANGED <<now, received, row, work, hand, tried>>

(* The process ends, and starts with an empty queue. *)
Restart ==
    /\ Hit
    /\ work' = [a \in Actor |->
                   IF a = Worker \/ At(a, "idle") THEN Idle
                   ELSE IF At(a, "done") THEN work[a]
                   ELSE [stage |-> "done", outcome |-> "failed"]]
    /\ lost' = lost \cup {d \in Delivery : Queued(d) \/ hand = d}
    /\ hand' = NoJob /\ jobs' = <<>> /\ open' = TRUE
    /\ UNCHANGED <<now, received, row, tried>>

Tick ==
    /\ now < MaxTime
    /\ now' = now + 1
    /\ UNCHANGED <<received, row, work, hand, jobs, open, tried, lost, hits>>

----------------------------------------------------------------------------
Handle(d) ==
    Reserve(d) \/ Ignore(d) \/ DispatchInline(d) \/ Enqueue(d)

Both(a) == Dispatch(a) \/ Record(a)

Next ==
    \/ \E d \in Delivery : Receive(d) \/ Deny(d) \/ Handle(d) \/ Fail(d)
    \/ \E a \in Actor : Both(a)
    \/ TakeJob \/ WorkerFails \/ Shutdown \/ Restart \/ Tick

Spec == Init /\ [][Next]_vars

(* The runtime polls every task that can go on, and PostgreSQL answers.    *)
(* Nothing is assumed of senders, of the clock and of faults.              *)
Fairness ==
    /\ \A d \in Delivery : WF_vars(Handle(d))
    /\ \A a \in Actor : WF_vars(Both(a))
    /\ WF_vars(TakeJob)

FairSpec == Spec /\ Fairness

----------------------------------------------------------------------------
(* An event is handed to the task queue at most once: whatever is          *)
(* delivered again, at the same time or after a restart, by a handler or   *)
(* by the worker, no delivery and no replay key is dispatched twice        *)
(* (route_event, reserve_webhook_event_once, dispatch_matched_event).      *)
DispatchedOnce ==
    /\ \A d \in Delivery : tried[d] <= 1
    /\ \A d, e \in Delivery :
          d # e /\ tried[d] > 0 /\ tried[e] > 0 => ~SameReplayKey(d, e)

Held(d) == Queued(d) \/ hand = d

(* What an outcome says about a delivery. *)
Truthful(d, o) ==
    /\ o \in {"backpressure", "duplicate", "ignored", "auth_failed"} =>
          tried[d] = 0 /\ ~Held(d)
    /\ o \in {"queued", "error"} => tried[d] = 1
    /\ o = "accepted" => tried[d] = 1 \/ Held(d) \/ d \in lost

(* What the sender is told and what the list of events shows is so, and    *)
(* stays so while queue, worker and restarts go on: an event that was      *)
(* turned away is not dispatched later, one that was accepted is in some   *)
(* hand until it is dispatched or the process ends (route_event,           *)
(* update_webhook_event_outcome).                                          *)
OutcomesTellTruth ==
    \A d \in Delivery : Truthful(d, work[d].outcome) /\ Truthful(d, row[d])

(* webhook_replay_idempotency_key as a value: a replay key of a delivery    *)
(* id names no window.                                                     *)
ReplayKeyOf(d) == <<KeyOf[d], IF KeyOf[d] \in Durable THEN -1 ELSE Bucket(d)>>

Fate(d) ==
    CASE tried[d] > 0 -> "dispatched"
      [] tried[d] = 0 /\ Held(d) -> "accepted"
      [] tried[d] = 0 /\ ~Held(d) /\ d \in lost -> "lost"
      [] OTHER ->
            IF work[d].stage \in {"idle", "reserving"} THEN "new"
            ELSE IF work[d].stage \in {"matching", "dispatching"} THEN "admitted"
            ELSE "refused"

Fates == [d \in Delivery |-> Fate(d)]
Spent == {ReplayKeyOf(d) : d \in {e \in Delivery : Reserved(e)}}

Events == INSTANCE EventDelivery
    WITH ReplayKey <- Key \X (-1..MaxTime),
         fate <- Fates, spent <- Spent, tasks <- tried

(* Implementation of EventDelivery: a delivery that was refused, handed    *)
(* over or lost never comes back, jobs are lost only all together with the *)
(* worker or the process, and a replay key is spent by one delivery and    *)
(* for good, whatever becomes of it (route_event,                          *)
(* reserve_webhook_event_once, spawn_webhook_dispatch_worker).             *)
EventSpec == Events!Spec

(* A delivery that was accepted is dispatched unless the process ends      *)
(* first: a job that fails does not stop the worker                        *)
(* (spawn_webhook_dispatch_worker).                                        *)
AcceptedIsDispatched ==
    \A d \in Delivery :
        At(d, "done") /\ work[d].outcome = "accepted"
            ~> tried[d] > 0 \/ d \in lost

(* "Webhook dispatch queue is full; retry later.": a sender that was told  *)
(* to come back is not turned away as a duplicate while nothing came of    *)
(* the event (route_event, against reserve_webhook_event_once).            *)
RetryLaterIsHonoured ==
    \A d, e \in Delivery :
        (/\ KeyOf[d] = KeyOf[e] /\ received[d] < received[e]
         /\ At(d, "done") /\ work[d].outcome = "backpressure"
         /\ At(e, "done") /\ work[e].outcome = "duplicate")
            => \E f \in Delivery : KeyOf[f] = KeyOf[d] /\ (tried[f] > 0 \/ Held(f))
=============================================================================
