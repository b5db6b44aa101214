----------------------------- MODULE TaskQueue -----------------------------
(***************************************************************************)
(* Scheduled tasks: the queue in memory, the rows of the table `task', the *)
(* scheduler pass (take_due_tasks), the supervised executions it spawns    *)
(* (execute_task_supervised_shared) and the requests of the user.          *)
(*                                                                         *)
(* Every writer follows one pattern: it changes the queue under its lock,  *)
(* lets the lock go and then writes rows, one statement at a time.  `todo' *)
(* holds the statements a writer has still to issue, so that those of      *)
(* different writers interleave.  A row is claimed with one conditional    *)
(* UPDATE; the queue learns of it in a later step.                         *)
(*                                                                         *)
(* scheduled_for is abstracted to whether it has passed, last_run_at to    *)
(* whether twice the stall timeout has.                                    *)
(***************************************************************************)
EXTENDS Naturals, Sequences, FiniteSets

CONSTANTS
    Task, NoTask,
    Recurring,      \* tasks with a cron expression
    Reminder,       \* one-shot reminders, cancelled when 15 minutes late
    Timed,          \* tasks whose policy has a stall timeout; 0 is the default
    Worker,         \* spawned executions, a bound of the model
    User,           \* requests of the user that are handled at once
    Permits,        \* SCHEDULED_TASK_PERMITS
    MaxAttempts,    \* max_attempts of the policy
    UserOps,        \* what users do: pause, resume, cancel, retry, update
    Faults,         \* what goes wrong: timeout, restart, db
    AutonomyPaused, \* values is_agent_autonomy_paused may return
    Prompt,         \* executions start, and statements are issued, before
                    \* the next tick or the earliest date of a retry
    MaxRounds,      \* bound: how often a recurring task comes due
    MaxRuns,        \* bound: executions of one release of a task
    MaxOps,         \* bound: user requests
    MaxFaults       \* bound: faults

ASSUME TaskAssumption ==
    /\ NoTask \notin Task
    /\ Recurring \subseteq Task /\ Timed \subseteq Task
    /\ Reminder \subseteq Task \ Recurring
ASSUME ActorAssumption == Worker \cap User = {} /\ "sched" \notin Worker \cup User
ASSUME NumberAssumption ==
    {Permits, MaxAttempts, MaxRounds, MaxRuns, MaxOps, MaxFaults} \subseteq Nat
ASSUME ChoiceAssumption ==
    AutonomyPaused \subseteq BOOLEAN /\ Prompt \in BOOLEAN

VARIABLES
    mem,        \* TaskQueue: the queue in memory
    row,        \* the rows of the table `task'
    sup,        \* automation supervisor states: how old last_run_at is
    todo,       \* the row statements each writer has still to issue
    sched,      \* the scheduler pass
    run,        \* the supervised executions
    rounds,     \* times a task came due by its schedule
    ops, faults,
    tries       \* history: executions since the task was last released

bounds == <<rounds, ops, faults>>
vars == <<mem, row, sup, todo, sched, run, bounds, tries>>

----------------------------------------------------------------------------
Status == {"Pending", "Paused", "InProgress", "Completed", "Failed", "Cancelled"}
When == {"unset", "later", "now"}
Age == {"none", "fresh", "old"}
Actor == {"sched"} \cup Worker \cup User

Entry == [status : Status, when : When, attempt : Nat]
Row == [status : Status, when : When, attempt : Nat,
        lease : {"none", "live", "lapsed"}]

(* A row statement; "keep" and 0 leave a column alone. *)
Write == [task : Task, status : Status \cup {"keep"},
          when : When \cup {"keep"}, attempt : Nat]

(* `batch': the tasks recovered, later the tasks claimed; `clone': the      *)
(* attempt in the copies take_due_tasks returns.                           *)
Stage == {"idle", "recover", "stalling", "claiming", "spawning"}
Pass == [stage : Stage, seen : [Task -> Age], plan : SUBSET Seq(Write),
         cand : SUBSET Task, held : Task \cup {NoTask}, batch : SUBSET Task,
         clone : [Task -> Nat]]
Run == [stage : {"free", "queued", "running", "closing"},
        task : Task \cup {NoTask}, attempt : Nat]

TypeOK ==
    /\ mem \in [Task -> Entry]
    /\ row \in [Task -> Row]
    /\ sup \in [Task -> Age]
    /\ todo \in [Actor -> Seq(Write)]
    /\ sched \in Pass
    /\ run \in [Worker -> Run]
    /\ rounds \in [Task -> Nat] /\ ops \in Nat /\ faults \in Nat
    /\ tries \in [Task -> Nat]

IdlePass == [stage |-> "idle", seen |-> [t \in Task |-> "none"], plan |-> {},
             cand |-> {}, held |-> NoTask, batch |-> {},
             clone |-> [t \in Task |-> 0]]
FreeRun == [stage |-> "free", task |-> NoTask, attempt |-> 0]
NoWrites == [a \in Actor |-> <<>>]

FirstWhen(t) == IF t \in Recurring THEN "unset" ELSE "now"

Init ==
    /\ mem = [t \in Task |-> [status |-> "Pending", when |-> FirstWhen(t),
                              attempt |-> 1]]
    /\ row = [t \in Task |-> [status |-> "Pending", when |-> FirstWhen(t),
                              attempt |-> 1, lease |-> "none"]]
    /\ sup = [t \in Task |-> "none"]
    /\ todo = NoWrites
    /\ sched = IdlePass
    /\ run = [w \in Worker |-> FreeRun]
    /\ rounds = [t \in Task |-> 0] /\ ops = 0 /\ faults = 0
    /\ tries = [t \in Task |-> 0]

----------------------------------------------------------------------------
(* Row statements. *)

(* update_task_status, update_task_status_and_result, retry_task. *)
SetStatus(t, s) == [task |-> t, status |-> s, when |-> "keep", attempt |-> 0]
(* update_task and replace_task_schedule. *)
SetFields(t, when, n) ==
    [task |-> t, status |-> "keep", when |-> when, attempt |-> n]

(* Mutant: a status write leaves the lease of the claim in place. *)
KeepLease(r, w) ==
    [status |-> IF w.status = "keep" THEN r.status ELSE w.status,
     when |-> IF w.when = "keep" THEN r.when ELSE w.when,
     attempt |-> IF w.attempt = 0 THEN r.attempt ELSE w.attempt,
     lease |-> r.lease]

(* Every write of the status clears the lease. *)
Apply(r, w) ==
    [status |-> IF w.status = "keep" THEN r.status ELSE w.status,
     when |-> IF w.when = "keep" THEN r.when ELSE w.when,
     attempt |-> IF w.attempt = 0 THEN r.attempt ELSE w.attempt,
     lease |-> IF w.status = "keep" THEN r.lease ELSE "none"]

WriteRow(a) ==
    /\ todo[a] # <<>>
    /\ LET w == Head(todo[a]) IN row' = [row EXCEPT ![w.task] = Apply(@, w)]
    /\ todo' = [todo EXCEPT ![a] = Tail(@)]
    /\ UNCHANGED <<mem, sup, sched, run, bounds, tries>>

(* A statement fails.  Requests and executions give up (`?'), the          *)
(* scheduler logs a warning and goes on.                                   *)
FailWrite(a) ==
    /\ "db" \in Faults /\ faults < MaxFaults
    /\ todo[a] # <<>>
    /\ todo' = [todo EXCEPT ![a] = IF a = "sched" THEN Tail(@) ELSE <<>>]
    /\ faults' = faults + 1
    /\ UNCHANGED <<mem, row, sup, sched, run, rounds, ops, tries>>

----------------------------------------------------------------------------
(* The clock. *)

ComesDue(t) ==
    /\ mem[t].when = "later"
    /\ Prompt => \A a \in Actor : \A i \in DOMAIN todo[a] : todo[a][i].task # t
    /\ t \in Recurring => rounds[t] < MaxRounds
    /\ rounds' = IF t \in Recurring THEN [rounds EXCEPT ![t] = @ + 1] ELSE rounds
    /\ mem' = [mem EXCEPT ![t].when = "now"]
    /\ row' = [row EXCEPT ![t].when = IF @ = "later" THEN "now" ELSE @]
    /\ UNCHANGED <<sup, todo, sched, run, ops, faults, tries>>

LeaseLapses(t) ==
    /\ row[t].lease = "live"
    /\ row' = [row EXCEPT ![t].lease = "lapsed"]
    /\ UNCHANGED <<mem, sup, todo, sched, run, bounds, tries>>

Executing(w, t) == run[w].task = t /\ run[w].stage \in {"queued", "running"}

(* Twice the stall timeout passes after last_run_at.  An execution is cut  *)
(* off at the timeout itself.                                              *)
GrowsOld(t) ==
    /\ t \in Timed
    /\ sup[t] = "fresh"
    /\ \A w \in Worker : ~(run[w].task = t /\ run[w].stage = "running")
    /\ sup' = [sup EXCEPT ![t] = "old"]
    /\ UNCHANGED <<mem, row, todo, sched, run, bounds, tries>>

----------------------------------------------------------------------------
(* The scheduler pass: run_scheduler and take_due_tasks. *)

(* recover_stale_in_progress_tasks reads the supervisor states first. *)
StartPass ==
    /\ sched.stage = "idle"
    /\ Prompt => \A w \in Worker : run[w].stage # "queued"
    /\ sched' = [sched EXCEPT !.stage = "recover", !.seen = sup]
    /\ UNCHANGED <<mem, row, sup, todo, run, bounds, tries>>

(* Mutant: every task in progress that has a supervisor state is stale. *)
StaleAlways(t, age) == age # "none"

Stale(t, age) == age = "old" \/ (age = "fresh" /\ t \notin Timed)

(* Mutant: a task is stale whatever the queue says of it. *)
StalledInAnyStatus(t) == Stale(t, sched.seen[t])

Stalled(t) == mem[t].status = "InProgress" /\ Stale(t, sched.seen[t])

(* Under the lock: stale tasks go back to Pending, due at once.  A task    *)
(* without a supervisor state is left alone.                               *)
Recover ==
    /\ sched.stage = "recover"
    /\ LET stalled == {t \in Task : Stalled(t)}
       IN /\ mem' = [t \in Task |->
                        IF t \in stalled
                        THEN [mem[t] EXCEPT !.status = "Pending", !.when = "now"]
                        ELSE mem[t]]
          /\ sched' = [sched EXCEPT
                          !.stage = "stalling",
                          !.batch = stalled,
                          !.plan = {<<SetStatus(t, "Pending"),
                                      SetFields(t, "now", mem[t].attempt)>> :
                                    t \in stalled}]
    /\ UNCHANGED <<row, sup, todo, run, bounds, tries>>

(* The next task whose rows the pass writes. *)
Persist ==
    /\ todo["sched"] = <<>>
    /\ \E p \in sched.plan :
          /\ todo' = [todo EXCEPT !["sched"] = p]
          /\ sched' = [sched EXCEPT !.plan = @ \ {p}]
    /\ UNCHANGED <<mem, row, sup, run, bounds, tries>>

Persisted == todo["sched"] = <<>> /\ sched.plan = {}

(* The supervisor state goes back with the last_run_at that was read.      *)
WriteStalled(t) ==
    /\ sched.stage = "stalling" /\ Persisted
    /\ t \in sched.batch
    /\ sup' = [sup EXCEPT ![t] = sched.seen[t]]
    /\ sched' = [sched EXCEPT !.batch = @ \ {t}]
    /\ UNCHANGED <<mem, row, todo, run, bounds, tries>>

Due(t) == mem[t].status = "Pending" /\ mem[t].when = "now"
Unscheduled(t) == mem[t].status = "Pending" /\ mem[t].when = "unset"

(* Mutant: a late reminder is cancelled in the queue alone. *)
ScanForgetsRow ==
    /\ sched.stage = "stalling" /\ Persisted /\ sched.batch = {}
    /\ \E late \in SUBSET {t \in Reminder : Due(t)}, paused \in AutonomyPaused :
          /\ mem' = [t \in Task |->
                        CASE t \in late -> [mem[t] EXCEPT !.status = "Cancelled"]
                          [] Unscheduled(t) -> [mem[t] EXCEPT !.when = "later"]
                          [] OTHER -> mem[t]]
          /\ sched' = [sched EXCEPT
                          !.stage = "claiming",
                          !.cand = {t \in Task \ late :
                                       Due(t) /\ (paused => t \in Reminder)}]
    /\ UNCHANGED <<row, sup, todo, run, bounds, tries>>

(* Under the lock: a recurring task without a date gets one, a reminder    *)
(* that is too late is cancelled, the other due tasks become candidates;   *)
(* only reminders while autonomy is paused.                                *)
Scan ==
    /\ sched.stage = "stalling" /\ Persisted /\ sched.batch = {}
    /\ \E late \in SUBSET {t \in Reminder : Due(t)}, paused \in AutonomyPaused :
          /\ mem' = [t \in Task |->
                        CASE t \in late -> [mem[t] EXCEPT !.status = "Cancelled"]
                          [] Unscheduled(t) -> [mem[t] EXCEPT !.when = "later"]
                          [] OTHER -> mem[t]]
          /\ sched' = [sched EXCEPT
                          !.stage = "claiming",
                          !.cand = {t \in Task \ late :
                                       Due(t) /\ (paused => t \in Reminder)},
                          !.plan = {<<SetStatus(t, "Cancelled")>> : t \in late}
                                   \cup {<<SetFields(t, "later", 0)>> :
                                         t \in {u \in Task : Unscheduled(u)}}]
    /\ UNCHANGED <<row, sup, todo, run, bounds, tries>>

Claimable(r) == r.status = "Pending" /\ r.lease \in {"none", "lapsed"}

(* try_claim_task: one conditional UPDATE. *)
try_claim_task(t) ==
    /\ sched.stage = "claiming" /\ Persisted /\ sched.held = NoTask
    /\ t \in sched.cand
    /\ IF Claimable(row[t])
       THEN /\ row' = [row EXCEPT ![t].status = "InProgress", ![t].lease = "live"]
            /\ sched' = [sched EXCEPT !.cand = @ \ {t}, !.held = t]
       ELSE /\ sched' = [sched EXCEPT !.cand = @ \ {t}]
            /\ UNCHANGED row
    /\ UNCHANGED <<mem, sup, todo, run, bounds, tries>>

(* The queue learns of the claim, whatever its entry says by now. *)
MarkClaimed ==
    /\ sched.held # NoTask
    /\ mem' = [mem EXCEPT ![sched.held].status = "InProgress"]
    /\ sched' = [sched EXCEPT !.batch = @ \cup {sched.held}, !.held = NoTask,
                              !.clone[sched.held] = mem[sched.held].attempt]
    /\ UNCHANGED <<row, sup, todo, run, bounds, tries>>

ReturnDue ==
    /\ sched.stage = "claiming" /\ Persisted
    /\ sched.cand = {} /\ sched.held = NoTask
    /\ sched' = [sched EXCEPT !.stage = "spawning"]
    /\ UNCHANGED <<mem, row, sup, todo, run, bounds, tries>>

Spawn(t, w) ==
    /\ sched.stage = "spawning" /\ t \in sched.batch
    /\ run[w].stage = "free"
    /\ run' = [run EXCEPT ![w] = [stage |-> "queued", task |-> t,
                                  attempt |-> sched.clone[t]]]
    /\ sched' = [sched EXCEPT !.batch = @ \ {t}]
    /\ UNCHANGED <<mem, row, sup, todo, bounds, tries>>

(* Mutant: the pass ends before everything it claimed is spawned. *)
EndPassEarly ==
    /\ sched.stage = "spawning"
    /\ sched' = IdlePass
    /\ UNCHANGED <<mem, row, sup, todo, run, bounds, tries>>

EndPass ==
    /\ sched.stage = "spawning" /\ sched.batch = {}
    /\ sched' = IdlePass
    /\ UNCHANGED <<mem, row, sup, todo, run, bounds, tries>>

(* run_leased_loop_with_timeout drops the pass at an await.  What it has   *)
(* claimed so far is forgotten; spawning awaits nothing.                   *)
DropPass ==
    /\ "timeout" \in Faults /\ faults < MaxFaults
    /\ sched.stage \notin {"idle", "spawning"}
    /\ sched' = IdlePass
    /\ todo' = [todo EXCEPT !["sched"] = <<>>]
    /\ faults' = faults + 1
    /\ UNCHANGED <<mem, row, sup, run, rounds, ops, tries>>

----------------------------------------------------------------------------
(* A supervised execution. *)

(* With a permit: the supervisor state is stored as running, now. *)
Begin(w) ==
    /\ run[w].stage = "queued" /\ tries[run[w].task] < MaxRuns
    /\ Cardinality({v \in Worker : run[v].stage \in {"running", "closing"}}) < Permits
    /\ run' = [run EXCEPT ![w].stage = "running"]
    /\ sup' = [sup EXCEPT ![run[w].task] = "fresh"]
    /\ tries' = [tries EXCEPT ![run[w].task] = @ + 1]
    /\ UNCHANGED <<mem, row, todo, sched, bounds>>

Closing(w) == run' = [run EXCEPT ![w].stage = "closing"]

(* finalize_task.  A cancelled task stays cancelled; a recurring one waits *)
(* for its next date.                                                      *)
finalize_task(w, s) ==
    LET t == run[w].task
        again == t \in Recurring /\ s # "Paused"
        stored == IF again THEN "Pending" ELSE s
    IN /\ run[w].stage = "running"
       /\ Closing(w)
       /\ IF mem[t].status = "Cancelled"
          THEN UNCHANGED <<mem, todo, tries>>
          ELSE /\ mem' = [mem EXCEPT ![t].status = stored,
                                     ![t].when = IF again THEN "later" ELSE @]
               /\ todo' = [todo EXCEPT ![w] =
                     <<SetStatus(t, stored)>> \o
                     (IF t \in Recurring
                      THEN <<SetFields(t, IF again THEN "later" ELSE mem[t].when, 0)>>
                      ELSE <<>>)]
               /\ tries' = IF again THEN [tries EXCEPT ![t] = 0] ELSE tries
       /\ UNCHANGED <<row, sup, sched, bounds>>

Succeed(w) == finalize_task(w, "Completed")
(* Mutant: the status of the run is stored for that of the task. *)
AskStoresRunStatus(w) == finalize_task(w, "Triggered")
AskForInput(w) == finalize_task(w, "Paused")
(* No retry: not a transient failure, or the attempts are used up. *)
FailForGood(w) == finalize_task(w, "Failed")

Requeue(w, n) ==
    LET t == run[w].task
    IN /\ run[w].stage = "running"
       /\ Closing(w)
       /\ mem' = [mem EXCEPT ![t] = [status |-> "Pending", when |-> "later",
                                     attempt |-> n]]
       /\ todo' = [todo EXCEPT ![w] = <<SetStatus(t, "Pending"),
                                        SetFields(t, "later", n)>>]
       /\ UNCHANGED <<row, sup, sched, bounds, tries>>

(* Mutant: one attempt more. *)
RetryOnceMore(w) ==
    run[w].attempt <= MaxAttempts /\ Requeue(w, run[w].attempt + 1)

(* Mutant: the attempt is not counted up. *)
RetrySameAttempt(w) ==
    run[w].attempt < MaxAttempts /\ Requeue(w, run[w].attempt)

(* Without a look at the status in the queue. *)
reschedule_task_retry(w) ==
    run[w].attempt < MaxAttempts /\ Requeue(w, run[w].attempt + 1)

(* The supervisor state is stored once more, with the end of the run. *)
Close(w) ==
    /\ run[w].stage = "closing" /\ todo[w] = <<>>
    /\ sup' = [sup EXCEPT ![run[w].task] = "fresh"]
    /\ run' = [run EXCEPT ![w] = FreeRun]
    /\ UNCHANGED <<mem, row, todo, sched, bounds, tries>>

----------------------------------------------------------------------------
(* Requests of the user. *)

Request(u, op) ==
    /\ op \in UserOps /\ ops < MaxOps
    /\ todo[u] = <<>>
    /\ ops' = ops + 1

pause_task(u, t) ==
    /\ Request(u, "pause")
    /\ mem[t].status = "Pending"
    /\ mem' = [mem EXCEPT ![t].status = "Paused"]
    /\ todo' = [todo EXCEPT ![u] = <<SetStatus(t, "Paused")>>]
    /\ UNCHANGED <<row, sup, sched, run, rounds, faults, tries>>

resume_task(u, t) ==
    LET when == IF t \in Recurring THEN "now" ELSE mem[t].when
    IN /\ Request(u, "resume")
       /\ mem[t].status = "Paused"
       /\ mem' = [mem EXCEPT ![t].status = "Pending", ![t].when = when]
       /\ todo' = [todo EXCEPT ![u] = <<SetStatus(t, "Pending"),
                                        SetFields(t, when, 0)>>]
       /\ tries' = [tries EXCEPT ![t] = 0]
       /\ UNCHANGED <<row, sup, sched, run, rounds, faults>>

(* cancel_task keeps the queue locked while it writes the row, so that     *)
(* nobody sees one without the other, unless the write fails.              *)
cancel_task(u, t) ==
    /\ Request(u, "cancel")
    /\ mem[t].status \in {"Pending", "Paused", "InProgress"}
    /\ mem' = [mem EXCEPT ![t].status = "Cancelled"]
    /\ \/ row' = [row EXCEPT ![t] = Apply(@, SetStatus(t, "Cancelled"))]
       \/ "db" \in Faults /\ UNCHANGED row
    /\ UNCHANGED <<sup, todo, sched, run, rounds, faults, tries>>

retry_task(u, t) ==
    /\ Request(u, "retry")
    /\ mem[t].status \in {"Failed", "Cancelled"}
    /\ mem' = [mem EXCEPT ![t].status = "Pending", ![t].when = "now"]
    /\ todo' = [todo EXCEPT ![u] = <<[task |-> t, status |-> "Pending",
                                      when |-> "now", attempt |-> 0]>>]
    /\ tries' = [tries EXCEPT ![t] = 0]
    /\ UNCHANGED <<row, sup, sched, run, rounds, faults>>

(* add_or_update_similar_task finds the task in the queue and replaces it  *)
(* in place; only a task in progress keeps its status.                     *)
UpdateSimilar(u, t) ==
    LET s == IF mem[t].status = "InProgress" THEN "InProgress" ELSE "Pending"
    IN /\ Request(u, "update")
       /\ mem[t].status # "Completed"
       /\ mem' = [mem EXCEPT ![t] = [status |-> s, when |-> FirstWhen(t),
                                     attempt |-> 1]]
       /\ todo' = [todo EXCEPT ![u] =
             <<[task |-> t, status |-> s, when |-> FirstWhen(t), attempt |-> 0],
               SetFields(t, "keep", 1), SetFields(t, FirstWhen(t), 0)>>]
       /\ tries' = [tries EXCEPT ![t] = 0]
       /\ UNCHANGED <<row, sup, sched, run, rounds, faults>>

----------------------------------------------------------------------------
(* The process ends and starts again: the queue is loaded from the rows.   *)
Restart ==
    /\ "restart" \in Faults /\ faults < MaxFaults
    /\ faults' = faults + 1
    /\ mem' = [t \in Task |-> [status |-> row[t].status, when |-> row[t].when,
                               attempt |-> row[t].attempt]]
    /\ todo' = NoWrites
    /\ sched' = IdlePass
    /\ run' = [w \in Worker |-> FreeRun]
    /\ UNCHANGED <<row, sup, rounds, ops, tries>>

SchedulerStep ==
    \/ StartPass \/ Recover \/ Persist \/ Scan \/ MarkClaimed
    \/ ReturnDue \/ EndPass
    \/ \E t \in Task : WriteStalled(t) \/ try_claim_task(t)
    \/ \E t \in Task, w \in Worker : Spawn(t, w)

Finish(w) ==
    \/ Succeed(w) \/ AskForInput(w) \/ FailForGood(w)
    \/ reschedule_task_retry(w)

UserStep(u, t) ==
    \/ pause_task(u, t) \/ resume_task(u, t) \/ cancel_task(u, t)
    \/ retry_task(u, t) \/ UpdateSimilar(u, t)

Next ==
    \/ SchedulerStep
    \/ \E w \in Worker : Begin(w) \/ Finish(w) \/ Close(w)
    \/ \E a \in Actor : WriteRow(a) \/ FailWrite(a)
    \/ \E t \in Task : ComesDue(t) \/ LeaseLapses(t) \/ GrowsOld(t)
    \/ \E u \in User, t \in Task : UserStep(u, t)
    \/ DropPass \/ Restart

Spec == Init /\ [][Next]_vars

(* What the runtime keeps doing when no fault is injected: the scheduler   *)
(* loop ticks, spawned executions end, statements are answered and dates   *)
(* pass.  Nothing is assumed of the user.                                  *)
Fairness ==
    /\ WF_vars(SchedulerStep)
    /\ \A w \in Worker : WF_vars(Begin(w)) /\ WF_vars(Finish(w)) /\ WF_vars(Close(w))
    /\ \A a \in Actor : WF_vars(WriteRow(a))
    /\ \A t \in Task : WF_vars(ComesDue(t))

FairSpec == Spec /\ Fairness

----------------------------------------------------------------------------
(* A task that waits in the table can be claimed: no writer that puts it   *)
(* back, whatever the order of the statements, leaves the lease of the     *)
(* last claim on it, which would hold it up for ten minutes or more.       *)
(* (update_task_status and its siblings, storage/repositories/             *)
(* automation.rs, against try_claim_task.)                                 *)
PendingRowUnleased ==
    \A t \in Task : row[t].status = "Pending" => row[t].lease = "none"

(* A task is executed once at a time, although nothing on the way from the *)
(* claim to the end of the execution looks at the claim again: what keeps  *)
(* a second execution out is the entry in the queue (take_due_tasks,       *)
(* recover_stale_in_progress_tasks).                                       *)
SingleRun ==
    \A t \in Task : \A v, w \in Worker :
        Executing(v, t) /\ Executing(w, t) => v = w

(* Between its release, by its schedule or by the user, and its end a task *)
(* is executed at most max_attempts times.                                 *)
ExecutionsWithinAttempts == \A t \in Task : tries[t] <= MaxAttempts

(* The attempt stored in the arguments counts the executions since the     *)
(* task was released, so that a failure is retried until the attempts of   *)
(* this release are used up (current_attempt, increment_attempt).  Not so  *)
(* for a recurring task: finalize_task gives it a new date and leaves it   *)
(* the attempt of its last retry.                                          *)
AttemptsCounted ==
    \A t \in Task \ Recurring : Due(t) => mem[t].attempt = tries[t] + 1

IsRunning(t) == \E w \in Worker : run[w].task = t /\ run[w].stage = "running"

LifecycleState(t) ==
    IF IsRunning(t) THEN "running"
    ELSE CASE mem[t].status \in {"Pending", "InProgress"} -> "waiting"
           [] mem[t].status = "Paused" -> "paused"
           [] OTHER -> "settled"

Lifecycle == INSTANCE TaskLifecycle
    WITH state <- [t \in Task |-> LifecycleState(t)], count <- tries,
         asked <- ops

(* Implementation of TaskLifecycle: for all the passes, claims, recoveries *)
(* and statements that overlap it, a task goes through its executions one  *)
(* by one, and nothing but a request of the user makes a task wait again   *)
(* that is settled or paused (take_due_tasks, recover_stale_in_progress_tasks,     *)
(* finalize_task, reschedule_task_retry).                                  *)
LifecycleSpec == Lifecycle!Spec

Quiet ==
    /\ sched.stage = "idle"
    /\ todo = NoWrites
    /\ \A w \in Worker : run[w].stage = "free"

(* When nothing is going on, the table says what the queue says: a restart *)
(* changes nothing.                                                        *)
QuietAgreement ==
    Quiet => \A t \in Task :
        /\ mem[t].status = row[t].status
        /\ (mem[t].when = "unset") = (row[t].when = "unset")
        /\ mem[t].attempt = row[t].attempt

(* Every due task is executed and settled, or given up by the user or as a *)
(* late reminder (take_due_tasks).                                         *)
DueTaskSettles == \A t \in Task : Due(t) ~> ~Due(t)

(* No claim lasts for ever: a row that is in progress is finished, retried *)
(* or recovered.                                                           *)
ClaimsEnd ==
    \A t \in Task :
        row[t].status = "InProgress" ~> row[t].status # "InProgress"
=============================================================================
