-------------------------- MODULE TaskQueue_proofs --------------------------
(***************************************************************************)
(* Proofs about TaskQueue: the types, the leases of waiting rows, that a   *)
(* task is executed once at a time and within its attempts, which are      *)
(* counted, that the table follows the queue, and that all this implements *)
(* TaskLifecycle.  Nothing on the way from a claim to the end of an        *)
(* execution looks at the claim again, so the proofs rest on what is true  *)
(* of the queue, of the scheduler pass and of the supervisor states while  *)
(* a task is executed.                                                     *)
(***************************************************************************)
EXTENDS TaskQueue, TLAPS

(* What the properties assume: every task has a stall timeout, executions  *)
(* start before the next tick, and no user cancels.                        *)
Supervised == Timed = Task /\ Prompt /\ "cancel" \notin UserOps

Busy(t) == \E w \in Worker : Executing(w, t)

(* An execution that is not over knows its task. *)
TaskKnown == \A w \in Worker : run[w].stage # "free" => run[w].task \in Task

(* The entry in the queue keeps the scheduler off a task that is executed, *)
(* and so does the pass that spawned it.                                   *)
BusyIsMarked ==
    \A t \in Task : Busy(t) => mem[t].status = "InProgress"
BusyIsNotTaken ==
    \A t \in Task : Busy(t) =>
        /\ t \notin sched.cand
        /\ sched.held # t
        /\ sched.stage # "idle" => t \notin sched.batch

(* What the pass has claimed is marked in the queue until it is spawned. *)
ClaimedIsMarked ==
    sched.stage \in {"claiming", "spawning"} =>
        \A t \in sched.batch : mem[t].status = "InProgress"

(* Recovery sees no task as stale that is executed: the supervisor state   *)
(* of a running one stays fresh, and when a pass reads them all, none      *)
(* waits for its start.                                                    *)
RunningIsFresh ==
    \A w \in Worker : run[w].stage = "running" => sup[run[w].task] = "fresh"
RecoverySeesFresh ==
    sched.stage = "recover" =>
        \A w \in Worker :
            /\ run[w].stage # "queued"
            /\ run[w].stage = "running" => sched.seen[run[w].task] = "fresh"

PassInv ==
    /\ sched.stage \in {"idle", "recover"} => sched.batch = {}
    /\ sched.stage \notin {"claiming"} => sched.cand = {} /\ sched.held = NoTask

RunInv ==
    /\ PassInv /\ SingleRun
    /\ BusyIsMarked /\ BusyIsNotTaken /\ ClaimedIsMarked
    /\ RunningIsFresh /\ RecoverySeesFresh

(* Attempts: what waits, is claimed or is about to start has an attempt    *)
(* left that no execution has used.                                        *)
Counted(n) == n \in 1..MaxAttempts
HasAttempt(t) == tries[t] < mem[t].attempt

AttemptsBounded ==
    \A t \in Task : Counted(mem[t].attempt) /\ tries[t] <= MaxAttempts
WaitingHasAttempt ==
    \A t \in Task :
        (\/ mem[t].status = "Pending"
         \/ mem[t].status = "InProgress" /\ ~Busy(t)
         \/ t \in sched.cand
         \/ t = sched.held)
            => HasAttempt(t)
ClaimedHasAttempt ==
    sched.stage \in {"claiming", "spawning"} =>
        \A t \in sched.batch :
            Counted(sched.clone[t]) /\ tries[t] < sched.clone[t]
RunHasAttempt ==
    \A w \in Worker :
        /\ run[w].stage \in {"queued", "running"} => Counted(run[w].attempt)
        /\ run[w].stage = "queued" => tries[run[w].task] < run[w].attempt
        /\ run[w].stage = "running" => tries[run[w].task] <= run[w].attempt

AttemptsInv ==
    /\ AttemptsBounded /\ WaitingHasAttempt
    /\ ClaimedHasAttempt /\ RunHasAttempt

----------------------------------------------------------------------------
(* Types. *)

LEMMA WritesTyped ==
    ASSUME NEW t \in Task
    PROVE  /\ \A s \in Status : SetStatus(t, s) \in Write
           /\ \A when \in When \cup {"keep"}, n \in Nat :
                 SetFields(t, when, n) \in Write
BY DEF SetStatus, SetFields, Write

LEMMA ApplyTyped ==
    ASSUME NEW r \in Row, NEW w \in Write
    PROVE  Apply(r, w) \in Row
BY DEF Apply, Row, Write

LEMMA EntryTyped ==
    ASSUME NEW e \in Entry, NEW s \in Status, NEW when \in When
    PROVE  /\ [e EXCEPT !.status = s] \in Entry
           /\ [e EXCEPT !.when = when] \in Entry
           /\ [e EXCEPT !.status = s, !.when = when] \in Entry
BY DEF Entry

(* The queue with one entry changed. *)
LEMMA QueueTyped ==
    ASSUME mem \in [Task -> Entry], NEW t \in Task,
           NEW s \in Status, NEW when \in When
    PROVE  /\ [mem EXCEPT ![t].status = s] \in [Task -> Entry]
           /\ [mem EXCEPT ![t].when = when] \in [Task -> Entry]
           /\ [mem EXCEPT ![t].status = s, ![t].when = when]
                \in [Task -> Entry]
<1>1. mem[t] \in Entry
    OBVIOUS
<1> QED
    BY <1>1, EntryTyped

LEMMA InitTyped == Init => TypeOK /\ TaskKnown
<1> SUFFICES ASSUME Init PROVE TypeOK /\ TaskKnown
    OBVIOUS
<1>1. mem \in [Task -> Entry] /\ row \in [Task -> Row]
    BY DEF Init, FirstWhen, Entry, Row, Status, When
<1>2. sched \in Pass
    BY DEF Init, IdlePass, Pass, Stage, Age
<1>3. run \in [Worker -> Run] /\ todo \in [Actor -> Seq(Write)] /\ TaskKnown
    BY DEF Init, FreeRun, Run, NoWrites, TaskKnown
<1> QED
    BY <1>1, <1>2, <1>3 DEF Init, TypeOK, Age

LEMMA TypedStep ==
    ASSUME TypeOK, TaskKnown, [Next]_vars
    PROVE  TypeOK' /\ TaskKnown'
<1> USE DEF bounds
<1>1. CASE UNCHANGED vars
    BY <1>1 DEF vars, TypeOK, TaskKnown
<1>2. ASSUME NEW a \in Actor, WriteRow(a) PROVE TypeOK' /\ TaskKnown'
  <2>1. Head(todo[a]) \in Write /\ Tail(todo[a]) \in Seq(Write)
    BY <1>2 DEF WriteRow, TypeOK
  <2>2. row' \in [Task -> Row]
    BY <1>2, <2>1, ApplyTyped DEF WriteRow, TypeOK, Write
  <2> QED
    BY <1>2, <2>1, <2>2 DEF WriteRow, TypeOK, TaskKnown
<1>3. ASSUME NEW a \in Actor, FailWrite(a) PROVE TypeOK' /\ TaskKnown'
    BY <1>3 DEF FailWrite, TypeOK, TaskKnown
<1>4. ASSUME NEW t \in Task, ComesDue(t) \/ LeaseLapses(t) \/ GrowsOld(t)
      PROVE TypeOK' /\ TaskKnown'
  <2>1. CASE ComesDue(t)
    <3>1. mem' \in [Task -> Entry]
      <4>1. mem' = [mem EXCEPT ![t].when = "now"]
        BY <2>1 DEF ComesDue
      <4>2. "now" \in When /\ "Pending" \in Status
        BY DEF When, Status
      <4> QED BY <4>1, <4>2, QueueTyped DEF TypeOK
    <3>2. row' \in [Task -> Row]
      <4> DEFINE when == IF row[t].when = "later" THEN "now" ELSE row[t].when
      <4>1. row' = [row EXCEPT ![t] = [row[t] EXCEPT !.when = when]]
        BY <2>1 DEF ComesDue
      <4>2. row[t] \in Row
        BY DEF TypeOK
      <4>3. when \in When
        BY <4>2 DEF When, Row
      <4>4. [row[t] EXCEPT !.when = when] \in Row
        <5> HIDE DEF when
        <5> QED BY <4>2, <4>3 DEF Row
      <4> QED BY <4>1, <4>4 DEF TypeOK
    <3>3. rounds' \in [Task -> Nat]
      BY <2>1 DEF ComesDue, TypeOK
    <3> QED
      BY <2>1, <3>1, <3>2, <3>3 DEF ComesDue, TypeOK, TaskKnown
  <2>2. CASE LeaseLapses(t)
    BY <2>2 DEF LeaseLapses, TypeOK, TaskKnown, Row
  <2>3. CASE GrowsOld(t)
    BY <2>3 DEF GrowsOld, TypeOK, TaskKnown, Age
  <2> QED BY <1>4, <2>1, <2>2, <2>3
<1>5. ASSUME StartPass PROVE TypeOK' /\ TaskKnown'
    BY <1>5 DEF StartPass, TypeOK, TaskKnown, Pass, Stage
<1>6. ASSUME Recover PROVE TypeOK' /\ TaskKnown'
  <2> DEFINE stalled == {t \in Task : /\ mem[t].status = "InProgress"
                                      /\ Stale(t, sched.seen[t])}
             plan == {<<SetStatus(t, "Pending"),
                        SetFields(t, "now", mem[t].attempt)>> : t \in stalled}
             again(t) == [mem[t] EXCEPT !.status = "Pending", !.when = "now"]
  <2>1. mem' \in [Task -> Entry]
    <3>1. mem' = [t \in Task |-> IF t \in stalled THEN again(t) ELSE mem[t]]
      BY <1>6 DEF Recover, Stalled
    <3>2. "now" \in When /\ "Pending" \in Status
      BY DEF When, Status
    <3>3. \A t \in Task : mem[t] \in Entry /\ again(t) \in Entry
      BY <3>2, EntryTyped DEF TypeOK
    <3> HIDE DEF again, stalled
    <3> QED BY <3>1, <3>3
  <2>2. plan \in SUBSET Seq(Write)
    <3> SUFFICES ASSUME NEW t \in stalled
                 PROVE  <<SetStatus(t, "Pending"),
                          SetFields(t, "now", mem[t].attempt)>> \in Seq(Write)
      OBVIOUS
    <3>1. mem[t].attempt \in Nat
      BY DEF TypeOK, Entry
    <3>2. /\ SetStatus(t, "Pending") \in Write
          /\ SetFields(t, "now", mem[t].attempt) \in Write
      BY <3>1, WritesTyped DEF Status, When
    <3> QED BY <3>2
  <2>3. sched' = [sched EXCEPT !.stage = "stalling", !.batch = stalled,
                               !.plan = plan]
    BY <1>6 DEF Recover, Stalled
  <2>4. sched' \in Pass
    <3> HIDE DEF plan
    <3> QED BY <2>2, <2>3 DEF TypeOK, Pass, Stage
  <2> QED
    BY <1>6, <2>1, <2>4 DEF Recover, Stalled, TypeOK, TaskKnown
<1>7. ASSUME Persist PROVE TypeOK' /\ TaskKnown'
    BY <1>7 DEF Persist, TypeOK, TaskKnown, Pass
<1>8. ASSUME NEW t \in Task, WriteStalled(t) PROVE TypeOK' /\ TaskKnown'
    BY <1>8 DEF WriteStalled, TypeOK, TaskKnown, Pass
<1>9. ASSUME Scan PROVE TypeOK' /\ TaskKnown'
  <2>1. PICK late \in SUBSET {t \in Task : t \in Reminder /\ Due(t)},
             paused \in AutonomyPaused :
          /\ mem' = [t \in Task |->
                        CASE t \in late -> [mem[t] EXCEPT !.status = "Cancelled"]
                          [] Unscheduled(t) -> [mem[t] EXCEPT !.when = "later"]
                          [] OTHER -> mem[t]]
          /\ sched' = [sched EXCEPT
                          !.stage = "claiming",
                          !.cand = {t \in Task \ late :
                                       Due(t) /\ (paused => t \in Reminder)},
                          !.plan = {<<SetStatus(t, "Cancelled")>> : t \in late}
                                   \cup {<<SetFields(t, "later", 0)>> :
                                         t \in {u \in Task : Unscheduled(u)}}]
    BY <1>9, TaskAssumption DEF Scan
  <2>2. mem' \in [Task -> Entry]
    <3>1. "Cancelled" \in Status /\ "later" \in When
      BY DEF Status, When
    <3>2. \A t \in Task : /\ mem[t] \in Entry
                          /\ [mem[t] EXCEPT !.status = "Cancelled"] \in Entry
                          /\ [mem[t] EXCEPT !.when = "later"] \in Entry
      BY <3>1, EntryTyped DEF TypeOK
    <3> QED BY <2>1, <3>2
  <2> DEFINE cand == {t \in Task \ late : Due(t) /\ (paused => t \in Reminder)}
             plan == {<<SetStatus(t, "Cancelled")>> : t \in late}
                     \cup {<<SetFields(t, "later", 0)>> :
                           t \in {u \in Task : Unscheduled(u)}}
  <2>3. plan \in SUBSET Seq(Write)
    <3>1. \A t \in Task : /\ SetStatus(t, "Cancelled") \in Write
                          /\ SetFields(t, "later", 0) \in Write
      BY WritesTyped DEF Status, When
    <3>2. \A t \in Task : /\ <<SetStatus(t, "Cancelled")>> \in Seq(Write)
                          /\ <<SetFields(t, "later", 0)>> \in Seq(Write)
      BY <3>1
    <3> QED BY <3>2
  <2>4. sched' = [sched EXCEPT !.stage = "claiming", !.cand = cand,
                               !.plan = plan]
    BY <2>1
  <2>5. cand \in SUBSET Task
    OBVIOUS
  <2>6. sched' \in Pass
    <3> HIDE DEF plan, cand
    <3> QED BY <2>3, <2>4, <2>5 DEF TypeOK, Pass, Stage
  <2> QED
    BY <1>9, <2>2, <2>6 DEF Scan, TypeOK, TaskKnown
<1>10. ASSUME NEW t \in Task, try_claim_task(t) PROVE TypeOK' /\ TaskKnown'
  <2>1. sched' \in Pass
    <3>1. CASE Claimable(row[t])
      <4>1. sched' = [sched EXCEPT !.cand = @ \ {t}, !.held = t]
        BY <1>10, <3>1 DEF try_claim_task
      <4>2. sched.cand \ {t} \in SUBSET Task
        BY DEF TypeOK, Pass
      <4> QED BY <4>1, <4>2 DEF TypeOK, Pass
    <3>2. CASE ~Claimable(row[t])
      <4>1. sched' = [sched EXCEPT !.cand = @ \ {t}]
        BY <1>10, <3>2 DEF try_claim_task
      <4>2. sched.cand \ {t} \in SUBSET Task
        BY DEF TypeOK, Pass
      <4> QED BY <4>1, <4>2 DEF TypeOK, Pass
    <3> QED BY <3>1, <3>2
  <2>2. row' \in [Task -> Row]
    <3>1. CASE Claimable(row[t])
      <4>1. row' = [row EXCEPT ![t] = [@ EXCEPT !.status = "InProgress",
                                                !.lease = "live"]]
        BY <1>10, <3>1 DEF try_claim_task
      <4>2. [row[t] EXCEPT !.status = "InProgress", !.lease = "live"] \in Row
        BY DEF TypeOK, Row, Status
      <4> QED BY <4>1, <4>2 DEF TypeOK
    <3>2. CASE ~Claimable(row[t])
      BY <1>10, <3>2 DEF try_claim_task, TypeOK
    <3> QED BY <3>1, <3>2
  <2> QED
    BY <1>10, <2>1, <2>2 DEF try_claim_task, TypeOK, TaskKnown
<1>11. ASSUME MarkClaimed PROVE TypeOK' /\ TaskKnown'
  <2>1. sched.held \in Task
    BY <1>11 DEF MarkClaimed, TypeOK, Pass
  <2>2. mem' \in [Task -> Entry]
    <3>1. "InProgress" \in Status /\ "now" \in When
      BY DEF Status, When
    <3> QED BY <1>11, <2>1, <3>1, QueueTyped DEF MarkClaimed, TypeOK
  <2>3. sched' \in Pass
    <3>1. mem[sched.held].attempt \in Nat
      BY <2>1 DEF TypeOK, Entry
    <3> QED BY <1>11, <2>1, <3>1 DEF MarkClaimed, TypeOK, Pass
  <2> QED
    BY <1>11, <2>2, <2>3 DEF MarkClaimed, TypeOK, TaskKnown
<1>12. ASSUME ReturnDue PROVE TypeOK' /\ TaskKnown'
    BY <1>12 DEF ReturnDue, TypeOK, TaskKnown, Pass, Stage
<1>13. ASSUME NEW t \in Task, NEW w \in Worker, Spawn(t, w)
       PROVE TypeOK' /\ TaskKnown'
  <2>1. sched.clone[t] \in Nat
    BY DEF TypeOK, Pass
  <2>2. run' \in [Worker -> Run] /\ TaskKnown'
    BY <1>13, <2>1 DEF Spawn, TypeOK, TaskKnown, Run
  <2>3. sched' \in Pass
    BY <1>13 DEF Spawn, TypeOK, Pass
  <2> QED
    BY <1>13, <2>2, <2>3 DEF Spawn, TypeOK
<1>14. ASSUME EndPass \/ DropPass \/ Restart PROVE TypeOK' /\ TaskKnown'
  <2>1. IdlePass \in Pass
    BY DEF IdlePass, Pass, Stage, Age
  <2>2. NoWrites \in [Actor -> Seq(Write)]
    BY DEF NoWrites
  <2>3. FreeRun \in Run
    BY DEF FreeRun, Run
  <2>4. CASE EndPass
    BY <2>1, <2>4 DEF EndPass, TypeOK, TaskKnown
  <2>5. CASE DropPass
    <3>1. <<>> \in Seq(Write)
      OBVIOUS
    <3>2. todo' \in [Actor -> Seq(Write)]
      BY <2>5, <3>1 DEF DropPass, TypeOK
    <3> QED BY <2>1, <2>5, <3>2 DEF DropPass, TypeOK, TaskKnown
  <2>6. CASE Restart
    <3>1. mem' \in [Task -> Entry]
      BY <2>6 DEF Restart, TypeOK, Row, Entry
    <3>2. TaskKnown'
      BY <2>6 DEF Restart, TaskKnown, FreeRun
    <3> QED BY <2>1, <2>2, <2>3, <2>6, <3>1, <3>2 DEF Restart, TypeOK
  <2> QED BY <1>14, <2>4, <2>5, <2>6
<1>15. ASSUME NEW w \in Worker, Begin(w) \/ Close(w)
       PROVE TypeOK' /\ TaskKnown'
  <2>1. FreeRun \in Run
    BY DEF FreeRun, Run
  <2>2. CASE Begin(w)
    <3>1. run[w].task \in Task
      BY <2>2 DEF Begin, TaskKnown
    <3>2. run' \in [Worker -> Run] /\ TaskKnown'
      BY <2>2, <3>1 DEF Begin, TypeOK, TaskKnown, Run
    <3>3. sup' \in [Task -> Age] /\ tries' \in [Task -> Nat]
      BY <2>2, <3>1 DEF Begin, TypeOK, Age
    <3> QED BY <2>2, <3>2, <3>3 DEF Begin, TypeOK
  <2>3. CASE Close(w)
    BY <2>1, <2>3 DEF Close, TypeOK, TaskKnown, FreeRun, Age
  <2> QED BY <1>15, <2>2, <2>3
<1>16. ASSUME NEW w \in Worker, NEW s \in {"Completed", "Paused", "Failed"},
              finalize_task(w, s)
       PROVE TypeOK' /\ TaskKnown'
  <2> DEFINE t == run[w].task
             again == t \in Recurring /\ s # "Paused"
             stored == IF again THEN "Pending" ELSE s
             when == IF again THEN "later" ELSE mem[t].when
  <2>1. t \in Task /\ stored \in Status
    BY <1>16 DEF finalize_task, TaskKnown, Status
  <2>2. run' \in [Worker -> Run] /\ TaskKnown'
    <3>1. run' = [run EXCEPT ![w].stage = "closing"] /\ run[w].stage = "running"
      BY <1>16 DEF finalize_task, Closing
    <3> QED BY <3>1 DEF TypeOK, TaskKnown, Run
  <2>3. CASE mem[t].status = "Cancelled"
    BY <1>16, <2>2, <2>3 DEF finalize_task, TypeOK
  <2>4. CASE mem[t].status # "Cancelled"
    <3>1. mem' \in [Task -> Entry]
      <4>1. mem' = [mem EXCEPT ![t].status = stored,
                               ![t].when = IF again THEN "later" ELSE @]
        BY <1>16, <2>4 DEF finalize_task
      <4>2. "later" \in When
        BY DEF When
      <4> HIDE DEF stored, again, t
      <4>3. CASE again
        <5>1. mem' = [mem EXCEPT ![t].status = stored, ![t].when = "later"]
          BY <4>1, <4>3
        <5> QED BY <2>1, <4>2, <5>1, QueueTyped DEF TypeOK
      <4>4. CASE ~again
        <5>1. mem' = [mem EXCEPT ![t] = [mem[t] EXCEPT !.status = stored,
                                                !.when = mem[t].when]]
          BY <4>1, <4>4
        <5>2. mem[t] \in Entry /\ mem[t].when \in When
          BY <2>1 DEF TypeOK, Entry
        <5>3. [mem[t] EXCEPT !.status = stored, !.when = mem[t].when] \in Entry
          BY <2>1, <5>2, EntryTyped
        <5> QED BY <5>1, <5>3 DEF TypeOK
      <4> QED BY <4>3, <4>4
    <3>2. when \in When
      BY <2>1 DEF TypeOK, Entry, When
    <3>3. <<SetStatus(t, stored)>> \o
          (IF t \in Recurring THEN <<SetFields(t, when, 0)>> ELSE <<>>)
            \in Seq(Write)
      <4>1. SetStatus(t, stored) \in Write /\ SetFields(t, when, 0) \in Write
        BY <2>1, <3>2, WritesTyped
      <4> HIDE DEF t, stored, when
      <4> QED BY <4>1
    <3>4. todo' \in [Actor -> Seq(Write)]
      <4> DEFINE ws == <<SetStatus(t, stored)>> \o
                       (IF t \in Recurring THEN <<SetFields(t, when, 0)>>
                                           ELSE <<>>)
      <4>1. todo' = [todo EXCEPT ![w] = ws]
        BY <1>16, <2>4 DEF finalize_task
      <4>2. ws \in Seq(Write)
        BY <3>3
      <4> HIDE DEF ws
      <4> QED BY <4>1, <4>2 DEF TypeOK
    <3>5. tries' \in [Task -> Nat]
      BY <1>16, <2>4 DEF finalize_task, TypeOK
    <3> QED BY <1>16, <2>2, <3>1, <3>4, <3>5 DEF finalize_task, TypeOK
  <2> QED BY <2>3, <2>4
<1>17. ASSUME NEW w \in Worker, reschedule_task_retry(w)
       PROVE TypeOK' /\ TaskKnown'
  <2> DEFINE t == run[w].task
             n == run[w].attempt + 1
  <2>1. t \in Task /\ n \in Nat
    BY <1>17 DEF reschedule_task_retry, Requeue, TypeOK, TaskKnown, Run
  <2>2. run' \in [Worker -> Run] /\ TaskKnown'
    BY <1>17 DEF reschedule_task_retry, Requeue, Closing, TypeOK, TaskKnown, Run
  <2>3. mem' \in [Task -> Entry]
    <3>1. [status |-> "Pending", when |-> "later", attempt |-> n] \in Entry
      BY <2>1 DEF Entry, Status, When
    <3>2. mem' = [mem EXCEPT ![t] = [status |-> "Pending", when |-> "later",
                                     attempt |-> n]]
      BY <1>17 DEF reschedule_task_retry, Requeue
    <3> QED BY <3>1, <3>2 DEF TypeOK
  <2>4. <<SetStatus(t, "Pending"), SetFields(t, "later", n)>> \in Seq(Write)
    <3>1. SetStatus(t, "Pending") \in Write /\ SetFields(t, "later", n) \in Write
      BY <2>1, WritesTyped DEF Status, When
    <3> QED BY <3>1
  <2>5. todo' \in [Actor -> Seq(Write)]
    BY <1>17, <2>4 DEF reschedule_task_retry, Requeue, TypeOK
  <2> QED
    BY <1>17, <2>2, <2>3, <2>5 DEF reschedule_task_retry, Requeue, TypeOK
<1>18. ASSUME NEW u \in User, NEW t \in Task, UserStep(u, t)
       PROVE TypeOK' /\ TaskKnown'
  <2>1. FirstWhen(t) \in When /\ mem[t].when \in When
    BY DEF FirstWhen, When, TypeOK, Entry
  <2>2. CASE pause_task(u, t)
    <3> DEFINE ws == <<SetStatus(t, "Paused")>>
    <3>1. ws \in Seq(Write)
      <4>1. SetStatus(t, "Paused") \in Write
        BY WritesTyped DEF Status
      <4> QED BY <4>1
    <3>2. mem' \in [Task -> Entry]
      <4>1. "Paused" \in Status
        BY DEF Status
      <4> QED BY <2>1, <2>2, <4>1, QueueTyped DEF pause_task, TypeOK
    <3>3. todo' = [todo EXCEPT ![u] = ws] /\ ops' = ops + 1
      BY <2>2 DEF pause_task, Request
    <3>4. UNCHANGED <<row, sup, sched, run, rounds, faults, tries>>
      BY <2>2 DEF pause_task
    <3>5. todo' \in [Actor -> Seq(Write)]
      <4> HIDE DEF ws
      <4> QED BY <3>1, <3>3 DEF TypeOK
    <3> QED BY <3>2, <3>3, <3>4, <3>5 DEF TypeOK, TaskKnown
  <2>3. CASE resume_task(u, t)
    <3> DEFINE when == IF t \in Recurring THEN "now" ELSE mem[t].when
               ws == <<SetStatus(t, "Pending"), SetFields(t, when, 0)>>
    <3>1. when \in When
      BY <2>1 DEF When
    <3>2. ws \in Seq(Write)
      <4>1. SetStatus(t, "Pending") \in Write /\ SetFields(t, when, 0) \in Write
        BY <3>1, WritesTyped DEF Status
      <4> QED BY <4>1
    <3>3. mem' \in [Task -> Entry]
      <4>1. mem' = [mem EXCEPT ![t].status = "Pending", ![t].when = when]
        BY <2>3 DEF resume_task
      <4>2. "Pending" \in Status
        BY DEF Status
      <4> HIDE DEF when
      <4> QED BY <3>1, <4>1, <4>2, QueueTyped DEF TypeOK
    <3> QED
      <4>1. todo' = [todo EXCEPT ![u] = ws] /\ ops' = ops + 1
        BY <2>3 DEF resume_task, Request
      <4>2. tries' = [tries EXCEPT ![t] = 0]
            /\ UNCHANGED <<row, sup, sched, run, rounds, faults>>
        BY <2>3 DEF resume_task
      <4>3. todo' \in [Actor -> Seq(Write)]
        <5> HIDE DEF ws
        <5> QED BY <3>2, <4>1 DEF TypeOK
      <4> QED BY <3>3, <4>1, <4>2, <4>3 DEF TypeOK, TaskKnown
  <2>4. CASE cancel_task(u, t)
    <3>1. SetStatus(t, "Cancelled") \in Write
      BY WritesTyped DEF Status
    <3>2. row' \in [Task -> Row]
      <4>1. Apply(row[t], SetStatus(t, "Cancelled")) \in Row
        BY <3>1, ApplyTyped DEF TypeOK
      <4> QED BY <2>4, <4>1 DEF cancel_task, TypeOK
    <3>3. mem' \in [Task -> Entry]
      <4>1. "Cancelled" \in Status
        BY DEF Status
      <4> QED BY <2>1, <2>4, <4>1, QueueTyped DEF cancel_task, TypeOK
    <3> QED
      BY <2>4, <3>2, <3>3 DEF cancel_task, Request, TypeOK, TaskKnown
  <2>5. CASE retry_task(u, t)
    <3> DEFINE ws == <<[task |-> t, status |-> "Pending", when |-> "now",
                       attempt |-> 0]>>
    <3>1. ws \in Seq(Write)
      BY DEF Write, Status, When
    <3>2. mem' \in [Task -> Entry]
      <4>1. "Pending" \in Status /\ "now" \in When
        BY DEF Status, When
      <4> QED BY <2>5, <4>1, QueueTyped DEF retry_task, TypeOK
    <3>3. todo' = [todo EXCEPT ![u] = ws] /\ ops' = ops + 1
      BY <2>5 DEF retry_task, Request
    <3>4. tries' = [tries EXCEPT ![t] = 0]
          /\ UNCHANGED <<row, sup, sched, run, rounds, faults>>
      BY <2>5 DEF retry_task
    <3>5. todo' \in [Actor -> Seq(Write)]
      <4> HIDE DEF ws
      <4> QED BY <3>1, <3>3 DEF TypeOK
    <3> QED BY <3>2, <3>3, <3>4, <3>5 DEF TypeOK, TaskKnown
  <2>6. CASE UpdateSimilar(u, t)
    <3> DEFINE s == IF mem[t].status = "InProgress" THEN "InProgress"
                                                    ELSE "Pending"
               ws == <<[task |-> t, status |-> s, when |-> FirstWhen(t),
                        attempt |-> 0],
                       SetFields(t, "keep", 1), SetFields(t, FirstWhen(t), 0)>>
    <3>1. s \in Status
      BY DEF Status
    <3>2. ws \in Seq(Write)
      <4>1. [task |-> t, status |-> s, when |-> FirstWhen(t), attempt |-> 0]
              \in Write
        BY <2>1, <3>1 DEF Write
      <4>2. /\ SetFields(t, "keep", 1) \in Write
            /\ SetFields(t, FirstWhen(t), 0) \in Write
        BY <2>1, WritesTyped
      <4> QED BY <4>1, <4>2
    <3>3. mem' \in [Task -> Entry]
      <4>1. [status |-> s, when |-> FirstWhen(t), attempt |-> 1] \in Entry
        BY <2>1, <3>1 DEF Entry
      <4> QED BY <2>6, <4>1 DEF UpdateSimilar, TypeOK
    <3>4. todo' = [todo EXCEPT ![u] = ws] /\ ops' = ops + 1
      BY <2>6 DEF UpdateSimilar, Request
    <3>5. tries' = [tries EXCEPT ![t] = 0]
          /\ UNCHANGED <<row, sup, sched, run, rounds, faults>>
      BY <2>6 DEF UpdateSimilar
    <3>6. todo' \in [Actor -> Seq(Write)]
      <4> HIDE DEF ws
      <4> QED BY <3>2, <3>4 DEF TypeOK
    <3> QED BY <3>3, <3>4, <3>5, <3>6 DEF TypeOK, TaskKnown
  <2> QED BY <1>18, <2>2, <2>3, <2>4, <2>5, <2>6 DEF UserStep
<1> QED
    BY <1>1, <1>2, <1>3, <1>4, <1>5, <1>6, <1>7, <1>8, <1>9, <1>10, <1>11,
       <1>12, <1>13, <1>14, <1>15, <1>16, <1>17, <1>18
    DEF Next, SchedulerStep, Finish, Succeed, AskForInput, FailForGood

LEMMA Typed == Spec => [](TypeOK /\ TaskKnown)
BY InitTyped, TypedStep, PTL DEF Spec

(* TypeOK: every variable keeps its type, for any tasks, workers, users,   *)
(* faults and bounds.                                                      *)
THEOREM TypeCorrect == Spec => []TypeOK
BY Typed, PTL

----------------------------------------------------------------------------
(* Leases of waiting rows. *)

LEMMA UnleasedStep ==
    ASSUME TypeOK, PendingRowUnleased, [Next]_vars
    PROVE  PendingRowUnleased'
<1> USE DEF PendingRowUnleased
<1>1. CASE UNCHANGED row
    BY <1>1
<1>2. ASSUME NEW a \in Actor, WriteRow(a) PROVE PendingRowUnleased'
  <2>1. Head(todo[a]) \in Write
    BY <1>2 DEF WriteRow, TypeOK
  <2>2. row' = [row EXCEPT ![Head(todo[a]).task] =
                   Apply(row[Head(todo[a]).task], Head(todo[a]))]
    BY <1>2 DEF WriteRow
  <2> QED BY <2>1, <2>2 DEF Apply, TypeOK, Row, Write
<1>3. ASSUME NEW t \in Task,
             \A q \in Task \ {t} : row'[q] = row[q],
             row'[t].status = "Pending" => row'[t].lease = "none"
      PROVE  PendingRowUnleased'
    BY <1>3
<1>4. ASSUME NEW t \in Task, ComesDue(t) PROVE PendingRowUnleased'
  <2>1. row' = [row EXCEPT ![t].when = IF @ = "later" THEN "now" ELSE @]
    BY <1>4 DEF ComesDue
  <2>2. /\ \A q \in Task \ {t} : row'[q] = row[q]
        /\ row'[t].status = row[t].status /\ row'[t].lease = row[t].lease
    BY <2>1 DEF TypeOK, Row
  <2> QED BY <1>3, <2>2
<1>5. ASSUME NEW t \in Task, LeaseLapses(t) PROVE PendingRowUnleased'
  <2>1. row' = [row EXCEPT ![t].lease = "lapsed"] /\ row[t].lease = "live"
    BY <1>5 DEF LeaseLapses
  <2>2. /\ \A q \in Task \ {t} : row'[q] = row[q]
        /\ row'[t].status = row[t].status
    BY <2>1 DEF TypeOK, Row
  <2> QED BY <1>3, <2>1, <2>2
<1>6. ASSUME NEW t \in Task, try_claim_task(t) PROVE PendingRowUnleased'
  <2>1. CASE ~Claimable(row[t])
    BY <1>1, <1>6, <2>1 DEF try_claim_task
  <2>2. CASE Claimable(row[t])
    <3>1. row' = [row EXCEPT ![t].status = "InProgress", ![t].lease = "live"]
      BY <1>6, <2>2 DEF try_claim_task
    <3>2. /\ \A q \in Task \ {t} : row'[q] = row[q]
          /\ row'[t].status = "InProgress"
      BY <3>1 DEF TypeOK, Row
    <3> QED BY <1>3, <3>2
  <2> QED BY <2>1, <2>2
<1>7. ASSUME NEW u \in User, NEW t \in Task, cancel_task(u, t)
      PROVE PendingRowUnleased'
  <2>1. CASE row' = [row EXCEPT ![t] = Apply(@, SetStatus(t, "Cancelled"))]
    <3>1. Apply(row[t], SetStatus(t, "Cancelled")).status = "Cancelled"
      BY DEF Apply, SetStatus
    <3>2. /\ \A q \in Task \ {t} : row'[q] = row[q]
          /\ row'[t].status = "Cancelled"
      BY <2>1, <3>1 DEF TypeOK
    <3> QED BY <1>3, <3>2
  <2> QED BY <1>1, <1>7, <2>1 DEF cancel_task
<1> QED
    BY <1>1, <1>2, <1>4, <1>5, <1>6, <1>7
    DEF Next, vars, SchedulerStep, Finish, Succeed, AskForInput, FailForGood,
        UserStep, StartPass, Recover, Persist, WriteStalled, Scan, MarkClaimed,
        ReturnDue, EndPass, DropPass, Spawn, Begin, finalize_task,
        reschedule_task_retry, Requeue, Close, pause_task, resume_task,
        retry_task, UpdateSimilar, Restart, FailWrite, GrowsOld

(* PendingRowUnleased: whatever the order of the statements, the faults    *)
(* and the requests, a row that waits is not held up by the lease of an    *)
(* old claim.                                                              *)
THEOREM WaitingRowsCanBeClaimed == Spec => []PendingRowUnleased
<1>1. Init => PendingRowUnleased
    BY DEF Init, PendingRowUnleased
<1> QED
    BY <1>1, Typed, UnleasedStep, PTL DEF Spec

----------------------------------------------------------------------------
(* One execution at a time. *)

LEMMA RunInit == Init => RunInv
BY DEF Init, IdlePass, FreeRun, RunInv, PassInv, SingleRun, BusyIsMarked,
       BusyIsNotTaken, ClaimedIsMarked, RunningIsFresh, RecoverySeesFresh,
       Busy, Executing

(* A step that leaves the pass, the executions and the supervisor states   *)
(* alone, and no task in progress another status.                          *)
LEMMA QueueStep ==
    ASSUME TypeOK, RunInv, UNCHANGED <<sched, run, sup>>,
           \A t \in Task : mem[t].status = "InProgress"
                              => mem'[t].status = "InProgress"
    PROVE  RunInv'
BY DEF RunInv, PassInv, SingleRun, BusyIsMarked, BusyIsNotTaken,
       ClaimedIsMarked, RunningIsFresh, RecoverySeesFresh, Busy, Executing,
       TypeOK, Pass

LEMMA RunStep ==
    ASSUME Supervised, TypeOK, TaskKnown, RunInv, [Next]_vars
    PROVE  RunInv'
<1> USE DEF RunInv, PassInv, SingleRun, BusyIsMarked, BusyIsNotTaken,
            ClaimedIsMarked, RunningIsFresh, RecoverySeesFresh, Busy, Executing
<1>1. CASE UNCHANGED <<mem, sched, run, sup>>
    BY <1>1, QueueStep
<1>2. ASSUME NEW t \in Task, ComesDue(t) PROVE RunInv'
  <2>1. mem' = [mem EXCEPT ![t].when = "now"] /\ UNCHANGED <<sched, run, sup>>
    BY <1>2 DEF ComesDue
  <2>2. \A q \in Task : mem'[q].status = mem[q].status
    BY <2>1 DEF TypeOK, Entry
  <2> QED BY <2>1, <2>2, QueueStep
<1>3. ASSUME NEW t \in Task, GrowsOld(t) PROVE RunInv'
    BY <1>3 DEF GrowsOld, TypeOK, TaskKnown
<1>4. ASSUME StartPass PROVE RunInv'
    BY <1>4 DEF StartPass, Supervised, TypeOK, Pass
<1>5. ASSUME Recover PROVE RunInv'
  <2> DEFINE stalled == {t \in Task : /\ mem[t].status = "InProgress"
                                      /\ Stale(t, sched.seen[t])}
  <2>1. /\ sched.stage = "recover" /\ sched'.stage = "stalling"
        /\ sched'.batch = stalled
        /\ sched'.cand = sched.cand /\ sched'.held = sched.held
        /\ UNCHANGED <<run, sup>>
    BY <1>5 DEF Recover, Stalled, TypeOK, Pass
  <2>2. \A t \in Task : Busy(t) => t \notin stalled
    BY <2>1 DEF Stale, Supervised
  <2>3. \A t \in Task \ stalled : mem'[t] = mem[t]
    BY <1>5 DEF Recover, Stalled
  <2> HIDE DEF stalled
  <2> QED BY <2>1, <2>2, <2>3
<1>6. ASSUME Persist PROVE RunInv'
    BY <1>6 DEF Persist, TypeOK, Pass
<1>7. ASSUME NEW t \in Task, WriteStalled(t) PROVE RunInv'
    BY <1>7 DEF WriteStalled, TypeOK, Pass
<1>8. ASSUME Scan PROVE RunInv'
  <2>1. /\ sched.stage = "stalling" /\ sched.batch = {}
        /\ UNCHANGED <<run, sup>>
    BY <1>8 DEF Scan
  <2>2. /\ sched'.stage = "claiming"
        /\ sched'.batch = sched.batch /\ sched'.held = sched.held
        /\ \A t \in sched'.cand : t \in Task /\ mem[t].status = "Pending"
    BY <1>8 DEF Scan, Due, TypeOK, Pass
  <2>3. \A t \in Task : mem[t].status = "InProgress"
                           => mem'[t].status = "InProgress"
    <3> SUFFICES ASSUME NEW t \in Task, mem[t].status = "InProgress"
                 PROVE  mem'[t].status = "InProgress"
      OBVIOUS
    <3>1. ~Due(t) /\ ~Unscheduled(t)
      BY DEF Due, Unscheduled
    <3> QED BY <1>8, <3>1 DEF Scan
  <2> QED BY <2>1, <2>2, <2>3, TaskAssumption
<1>9. ASSUME NEW t \in Task, try_claim_task(t) PROVE RunInv'
  <2>1. /\ sched.stage = "claiming" /\ sched'.stage = "claiming"
        /\ t \in sched.cand /\ sched'.cand = sched.cand \ {t}
        /\ sched'.held \in {sched.held, t} /\ sched'.batch = sched.batch
        /\ UNCHANGED <<mem, run, sup>>
    BY <1>9 DEF try_claim_task, TypeOK, Pass
  <2> QED BY <2>1
<1>10. ASSUME MarkClaimed PROVE RunInv'
  <2>1. sched.held \in Task /\ ~Busy(sched.held) /\ sched.stage = "claiming"
    BY <1>10 DEF MarkClaimed, TypeOK, Pass
  <2>2. /\ sched'.stage = "claiming"
        /\ sched'.cand = sched.cand /\ sched'.held = NoTask
        /\ sched'.batch = sched.batch \cup {sched.held}
        /\ UNCHANGED <<run, sup>>
    BY <1>10, <2>1 DEF MarkClaimed, TypeOK, Pass
  <2>3. /\ mem'[sched.held].status = "InProgress"
        /\ \A t \in Task \ {sched.held} : mem'[t] = mem[t]
    BY <1>10, <2>1 DEF MarkClaimed, TypeOK, Entry
  <2>4. sched.batch \subseteq Task
    BY DEF TypeOK, Pass
  <2> QED BY <2>1, <2>2, <2>3, <2>4, TaskAssumption
<1>11. ASSUME ReturnDue PROVE RunInv'
    BY <1>11 DEF ReturnDue, TypeOK, Pass
<1>12. ASSUME NEW t \in Task, NEW w \in Worker, Spawn(t, w) PROVE RunInv'
  <2>1. /\ sched.stage = "spawning" /\ sched'.stage = "spawning"
        /\ t \in sched.batch /\ sched'.batch = sched.batch \ {t}
        /\ sched'.cand = sched.cand /\ sched'.held = sched.held
        /\ UNCHANGED <<mem, sup>>
    BY <1>12 DEF Spawn, TypeOK, Pass
  <2>2. /\ run'[w].stage = "queued" /\ run'[w].task = t
        /\ \A v \in Worker \ {w} : run'[v] = run[v]
    BY <1>12 DEF Spawn, TypeOK, Run
  <2>3. ~Busy(t) /\ mem[t].status = "InProgress"
    BY <2>1
  <2> QED BY <2>1, <2>2, <2>3, TaskAssumption
<1>13. ASSUME EndPass \/ DropPass PROVE RunInv'
  <2>1. /\ sched'.stage = "idle" /\ sched'.batch = {}
        /\ sched'.cand = {} /\ sched'.held = NoTask
        /\ UNCHANGED <<mem, run, sup>>
    BY <1>13 DEF EndPass, DropPass, IdlePass
  <2> QED BY <2>1, TaskAssumption
<1>14. ASSUME Restart PROVE RunInv'
    BY <1>14 DEF Restart, IdlePass, FreeRun
<1>15. ASSUME NEW w \in Worker, Begin(w) PROVE RunInv'
    BY <1>15 DEF Begin, TypeOK, TaskKnown, Run
<1>16. ASSUME NEW w \in Worker, NEW s, finalize_task(w, s) PROVE RunInv'
  <2>1. /\ run[w].stage = "running" /\ run'[w].stage = "closing"
        /\ \A v \in Worker \ {w} : run'[v] = run[v]
        /\ UNCHANGED <<sched, sup>>
    BY <1>16 DEF finalize_task, Closing, TypeOK, Run
  <2>2. \A q \in Task \ {run[w].task} : mem'[q] = mem[q]
    BY <1>16 DEF finalize_task, TypeOK
  <2>3. /\ run[w].task \in Task
        /\ \A v \in Worker \ {w} : ~Executing(v, run[w].task)
        /\ sched.stage # "idle" => run[w].task \notin sched.batch
    BY <2>1 DEF TaskKnown
  <2>4. \A v \in Worker, q \in Task : Executing(v, q)' =>
           Executing(v, q) /\ v # w /\ q # run[w].task
    BY <2>1, <2>3
  <2>5. PassInv' /\ SingleRun' /\ BusyIsMarked' /\ BusyIsNotTaken'
    BY <2>1, <2>2, <2>4
  <2>6. ClaimedIsMarked'
    BY <2>1, <2>2, <2>3 DEF TypeOK, Pass
  <2>7. RunningIsFresh' /\ RecoverySeesFresh'
    BY <2>1
  <2> QED BY <2>5, <2>6, <2>7
<1>17. ASSUME NEW w \in Worker, reschedule_task_retry(w) PROVE RunInv'
  <2>1. /\ run[w].stage = "running" /\ run'[w].stage = "closing"
        /\ \A v \in Worker \ {w} : run'[v] = run[v]
        /\ UNCHANGED <<sched, sup>>
    BY <1>17 DEF reschedule_task_retry, Requeue, Closing, TypeOK, Run
  <2>2. \A q \in Task \ {run[w].task} : mem'[q] = mem[q]
    BY <1>17 DEF reschedule_task_retry, Requeue, TypeOK
  <2>3. /\ run[w].task \in Task
        /\ \A v \in Worker \ {w} : ~Executing(v, run[w].task)
        /\ sched.stage # "idle" => run[w].task \notin sched.batch
    BY <2>1 DEF TaskKnown
  <2>4. \A v \in Worker, q \in Task : Executing(v, q)' =>
           Executing(v, q) /\ v # w /\ q # run[w].task
    BY <2>1, <2>3
  <2>5. PassInv' /\ SingleRun' /\ BusyIsMarked' /\ BusyIsNotTaken'
    BY <2>1, <2>2, <2>4
  <2>6. ClaimedIsMarked'
    BY <2>1, <2>2, <2>3 DEF TypeOK, Pass
  <2>7. RunningIsFresh' /\ RecoverySeesFresh'
    BY <2>1
  <2> QED BY <2>5, <2>6, <2>7
<1>18. ASSUME NEW w \in Worker, Close(w) PROVE RunInv'
    BY <1>18 DEF Close, FreeRun, TypeOK, TaskKnown, Run
<1>19. ASSUME NEW u \in User, NEW t \in Task, UserStep(u, t) PROVE RunInv'
  <2>1. UNCHANGED <<sched, run, sup>>
    BY <1>19 DEF UserStep, pause_task, resume_task, cancel_task, retry_task,
                 UpdateSimilar
  <2>2. \A q \in Task \ {t} : mem'[q] = mem[q]
    BY <1>19 DEF UserStep, pause_task, resume_task, cancel_task, retry_task,
                 UpdateSimilar, TypeOK
  <2>3. mem[t].status = "InProgress" => mem'[t].status = "InProgress"
    <3>1. CASE UpdateSimilar(u, t)
      BY <3>1 DEF UpdateSimilar, TypeOK
    <3>2. CASE pause_task(u, t) \/ resume_task(u, t) \/ retry_task(u, t)
      BY <3>2 DEF pause_task, resume_task, retry_task
    <3> QED BY <1>19, <3>1, <3>2 DEF UserStep, cancel_task, Request, Supervised
  <2> QED BY <2>1, <2>2, <2>3, QueueStep
<1> QED
    BY <1>1, <1>2, <1>3, <1>4, <1>5, <1>6, <1>7, <1>8, <1>9, <1>10, <1>11,
       <1>12, <1>13, <1>14, <1>15, <1>16, <1>17, <1>18, <1>19
    DEF Next, vars, SchedulerStep, Finish, Succeed, AskForInput, FailForGood,
        WriteRow, FailWrite, LeaseLapses

(* SingleRun: a task is executed once at a time, whatever fails and        *)
(* whenever the process restarts, if it has a stall timeout, its           *)
(* executions start before the next tick and nobody cancels it.            *)
THEOREM OneExecution ==
    ASSUME Supervised
    PROVE  Spec => []SingleRun
<1>1. RunInv => SingleRun
    BY DEF RunInv
<1> QED
    BY <1>1, RunInit, RunStep, Typed, PTL DEF Spec

----------------------------------------------------------------------------
(* Executions within the attempts. *)

(* What the count assumes besides: no restart, which forgets attempts not  *)
(* written yet, and one attempt at least (runs.rs clamps max_attempts).    *)
NoRestart == "restart" \notin Faults /\ MaxAttempts # 0

LEMMA AttemptsInit ==
    ASSUME NoRestart, Init
    PROVE  AttemptsInv
<1>1. MaxAttempts \in Nat
    BY NumberAssumption
<1> QED
    BY <1>1, TaskAssumption
    DEF NoRestart, Init, IdlePass, FreeRun, AttemptsInv, AttemptsBounded,
        WaitingHasAttempt, ClaimedHasAttempt, RunHasAttempt, HasAttempt,
        Counted, Busy, Executing

LEMMA AttemptsStep ==
    ASSUME Supervised, NoRestart, TypeOK, TaskKnown, RunInv, AttemptsInv,
           [Next]_vars
    PROVE  AttemptsInv'
<1> USE DEF AttemptsInv, AttemptsBounded, WaitingHasAttempt,
            ClaimedHasAttempt, RunHasAttempt, HasAttempt, Counted,
            Busy, Executing
<1>0. /\ MaxAttempts \in Nat
      /\ \A t \in Task : mem[t].attempt \in Nat /\ tries[t] \in Nat
      /\ sched.batch \subseteq Task /\ sched.cand \subseteq Task
      /\ \A t \in Task : sched.clone[t] \in Nat
      /\ \A w \in Worker : run[w].attempt \in Nat
    BY NumberAssumption DEF TypeOK, Entry, Pass, Run
<1>1. CASE UNCHANGED <<mem, sched, run, tries>>
    BY <1>1
<1>2. ASSUME NEW t \in Task, ComesDue(t) PROVE AttemptsInv'
  <2>1. mem' = [mem EXCEPT ![t].when = "now"] /\ UNCHANGED <<sched, run, tries>>
    BY <1>2 DEF ComesDue
  <2>2. \A q \in Task : /\ mem'[q].status = mem[q].status
                        /\ mem'[q].attempt = mem[q].attempt
    BY <2>1 DEF TypeOK, Entry
  <2> QED BY <1>0, <2>1, <2>2
<1>3. ASSUME StartPass \/ Persist \/ ReturnDue PROVE AttemptsInv'
  <2>1. /\ UNCHANGED <<mem, run, tries>>
        /\ sched'.batch = sched.batch /\ sched'.clone = sched.clone
        /\ sched'.cand = sched.cand /\ sched'.held = sched.held
        /\ sched'.stage \in {"claiming", "spawning"}
              => sched.stage \in {"claiming", "spawning"}
    BY <1>3 DEF StartPass, Persist, ReturnDue, TypeOK, Pass
  <2> QED BY <2>1
<1>4. ASSUME Recover PROVE AttemptsInv'
  <2> DEFINE stalled == {t \in Task : /\ mem[t].status = "InProgress"
                                      /\ Stale(t, sched.seen[t])}
  <2>1. /\ sched.stage = "recover" /\ sched'.stage = "stalling"
        /\ sched'.cand = sched.cand /\ sched'.held = sched.held
        /\ UNCHANGED <<run, tries>>
    BY <1>4 DEF Recover, Stalled, TypeOK, Pass
  <2>2. \A t \in stalled : ~Busy(t) /\ mem[t].status = "InProgress"
    BY <2>1 DEF Stale, Supervised, RunInv, RecoverySeesFresh
  <2>3. \A t \in Task : /\ mem'[t].attempt = mem[t].attempt
                        /\ mem'[t].status # mem[t].status => t \in stalled
    BY <1>4 DEF Recover, Stalled, TypeOK, Entry
  <2> HIDE DEF stalled
  <2>4. AttemptsBounded' /\ ClaimedHasAttempt' /\ RunHasAttempt'
    BY <2>1, <2>3
  <2>5. WaitingHasAttempt'
    BY <2>1, <2>2, <2>3
  <2> QED BY <2>4, <2>5
<1>5. ASSUME NEW t \in Task, WriteStalled(t) PROVE AttemptsInv'
  <2>1. /\ UNCHANGED <<mem, run, tries>>
        /\ sched'.stage = "stalling"
        /\ sched'.cand = sched.cand /\ sched'.held = sched.held
    BY <1>5 DEF WriteStalled, TypeOK, Pass
  <2> QED BY <2>1
<1>6. ASSUME Scan PROVE AttemptsInv'
  <2>1. sched.batch = {} /\ UNCHANGED <<run, tries>>
    BY <1>6 DEF Scan
  <2>2. /\ sched'.batch = sched.batch /\ sched'.held = sched.held
        /\ \A t \in sched'.cand : t \in Task /\ mem[t].status = "Pending"
    BY <1>6 DEF Scan, Due, TypeOK, Pass
  <2>3. \A t \in Task : /\ mem'[t].attempt = mem[t].attempt
                        /\ mem'[t].status \in {mem[t].status, "Cancelled"}
    BY <1>6 DEF Scan, TypeOK, Entry
  <2>4. AttemptsBounded' /\ ClaimedHasAttempt' /\ RunHasAttempt'
    BY <2>1, <2>2, <2>3
  <2>5. WaitingHasAttempt'
    BY <2>1, <2>2, <2>3
  <2> QED BY <2>4, <2>5
<1>7. ASSUME NEW t \in Task, try_claim_task(t) PROVE AttemptsInv'
  <2>1. /\ sched'.stage = sched.stage
        /\ t \in sched.cand /\ sched'.cand = sched.cand \ {t}
        /\ sched'.held \in {sched.held, t} /\ sched'.batch = sched.batch
        /\ sched'.clone = sched.clone
        /\ UNCHANGED <<mem, run, tries>>
    BY <1>7 DEF try_claim_task, TypeOK, Pass
  <2> QED BY <1>0, <2>1
<1>8. ASSUME MarkClaimed PROVE AttemptsInv'
  <2>1. sched.held \in Task /\ sched.stage = "claiming"
    BY <1>8 DEF MarkClaimed, TypeOK, Pass, RunInv, PassInv
  <2>2. /\ sched'.cand = sched.cand /\ sched'.held = NoTask
        /\ sched'.batch = sched.batch \cup {sched.held}
        /\ sched'.clone = [sched.clone EXCEPT ![sched.held] =
                              mem[sched.held].attempt]
        /\ UNCHANGED <<run, tries>>
    BY <1>8, <2>1 DEF MarkClaimed, TypeOK, Pass
  <2>3. /\ \A t \in Task : mem'[t].attempt = mem[t].attempt
        /\ \A t \in Task \ {sched.held} : mem'[t] = mem[t]
    BY <1>8, <2>1 DEF MarkClaimed, TypeOK, Entry
  <2>4. /\ sched'.clone[sched.held] = mem[sched.held].attempt
        /\ \A t \in Task \ {sched.held} : sched'.clone[t] = sched.clone[t]
    BY <2>1, <2>2 DEF TypeOK, Pass
  <2>5. ClaimedHasAttempt'
    <3> SUFFICES ASSUME NEW t \in sched.batch \cup {sched.held}
                 PROVE  Counted(sched'.clone[t]) /\ tries[t] < sched'.clone[t]
      BY <2>2
    <3>1. CASE t = sched.held
      BY <2>1, <2>4, <3>1
    <3>2. CASE t # sched.held
      BY <1>0, <2>1, <2>4, <3>2
    <3> QED BY <3>1, <3>2
  <2>6. WaitingHasAttempt'
    BY <2>1, <2>2, <2>3, TaskAssumption
  <2> QED BY <2>2, <2>3, <2>5, <2>6
<1>9. ASSUME NEW t \in Task, NEW w \in Worker, Spawn(t, w) PROVE AttemptsInv'
  <2>1. /\ sched.stage = "spawning" /\ sched'.stage = "spawning"
        /\ t \in sched.batch /\ sched'.batch = sched.batch \ {t}
        /\ sched'.cand = sched.cand /\ sched'.held = sched.held
        /\ sched'.clone = sched.clone
        /\ UNCHANGED <<mem, tries>>
    BY <1>9 DEF Spawn, TypeOK, Pass
  <2>2. /\ run'[w] = [stage |-> "queued", task |-> t,
                      attempt |-> sched.clone[t]]
        /\ run[w].stage = "free"
        /\ \A v \in Worker \ {w} : run'[v] = run[v]
    BY <1>9 DEF Spawn, TypeOK
  <2>3. \A q \in Task : Busy(q) => Busy(q)'
    BY <2>2
  <2>4. AttemptsBounded' /\ ClaimedHasAttempt'
    BY <1>0, <2>1
  <2>5. WaitingHasAttempt'
    BY <2>1, <2>3
  <2>6. RunHasAttempt'
    <3> SUFFICES ASSUME NEW v \in Worker
        PROVE  /\ run'[v].stage \in {"queued", "running"}
                     => Counted(run'[v].attempt)
               /\ run'[v].stage = "queued"
                     => tries[run'[v].task] < run'[v].attempt
               /\ run'[v].stage = "running"
                     => tries[run'[v].task] <= run'[v].attempt
      BY <2>1
    <3>1. CASE v = w
      BY <2>1, <2>2, <3>1
    <3>2. CASE v # w
      BY <2>2, <3>2
    <3> QED BY <3>1, <3>2
  <2> QED BY <2>4, <2>5, <2>6
<1>10. ASSUME EndPass \/ DropPass PROVE AttemptsInv'
  <2>1. /\ sched'.stage = "idle"
        /\ sched'.cand = {} /\ sched'.held = NoTask
        /\ UNCHANGED <<mem, run, tries>>
    BY <1>10 DEF EndPass, DropPass, IdlePass
  <2> QED BY <2>1, TaskAssumption
<1>11. ASSUME NEW w \in Worker, Begin(w) PROVE AttemptsInv'
  <2> DEFINE t == run[w].task
  <2>1. /\ t \in Task /\ run[w].stage = "queued"
        /\ tries'[t] = tries[t] + 1
        /\ \A q \in Task \ {t} : tries'[q] = tries[q]
        /\ UNCHANGED <<mem, sched>>
    BY <1>11 DEF Begin, TypeOK, TaskKnown
  <2>2. /\ run'[w].stage = "running" /\ run'[w].task = t
        /\ run'[w].attempt = run[w].attempt
        /\ \A v \in Worker \ {w} : run'[v] = run[v]
    BY <1>11 DEF Begin, TypeOK, Run
  <2>3. /\ \A v \in Worker \ {w} : ~Executing(v, t)
        /\ mem[t].status = "InProgress"
        /\ t \notin sched.cand /\ sched.held # t
        /\ sched.stage # "idle" => t \notin sched.batch
    BY <2>1 DEF RunInv, SingleRun, BusyIsMarked, BusyIsNotTaken
  <2>4. \A q \in Task : Busy(q)' <=> Busy(q)
    BY <2>1, <2>2
  <2> HIDE DEF t
  <2>5. AttemptsBounded'
    <3>1. tries[t] < run[w].attempt /\ Counted(run[w].attempt)
      BY <2>1 DEF t
    <3> QED BY <1>0, <2>1, <3>1
  <2>6. WaitingHasAttempt'
    BY <2>1, <2>2, <2>3, <2>4
  <2>7. ClaimedHasAttempt'
    BY <1>0, <2>1, <2>3
  <2>8. RunHasAttempt'
    BY <1>0, <2>1, <2>2, <2>3 DEF t, TaskKnown
  <2> QED BY <2>5, <2>6, <2>7, <2>8
<1>12. ASSUME NEW w \in Worker, NEW s \in {"Completed", "Paused", "Failed"},
              finalize_task(w, s)
       PROVE  AttemptsInv'
  <2> DEFINE t == run[w].task
  <2>1. /\ run[w].stage = "running" /\ run'[w].stage = "closing"
        /\ \A v \in Worker \ {w} : run'[v] = run[v]
        /\ UNCHANGED sched
    BY <1>12 DEF finalize_task, Closing, TypeOK, Run
  <2>2. /\ t \in Task /\ \A v \in Worker \ {w} : ~Executing(v, t)
        /\ mem[t].status = "InProgress"
        /\ t \notin sched.cand /\ sched.held # t
        /\ sched.stage # "idle" => t \notin sched.batch
    BY <2>1 DEF TaskKnown, RunInv, SingleRun, BusyIsMarked, BusyIsNotTaken
  <2>3. /\ \A q \in Task \ {t} : mem'[q] = mem[q] /\ tries'[q] = tries[q]
        /\ tries'[t] \in {tries[t], 0}
        /\ mem'[t].attempt = mem[t].attempt
        /\ \/ mem'[t].status \in {"Completed", "Paused", "Failed"}
           \/ mem'[t].status = "Pending" /\ tries'[t] = 0
    <3>1. /\ mem[t].status # "Cancelled"
          /\ mem \in [Task -> Entry] /\ tries \in [Task -> Nat]
      BY <2>2 DEF TypeOK
    <3>2. CASE t \in Recurring /\ s # "Paused"
      <4>1. /\ mem' = [mem EXCEPT ![t].status = "Pending", ![t].when = "later"]
            /\ tries' = [tries EXCEPT ![t] = 0]
        BY <1>12, <3>1, <3>2 DEF finalize_task
      <4> HIDE DEF t
      <4> QED BY <2>2, <3>1, <4>1 DEF Entry
    <3>3. CASE ~(t \in Recurring /\ s # "Paused")
      <4>1. /\ mem' = [mem EXCEPT ![t].status = s, ![t].when = mem[t].when]
            /\ tries' = tries
        BY <1>12, <3>1, <3>3 DEF finalize_task
      <4> HIDE DEF t
      <4> QED BY <2>2, <3>1, <4>1 DEF Entry
    <3> QED BY <3>2, <3>3
  <2> HIDE DEF t
  <2>4. \A q \in Task \ {t} : Busy(q)' <=> Busy(q)
    BY <2>1 DEF t
  <2>5. AttemptsBounded'
    BY <1>0, <2>2, <2>3
  <2>6. WaitingHasAttempt'
    <3> SUFFICES ASSUME NEW q \in Task,
                        \/ mem'[q].status = "Pending"
                        \/ mem'[q].status = "InProgress" /\ ~Busy(q)'
                        \/ q \in sched.cand
                        \/ q = sched.held
                 PROVE  HasAttempt(q)'
      BY <2>1
    <3>1. CASE q = t
      BY <1>0, <2>2, <2>3, <3>1
    <3>2. CASE q # t
      BY <2>1, <2>3, <2>4, <3>2
    <3> QED BY <3>1, <3>2
  <2>7. ClaimedHasAttempt'
    BY <1>0, <2>1, <2>2, <2>3
  <2>8. RunHasAttempt'
    BY <1>0, <2>1, <2>2, <2>3 DEF TaskKnown
  <2> QED BY <2>5, <2>6, <2>7, <2>8
<1>13. ASSUME NEW w \in Worker, reschedule_task_retry(w) PROVE AttemptsInv'
  <2> DEFINE t == run[w].task
  <2>1. /\ run[w].stage = "running" /\ run'[w].stage = "closing"
        /\ \A v \in Worker \ {w} : run'[v] = run[v]
        /\ UNCHANGED <<sched, tries>>
        /\ run[w].attempt < MaxAttempts
    BY <1>13 DEF reschedule_task_retry, Requeue, Closing, TypeOK, Run
  <2>2. /\ t \in Task /\ \A v \in Worker \ {w} : ~Executing(v, t)
        /\ tries[t] <= run[w].attempt /\ Counted(run[w].attempt)
    BY <2>1 DEF TaskKnown, RunInv, SingleRun
  <2>3. /\ \A q \in Task \ {t} : mem'[q] = mem[q]
        /\ mem'[t].attempt = run[w].attempt + 1
    BY <1>13, <2>2 DEF reschedule_task_retry, Requeue, TypeOK
  <2> HIDE DEF t
  <2>4. \A q \in Task \ {t} : Busy(q)' <=> Busy(q)
    BY <2>1 DEF t
  <2>5. AttemptsBounded'
    BY <1>0, <2>1, <2>2, <2>3
  <2>6. /\ mem'[t].attempt \in Nat /\ mem'[t].attempt <= MaxAttempts
        /\ tries'[t] < mem'[t].attempt /\ Counted(mem'[t].attempt)
    BY <1>0, <2>1, <2>2, <2>3
  <2>7. WaitingHasAttempt'
    <3> SUFFICES ASSUME NEW q \in Task,
                        \/ mem'[q].status = "Pending"
                        \/ mem'[q].status = "InProgress" /\ ~Busy(q)'
                        \/ q \in sched.cand
                        \/ q = sched.held
                 PROVE  HasAttempt(q)'
      BY <2>1
    <3>1. CASE q = t
      BY <2>6, <3>1
    <3>2. CASE q # t
      BY <2>1, <2>3, <2>4, <3>2
    <3> QED BY <3>1, <3>2
  <2>8. ClaimedHasAttempt' /\ RunHasAttempt'
    BY <2>1
  <2> QED BY <2>5, <2>7, <2>8
<1>14. ASSUME NEW w \in Worker, Close(w) PROVE AttemptsInv'
  <2>1. /\ run[w].stage = "closing" /\ run'[w].stage = "free"
        /\ \A v \in Worker \ {w} : run'[v] = run[v]
        /\ UNCHANGED <<mem, sched, tries>>
    BY <1>14 DEF Close, FreeRun, TypeOK
  <2>2. \A q \in Task : Busy(q)' <=> Busy(q)
    BY <2>1
  <2> QED BY <2>1, <2>2
<1>15. ASSUME NEW u \in User, NEW t \in Task, UserStep(u, t)
       PROVE  AttemptsInv'
  <2>1. /\ UNCHANGED <<sched, run>>
        /\ \A q \in Task \ {t} : mem'[q] = mem[q] /\ tries'[q] = tries[q]
    BY <1>15 DEF UserStep, pause_task, resume_task, cancel_task, retry_task,
                 UpdateSimilar, TypeOK
  <2>2. CASE pause_task(u, t)
    <3>1. /\ mem[t].status = "Pending" /\ mem'[t].status = "Paused"
          /\ mem'[t].attempt = mem[t].attempt /\ tries' = tries
      BY <2>2 DEF pause_task, TypeOK, Entry
    <3> QED BY <1>0, <2>1, <3>1
  <2>3. CASE resume_task(u, t) \/ retry_task(u, t) \/ UpdateSimilar(u, t)
    <3>1. mem'[t].attempt \in {mem[t].attempt, 1} /\ tries'[t] = 0
      BY <2>3 DEF resume_task, retry_task, UpdateSimilar, TypeOK, Entry
    <3>2. Counted(mem'[t].attempt)
      BY <1>0, <3>1 DEF NoRestart
    <3>3. AttemptsBounded' /\ WaitingHasAttempt'
      BY <1>0, <2>1, <3>1, <3>2
    <3>4. \A q \in Task : tries'[q] <= tries[q] /\ tries'[q] \in Nat
      BY <1>0, <2>1, <3>1
    <3>5. ClaimedHasAttempt'
      BY <1>0, <2>1, <3>4
    <3>6. RunHasAttempt'
      <4>1. \A w \in Worker : run[w].stage # "free"
               => tries'[run[w].task] <= tries[run[w].task]
                  /\ tries'[run[w].task] \in Nat /\ tries[run[w].task] \in Nat
        BY <1>0, <3>4 DEF TaskKnown
      <4> QED BY <1>0, <2>1, <4>1
    <3> QED BY <3>3, <3>5, <3>6
  <2> QED
    BY <1>15, <2>2, <2>3 DEF UserStep, cancel_task, Request, Supervised
<1> QED
    BY <1>1, <1>2, <1>3, <1>4, <1>5, <1>6, <1>7, <1>8, <1>9, <1>10, <1>11,
       <1>12, <1>13, <1>14, <1>15
    DEF Next, vars, SchedulerStep, Finish, Succeed, AskForInput, FailForGood,
        WriteRow, FailWrite, LeaseLapses, GrowsOld, Restart, NoRestart

(* ExecutionsWithinAttempts: a task is executed at most max_attempts times *)
(* per release, whatever statements fail, passes are dropped and users     *)
(* pause, resume, retry or replace it, under the assumptions of            *)
(* OneExecution and without a restart.                                     *)
THEOREM AttemptsAreKept ==
    ASSUME Supervised, NoRestart
    PROVE  Spec => []ExecutionsWithinAttempts
<1>1. AttemptsInv => ExecutionsWithinAttempts
    BY DEF AttemptsInv, AttemptsBounded, ExecutionsWithinAttempts
<1> QED
    BY <1>1, RunInit, RunStep, AttemptsInit, AttemptsStep, Typed, PTL DEF Spec

----------------------------------------------------------------------------
(* The stored attempt of a one-shot task is exact. *)

(* What exactness assumes besides: users do no more than pause.  A resume, *)
(* a retry or a replacement starts a new release and keeps the attempt.    *)
OnlyPauses == UserOps \subseteq {"pause"}

OneShot == Task \ Recurring
NextAttempt(t) == mem[t].attempt = tries[t] + 1

WaitingIsExact ==
    \A t \in OneShot :
        (\/ mem[t].status = "Pending"
         \/ mem[t].status = "InProgress" /\ ~Busy(t)
         \/ t \in sched.cand
         \/ t = sched.held)
            => NextAttempt(t)
ClaimedIsExact ==
    sched.stage \in {"claiming", "spawning"} =>
        \A t \in sched.batch \cap OneShot : sched.clone[t] = tries[t] + 1
RunIsExact ==
    \A w \in Worker :
        run[w].task \in OneShot =>
            /\ run[w].stage = "queued" => run[w].attempt = tries[run[w].task] + 1
            /\ run[w].stage = "running" => run[w].attempt = tries[run[w].task]

ExactInv == WaitingIsExact /\ ClaimedIsExact /\ RunIsExact

LEMMA ExactInit == Init => ExactInv
BY TaskAssumption
DEF Init, IdlePass, FreeRun, ExactInv, WaitingIsExact, ClaimedIsExact,
    RunIsExact, NextAttempt, OneShot, Busy, Executing

LEMMA ExactStep ==
    ASSUME Supervised, NoRestart, OnlyPauses, TypeOK, TaskKnown, RunInv,
           ExactInv, [Next]_vars
    PROVE  ExactInv'
<1> USE DEF ExactInv, WaitingIsExact, ClaimedIsExact, RunIsExact, NextAttempt,
            Busy, Executing
<1>0. /\ OneShot \subseteq Task /\ NoTask \notin OneShot
      /\ \A t \in Task : mem[t].attempt \in Nat /\ tries[t] \in Nat
      /\ sched.batch \subseteq Task /\ sched.cand \subseteq Task
      /\ \A w \in Worker : run[w].attempt \in Nat
    BY TaskAssumption DEF TypeOK, Entry, Pass, Run, OneShot
<1>1. CASE UNCHANGED <<mem, sched, run, tries>>
    BY <1>1
<1>2. ASSUME NEW t \in Task, ComesDue(t) PROVE ExactInv'
  <2>1. mem' = [mem EXCEPT ![t].when = "now"] /\ UNCHANGED <<sched, run, tries>>
    BY <1>2 DEF ComesDue
  <2>2. \A q \in Task : /\ mem'[q].status = mem[q].status
                        /\ mem'[q].attempt = mem[q].attempt
    BY <2>1 DEF TypeOK, Entry
  <2> QED BY <1>0, <2>1, <2>2
<1>3. ASSUME StartPass \/ Persist \/ ReturnDue PROVE ExactInv'
  <2>1. /\ UNCHANGED <<mem, run, tries>>
        /\ sched'.batch = sched.batch /\ sched'.clone = sched.clone
        /\ sched'.cand = sched.cand /\ sched'.held = sched.held
        /\ sched'.stage \in {"claiming", "spawning"}
              => sched.stage \in {"claiming", "spawning"}
    BY <1>3 DEF StartPass, Persist, ReturnDue, TypeOK, Pass
  <2> QED BY <2>1
<1>4. ASSUME Recover PROVE ExactInv'
  <2> DEFINE stalled == {t \in Task : /\ mem[t].status = "InProgress"
                                      /\ Stale(t, sched.seen[t])}
  <2>1. /\ sched.stage = "recover" /\ sched'.stage = "stalling"
        /\ sched'.cand = sched.cand /\ sched'.held = sched.held
        /\ UNCHANGED <<run, tries>>
    BY <1>4 DEF Recover, Stalled, TypeOK, Pass
  <2>2. \A t \in stalled : ~Busy(t) /\ mem[t].status = "InProgress"
    BY <2>1 DEF Stale, Supervised, RunInv, RecoverySeesFresh
  <2>3. \A t \in Task : /\ mem'[t].attempt = mem[t].attempt
                        /\ mem'[t].status # mem[t].status => t \in stalled
    BY <1>4 DEF Recover, Stalled, TypeOK, Entry
  <2> HIDE DEF stalled
  <2> QED BY <1>0, <2>1, <2>2, <2>3
<1>5. ASSUME NEW t \in Task, WriteStalled(t) PROVE ExactInv'
  <2>1. /\ UNCHANGED <<mem, run, tries>>
        /\ sched'.stage = "stalling"
        /\ sched'.cand = sched.cand /\ sched'.held = sched.held
    BY <1>5 DEF WriteStalled, TypeOK, Pass
  <2> QED BY <2>1
<1>6. ASSUME Scan PROVE ExactInv'
  <2>1. sched.batch = {} /\ UNCHANGED <<run, tries>>
    BY <1>6 DEF Scan
  <2>2. /\ sched'.batch = sched.batch /\ sched'.held = sched.held
        /\ \A t \in sched'.cand : t \in Task /\ mem[t].status = "Pending"
    BY <1>6 DEF Scan, Due, TypeOK, Pass
  <2>3. \A t \in Task : /\ mem'[t].attempt = mem[t].attempt
                        /\ mem'[t].status \in {mem[t].status, "Cancelled"}
    BY <1>6 DEF Scan, TypeOK, Entry
  <2> QED BY <1>0, <2>1, <2>2, <2>3
<1>7. ASSUME NEW t \in Task, try_claim_task(t) PROVE ExactInv'
  <2>1. /\ sched'.stage = sched.stage
        /\ t \in sched.cand /\ sched'.cand = sched.cand \ {t}
        /\ sched'.held \in {sched.held, t} /\ sched'.batch = sched.batch
        /\ sched'.clone = sched.clone
        /\ UNCHANGED <<mem, run, tries>>
    BY <1>7 DEF try_claim_task, TypeOK, Pass
  <2> QED BY <2>1
<1>8. ASSUME MarkClaimed PROVE ExactInv'
  <2>1. sched.held \in Task /\ sched.stage = "claiming"
    BY <1>8 DEF MarkClaimed, TypeOK, Pass, RunInv, PassInv
  <2>2. /\ sched'.cand = sched.cand /\ sched'.held = NoTask
        /\ sched'.batch = sched.batch \cup {sched.held}
        /\ sched'.clone = [sched.clone EXCEPT ![sched.held] =
                              mem[sched.held].attempt]
        /\ UNCHANGED <<run, tries>>
    BY <1>8, <2>1 DEF MarkClaimed, TypeOK, Pass
  <2>3. /\ \A t \in Task : mem'[t].attempt = mem[t].attempt
        /\ \A t \in Task \ {sched.held} : mem'[t] = mem[t]
    BY <1>8, <2>1 DEF MarkClaimed, TypeOK, Entry
  <2>4. /\ sched'.clone[sched.held] = mem[sched.held].attempt
        /\ \A t \in Task \ {sched.held} : sched'.clone[t] = sched.clone[t]
    BY <2>1, <2>2 DEF TypeOK, Pass
  <2>5. ClaimedIsExact'
    BY <1>0, <2>1, <2>2, <2>4
  <2>6. WaitingIsExact'
    BY <1>0, <2>1, <2>2, <2>3
  <2> QED BY <2>2, <2>5, <2>6
<1>9. ASSUME NEW t \in Task, NEW w \in Worker, Spawn(t, w) PROVE ExactInv'
  <2>1. /\ sched.stage = "spawning" /\ sched'.stage = "spawning"
        /\ t \in sched.batch /\ sched'.batch = sched.batch \ {t}
        /\ sched'.cand = sched.cand /\ sched'.held = sched.held
        /\ sched'.clone = sched.clone
        /\ UNCHANGED <<mem, tries>>
    BY <1>9 DEF Spawn, TypeOK, Pass
  <2>2. /\ run'[w].stage = "queued" /\ run'[w].task = t
        /\ run'[w].attempt = sched.clone[t]
        /\ run[w].stage = "free"
        /\ \A v \in Worker \ {w} : run'[v] = run[v]
    BY <1>9 DEF Spawn, TypeOK
  <2>3. \A q \in Task : Busy(q) => Busy(q)'
    BY <2>2
  <2>4. WaitingIsExact' /\ ClaimedIsExact'
    BY <1>0, <2>1, <2>3
  <2>5. RunIsExact'
    BY <2>1, <2>2
  <2> QED BY <2>4, <2>5
<1>10. ASSUME EndPass \/ DropPass PROVE ExactInv'
  <2>1. /\ sched'.stage = "idle"
        /\ sched'.cand = {} /\ sched'.held = NoTask
        /\ UNCHANGED <<mem, run, tries>>
    BY <1>10 DEF EndPass, DropPass, IdlePass
  <2> QED BY <1>0, <2>1
<1>11. ASSUME NEW w \in Worker, Begin(w) PROVE ExactInv'
  <2> DEFINE t == run[w].task
  <2>1. /\ t \in Task /\ run[w].stage = "queued"
        /\ tries'[t] = tries[t] + 1
        /\ \A q \in Task \ {t} : tries'[q] = tries[q]
        /\ UNCHANGED <<mem, sched>>
    BY <1>11 DEF Begin, TypeOK, TaskKnown
  <2>2. /\ run'[w].stage = "running" /\ run'[w].task = t
        /\ run'[w].attempt = run[w].attempt
        /\ \A v \in Worker \ {w} : run'[v] = run[v]
    BY <1>11 DEF Begin, TypeOK, Run
  <2>3. /\ \A v \in Worker \ {w} : ~Executing(v, t)
        /\ mem[t].status = "InProgress"
        /\ t \notin sched.cand /\ sched.held # t
        /\ sched.stage # "idle" => t \notin sched.batch
    BY <2>1 DEF RunInv, SingleRun, BusyIsMarked, BusyIsNotTaken
  <2>4. Busy(t) /\ \A q \in Task : Busy(q)' <=> Busy(q)
    BY <2>1, <2>2
  <2>5. t \in OneShot => run[w].attempt = tries[t] + 1
    BY <2>1
  <2> HIDE DEF t
  <2>6. WaitingIsExact'
    <3> SUFFICES ASSUME NEW q \in OneShot,
                        \/ mem[q].status = "Pending"
                        \/ mem[q].status = "InProgress" /\ ~Busy(q)'
                        \/ q \in sched.cand
                        \/ q = sched.held
                 PROVE  NextAttempt(q)'
      BY <2>1
    <3> HIDE DEF Busy
    <3>1. q # t
      BY <1>0, <2>3, <2>4
    <3>2. NextAttempt(q)
      BY <1>0, <2>4
    <3> QED BY <1>0, <2>1, <3>1, <3>2
  <2>7. ClaimedIsExact'
    BY <1>0, <2>1, <2>3
  <2>8. RunIsExact'
    BY <1>0, <2>1, <2>2, <2>3, <2>5
  <2> QED BY <2>6, <2>7, <2>8
<1>12. ASSUME NEW w \in Worker, NEW s \in {"Completed", "Paused", "Failed"},
              finalize_task(w, s)
       PROVE  ExactInv'
  <2> DEFINE t == run[w].task
  <2>1. /\ run[w].stage = "running" /\ run'[w].stage = "closing"
        /\ \A v \in Worker \ {w} : run'[v] = run[v]
        /\ UNCHANGED sched
    BY <1>12 DEF finalize_task, Closing, TypeOK, Run
  <2>2. /\ t \in Task /\ \A v \in Worker \ {w} : ~Executing(v, t)
        /\ mem[t].status = "InProgress"
        /\ t \notin sched.cand /\ sched.held # t
        /\ sched.stage # "idle" => t \notin sched.batch
    BY <2>1 DEF TaskKnown, RunInv, SingleRun, BusyIsMarked, BusyIsNotTaken
  <2>3. /\ \A q \in Task \ {t} : mem'[q] = mem[q] /\ tries'[q] = tries[q]
        /\ t \in OneShot => mem'[t].status = s
    <3>1. /\ mem[t].status # "Cancelled"
          /\ mem \in [Task -> Entry] /\ tries \in [Task -> Nat]
      BY <2>2 DEF TypeOK
    <3>2. CASE t \in Recurring /\ s # "Paused"
      <4>1. /\ mem' = [mem EXCEPT ![t].status = "Pending", ![t].when = "later"]
            /\ tries' = [tries EXCEPT ![t] = 0]
        BY <1>12, <3>1, <3>2 DEF finalize_task
      <4> HIDE DEF t
      <4> QED BY <2>2, <3>1, <3>2, <4>1 DEF Entry, OneShot
    <3>3. CASE ~(t \in Recurring /\ s # "Paused")
      <4>1. /\ mem' = [mem EXCEPT ![t].status = s, ![t].when = mem[t].when]
            /\ tries' = tries
        BY <1>12, <3>1, <3>3 DEF finalize_task
      <4> HIDE DEF t
      <4> QED BY <2>2, <3>1, <4>1 DEF Entry
    <3> QED BY <3>2, <3>3
  <2> HIDE DEF t
  <2>4. \A q \in Task \ {t} : Busy(q)' <=> Busy(q)
    BY <2>1 DEF t
  <2>5. WaitingIsExact'
    BY <1>0, <2>1, <2>2, <2>3, <2>4
  <2>6. ClaimedIsExact'
    BY <1>0, <2>1, <2>2, <2>3
  <2>7. RunIsExact'
    BY <1>0, <2>1, <2>2, <2>3
  <2> QED BY <2>5, <2>6, <2>7
<1>13. ASSUME NEW w \in Worker, reschedule_task_retry(w) PROVE ExactInv'
  <2> DEFINE t == run[w].task
  <2>1. /\ run[w].stage = "running" /\ run'[w].stage = "closing"
        /\ \A v \in Worker \ {w} : run'[v] = run[v]
        /\ UNCHANGED <<sched, tries>>
    BY <1>13 DEF reschedule_task_retry, Requeue, Closing, TypeOK, Run
  <2>2. t \in Task /\ (t \in OneShot => tries[t] = run[w].attempt)
    BY <2>1 DEF TaskKnown
  <2>3. /\ \A q \in Task \ {t} : mem'[q] = mem[q]
        /\ mem'[t].attempt = run[w].attempt + 1
    BY <1>13, <2>2 DEF reschedule_task_retry, Requeue, TypeOK
  <2> HIDE DEF t
  <2>4. \A q \in Task \ {t} : Busy(q)' <=> Busy(q)
    BY <2>1 DEF t
  <2>5. WaitingIsExact'
    BY <1>0, <2>1, <2>2, <2>3, <2>4
  <2>6. ClaimedIsExact' /\ RunIsExact'
    BY <2>1
  <2> QED BY <2>5, <2>6
<1>14. ASSUME NEW w \in Worker, Close(w) PROVE ExactInv'
  <2>1. /\ run[w].stage = "closing" /\ run'[w].stage = "free"
        /\ \A v \in Worker \ {w} : run'[v] = run[v]
        /\ UNCHANGED <<mem, sched, tries>>
    BY <1>14 DEF Close, FreeRun, TypeOK
  <2>2. \A q \in Task : Busy(q)' <=> Busy(q)
    BY <2>1
  <2> QED BY <1>0, <2>1, <2>2
<1>15. ASSUME NEW u \in User, NEW t \in Task, UserStep(u, t)
       PROVE  ExactInv'
  <2>1. pause_task(u, t)
    BY <1>15 DEF UserStep, resume_task, cancel_task, retry_task,
                 UpdateSimilar, Request, OnlyPauses
  <2>2. /\ mem[t].status = "Pending" /\ mem'[t].status = "Paused"
        /\ mem'[t].attempt = mem[t].attempt
        /\ \A q \in Task \ {t} : mem'[q] = mem[q]
        /\ UNCHANGED <<sched, run, tries>>
    BY <2>1 DEF pause_task, TypeOK, Entry
  <2> QED BY <1>0, <2>2
<1> QED
    BY <1>1, <1>2, <1>3, <1>4, <1>5, <1>6, <1>7, <1>8, <1>9, <1>10, <1>11,
       <1>12, <1>13, <1>14, <1>15
    DEF Next, vars, SchedulerStep, Finish, Succeed, AskForInput, FailForGood,
        WriteRow, FailWrite, LeaseLapses, GrowsOld, Restart, NoRestart

(* AttemptsCounted: whatever statements fail and passes are dropped, the   *)
(* attempt of a due one-shot task is the number of its executions and one, *)
(* so that reschedule_task_retry gives it neither more nor fewer than      *)
(* max_attempts; under the assumptions of AttemptsAreKept and if users do  *)
(* no more than pause.                                                     *)
THEOREM AttemptsAreExact ==
    ASSUME Supervised, NoRestart, OnlyPauses
    PROVE  Spec => []AttemptsCounted
<1>1. ExactInv => AttemptsCounted
    BY DEF ExactInv, WaitingIsExact, NextAttempt, OneShot, Due, AttemptsCounted
<1> QED
    BY <1>1, RunInit, RunStep, ExactInit, ExactStep, Typed, PTL DEF Spec

----------------------------------------------------------------------------
(* The table says what the queue says. *)

(* What agreement assumes besides: no user interferes (a statement of a    *)
(* request may reach the row after one of an execution that is newer), no  *)
(* statement fails and no pass is dropped.  The process may restart.       *)
Undisturbed == UserOps = {} /\ {"db", "timeout"} \cap Faults = {}

Elems(s) == {s[i] : i \in DOMAIN s}

(* The statements that are decided and not issued. *)
Unwritten ==
    (UNION {Elems(todo[a]) : a \in Actor})
        \cup (UNION {Elems(p) : p \in sched.plan})

(* The pass decides about a task when its own statements are written; what *)
(* it is about to claim is due, and what it has claimed is in progress in  *)
(* the table.                                                              *)
PassIsOrdered ==
    /\ sched.stage \in {"idle", "recover", "spawning"} => Persisted
    /\ \A t \in sched.cand : Due(t) /\ t # sched.held
    /\ sched.held # NoTask =>
        Persisted /\ Due(sched.held) /\ row[sched.held].status = "InProgress"

(* An execution has statements to write only when it is over, and by then  *)
(* the scheduler does not take its task again.                             *)
RunsAreOrdered ==
    /\ \A w \in Worker : run[w].stage # "closing" => todo[w] = <<>>
    /\ \A a \in Actor \ {"sched"} : \A x \in Elems(todo[a]) :
          ~Due(x.task) /\ mem[x.task].when # "unset"

(* A statement that is not issued repeats what the queue says. *)
Repeats(x) ==
    /\ mem[x.task].status # "InProgress"
    /\ x.status \in {"keep", mem[x.task].status}
    /\ x.attempt \in {0, mem[x.task].attempt}
    /\ x.when # "keep" => x.when # "unset" /\ mem[x.task].when # "unset"

(* A column that no statement is going to write is as the queue has it. *)
Follows(t) ==
    /\ (\A x \in Unwritten : x.task = t => x.status = "keep") /\ sched.held # t
          => row[t].status = mem[t].status
    /\ (\A x \in Unwritten : x.task = t => x.attempt = 0)
          => row[t].attempt = mem[t].attempt
    /\ (\A x \in Unwritten : x.task = t => x.when = "keep")
          => (row[t].when = "unset" <=> mem[t].when = "unset")

UnwrittenRepeats == \A x \in Unwritten : Repeats(x)
RowFollows == \A t \in Task : Follows(t)
InProgressIsDated ==
    \A t \in Task : /\ mem[t].status = "InProgress" => mem[t].when # "unset"
                    /\ row[t].status = "InProgress" => row[t].when # "unset"

QuietInv ==
    /\ PassIsOrdered /\ RunsAreOrdered
    /\ UnwrittenRepeats /\ RowFollows /\ InProgressIsDated

LEMMA ElemsOf ==
    /\ Elems(<<>>) = {}
    /\ \A x : Elems(<<x>>) = {x}
    /\ \A x, y : Elems(<<x, y>>) = {x, y}
BY DEF Elems

LEMMA ElemsTyped ==
    ASSUME NEW S, NEW s \in Seq(S)
    PROVE  Elems(s) \subseteq S
BY DEF Elems

LEMMA ElemsJoined == \A x, y : Elems(<<x>> \o <<y>>) = {x, y}
<1> SUFFICES ASSUME NEW x, NEW y PROVE Elems(<<x>> \o <<y>>) = {x, y}
    OBVIOUS
<1> DEFINE s == <<x>> \o <<y>>
<1>1. <<x>> \in Seq({x, y}) /\ <<y>> \in Seq({x, y})
    OBVIOUS
<1>2. DOMAIN s = {1, 2} /\ s[1] = x /\ s[2] = y
    BY <1>1
<1> HIDE DEF s
<1>3. Elems(s) = {x, y}
    BY <1>2 DEF Elems
<1> QED
    BY <1>3 DEF s

LEMMA ElemsTail ==
    ASSUME NEW S, NEW s \in Seq(S), s # <<>>
    PROVE  Head(s) \in Elems(s) /\ Elems(s) = {Head(s)} \cup Elems(Tail(s))
<1>1. /\ Len(s) \in Nat \ {0} /\ DOMAIN s = 1..Len(s)
      /\ Head(s) = s[1] /\ DOMAIN Tail(s) = 1..(Len(s) - 1)
      /\ \A i \in 1..(Len(s) - 1) : Tail(s)[i] = s[i + 1]
    OBVIOUS
<1>2. Head(s) \in Elems(s)
    BY <1>1 DEF Elems
<1>3. ASSUME NEW x \in Elems(Tail(s)) PROVE x \in Elems(s)
  <2>1. PICK i \in 1..(Len(s) - 1) : x = s[i + 1]
    BY <1>1 DEF Elems
  <2>2. i + 1 \in 1..Len(s)
    BY <1>1
  <2> QED BY <1>1, <2>1, <2>2 DEF Elems
<1>4. ASSUME NEW x \in Elems(s), x # Head(s) PROVE x \in Elems(Tail(s))
  <2>1. PICK i \in 1..Len(s) : x = s[i]
    BY <1>1 DEF Elems
  <2>2. i # 1 /\ i - 1 \in 1..(Len(s) - 1) /\ (i - 1) + 1 = i
    BY <1>1, <1>4, <2>1
  <2>3. x = Tail(s)[i - 1]
    BY <1>1, <2>1, <2>2
  <2> QED BY <1>1, <2>2, <2>3 DEF Elems
<1> QED
    BY <1>2, <1>3, <1>4

LEMMA UnwrittenIs ==
    \A x : x \in Unwritten <=> \/ \E a \in Actor : x \in Elems(todo[a])
                              \/ \E p \in sched.plan : x \in Elems(p)
<1> SUFFICES ASSUME NEW x
             PROVE  x \in Unwritten <=>
                        \/ \E a \in Actor : x \in Elems(todo[a])
                        \/ \E p \in sched.plan : x \in Elems(p)
    OBVIOUS
<1> DEFINE issued == UNION {Elems(todo[a]) : a \in Actor}
           planned == UNION {Elems(p) : p \in sched.plan}
<1>1. x \in issued <=> \E a \in Actor : x \in Elems(todo[a])
    OBVIOUS
<1>2. x \in planned <=> \E p \in sched.plan : x \in Elems(p)
    OBVIOUS
<1>3. Unwritten = issued \cup planned
    BY DEF Unwritten
<1> HIDE DEF issued, planned
<1> QED
    BY <1>1, <1>2, <1>3

LEMMA UnwrittenTyped == TypeOK => Unwritten \subseteq Write
<1> SUFFICES ASSUME TypeOK, NEW x \in Unwritten PROVE x \in Write
    OBVIOUS
<1>1. CASE \E a \in Actor : x \in Elems(todo[a])
    BY <1>1, ElemsTyped DEF TypeOK
<1>2. CASE \E p \in sched.plan : x \in Elems(p)
  <2>1. PICK p \in sched.plan : x \in Elems(p)
    BY <1>2
  <2>2. p \in Seq(Write)
    BY <2>1 DEF TypeOK, Pass
  <2>3. Elems(p) \subseteq Write
    BY <2>2, ElemsTyped
  <2> QED BY <2>1, <2>3
<1> QED
    BY <1>1, <1>2, UnwrittenIs

(* The scheduler has nothing to write: the rest are statements of others,  *)
(* about tasks it does not look at.                                        *)
LEMMA PersistedStatements ==
    ASSUME RunsAreOrdered, Persisted, NEW x \in Unwritten
    PROVE  ~Due(x.task) /\ mem[x.task].when # "unset"
BY ElemsOf DEF RunsAreOrdered, Persisted, Unwritten

LEMMA WriterAdds ==
    ASSUME TypeOK, NEW a \in Actor, NEW ws, todo[a] = <<>>,
           todo' = [todo EXCEPT ![a] = ws], sched'.plan = sched.plan
    PROVE  Unwritten' = Unwritten \cup Elems(ws)
<1>1. todo'[a] = ws /\ \A b \in Actor \ {a} : todo'[b] = todo[b]
    BY DEF TypeOK
<1>2. \A x : x \notin Elems(todo[a])
    BY ElemsOf
<1>3. \A x : (\E b \in Actor : x \in Elems(todo'[b]))
              <=> (\E b \in Actor : x \in Elems(todo[b])) \/ x \in Elems(ws)
    BY <1>1, <1>2
<1>4. \A x : x \in Unwritten' <=> x \in Unwritten \/ x \in Elems(ws)
    BY <1>3 DEF Unwritten
<1> QED
    BY <1>4

LEMMA PlanAdds ==
    ASSUME Persisted, todo' = todo
    PROVE  Unwritten' = Unwritten \cup (UNION {Elems(p) : p \in sched'.plan})
<1> DEFINE issued == UNION {Elems(todo[a]) : a \in Actor}
           planned == UNION {Elems(p) : p \in sched.plan}
<1>1. planned = {} /\ Unwritten = issued \cup planned
    BY DEF Persisted, Unwritten
<1>2. issued' = issued
    OBVIOUS
<1>3. Unwritten' = issued' \cup (UNION {Elems(p) : p \in sched'.plan})
    BY DEF Unwritten
<1> HIDE DEF issued, planned
<1> QED
    BY <1>1, <1>2, <1>3

(* A writer changes the queue first: its statements repeat what the queue  *)
(* says by then, and nobody else has any to write about the same tasks.    *)
LEMMA QueueFirst ==
    ASSUME TypeOK, UnwrittenRepeats, RowFollows,
           NEW T \in SUBSET Task, NEW N,
           Unwritten' = Unwritten \cup N,
           row' = row, sched'.held = sched.held,
           \A x \in Unwritten : x.task \notin T,
           \A x \in N : x.task \in T /\ Repeats(x)',
           \A t \in T : Follows(t)',
           \A q \in Task \ T : mem'[q] = mem[q]
    PROVE  UnwrittenRepeats' /\ RowFollows'
<1>1. \A x \in Unwritten : x.task \in Task \ T
    BY UnwrittenTyped DEF Write
<1>2. UnwrittenRepeats'
    BY <1>1 DEF UnwrittenRepeats, Repeats
<1>3. ASSUME NEW t \in Task \ T PROVE Follows(t)'
  <2>1. Follows(t) /\ mem'[t] = mem[t]
    BY DEF RowFollows
  <2>2. \A x : x.task = t => (x \in Unwritten' <=> x \in Unwritten)
    OBVIOUS
  <2> QED BY <2>1, <2>2 DEF Follows
<1> QED
    BY <1>2, <1>3 DEF RowFollows

LEMMA QuietInit == Init => QuietInv
<1> SUFFICES ASSUME Init PROVE QuietInv
    OBVIOUS
<1>1. /\ \A a \in Actor : todo[a] = <<>>
      /\ sched.plan = {} /\ sched.cand = {} /\ sched.held = NoTask
    BY DEF Init, NoWrites, IdlePass
<1>2. "sched" \in Actor /\ Worker \subseteq Actor
    BY DEF Actor
<1>3. Unwritten = {}
    BY <1>1, ElemsOf DEF Unwritten
<1>4. PassIsOrdered /\ RunsAreOrdered
    BY <1>1, <1>2, ElemsOf DEF PassIsOrdered, RunsAreOrdered, Persisted
<1>5. \A t \in Task : /\ row[t].status = mem[t].status
                      /\ row[t].attempt = mem[t].attempt
                      /\ row[t].when = mem[t].when
                      /\ mem[t].status = "Pending"
    BY DEF Init
<1> QED
    BY <1>3, <1>4, <1>5
    DEF QuietInv, UnwrittenRepeats, RowFollows, Follows, InProgressIsDated

(* A statement is written to its row.                                      *)
LEMMA QuietWriteRow ==
    ASSUME TypeOK, QuietInv, NEW a \in Actor, WriteRow(a)
    PROVE  QuietInv'
<1> DEFINE w == Head(todo[a])
           t == w.task
<1> USE DEF QuietInv
<1>0. todo[a] \in Seq(Write) /\ todo[a] # <<>>
    BY DEF WriteRow, TypeOK
<1>1. /\ w \in Write /\ t \in Task /\ w \in Elems(todo[a])
      /\ Elems(todo[a]) = {w} \cup Elems(Tail(todo[a]))
  <2>1. w \in Write
    BY <1>0
  <2> QED BY <1>0, <2>1, ElemsTail DEF Write
<1>2. /\ todo'[a] = Tail(todo[a])
      /\ \A b \in Actor \ {a} : todo'[b] = todo[b]
      /\ UNCHANGED <<mem, sched, run>>
    BY DEF WriteRow, TypeOK
<1>3. /\ row'[t] = Apply(row[t], w)
      /\ \A q \in Task \ {t} : row'[q] = row[q]
    BY <1>1 DEF WriteRow, TypeOK
<1> HIDE DEF w
<1>4. w \in Unwritten /\ Repeats(w)
    BY <1>1, UnwrittenIs DEF UnwrittenRepeats
<1>5. \A x : x \in Unwritten' => x \in Unwritten
  <2> SUFFICES ASSUME NEW x, x \in Unwritten' PROVE x \in Unwritten
    OBVIOUS
  <2>1. \/ \E b \in Actor : x \in Elems(todo'[b])
        \/ \E p \in sched.plan : x \in Elems(p)
    BY <1>2 DEF Unwritten
  <2>2. \A b \in Actor : Elems(todo'[b]) \subseteq Elems(todo[b])
    BY <1>1, <1>2
  <2> QED BY <2>1, <2>2, UnwrittenIs
<1>6. \A x : x \in Unwritten => x = w \/ x \in Unwritten'
  <2> SUFFICES ASSUME NEW x, x \in Unwritten, x # w PROVE x \in Unwritten'
    OBVIOUS
  <2>1. \/ \E b \in Actor : x \in Elems(todo[b])
        \/ \E p \in sched.plan : x \in Elems(p)
    BY UnwrittenIs
  <2>2. \A b \in Actor : x \in Elems(todo[b]) => x \in Elems(todo'[b])
    BY <1>1, <1>2
  <2>3. \/ \E b \in Actor : x \in Elems(todo'[b])
        \/ \E p \in sched'.plan : x \in Elems(p)
    BY <1>2, <2>1, <2>2
  <2> QED BY <2>3 DEF Unwritten
<1>7. /\ row'[t].status = (IF w.status = "keep" THEN row[t].status ELSE w.status)
      /\ row'[t].when = (IF w.when = "keep" THEN row[t].when ELSE w.when)
      /\ row'[t].attempt = (IF w.attempt = 0 THEN row[t].attempt ELSE w.attempt)
    BY <1>3 DEF Apply
<1>8. a = "sched" => ~Persisted
    BY <1>0 DEF Persisted
<1>9. a # "sched" => ~Due(t) /\ (Persisted' <=> Persisted)
    BY <1>1, <1>2, ActorAssumption DEF RunsAreOrdered, Persisted, Actor
<1>10. sched.held # t
  <2>1. NoTask # t
    BY <1>1, TaskAssumption
  <2> QED BY <1>8, <1>9, <2>1 DEF PassIsOrdered
<1>11. PassIsOrdered'
  <2>1. sched.held # NoTask => sched.held \in Task
    BY DEF TypeOK, Pass
  <2>2. \A q \in Task : Due(q)' <=> Due(q)
    BY <1>2 DEF Due
  <2>3. sched.cand \subseteq Task
    BY DEF TypeOK, Pass
  <2>4. sched.held # NoTask => row'[sched.held] = row[sched.held]
    BY <1>3, <1>10, <2>1
  <2> QED BY <1>2, <1>8, <1>9, <2>1, <2>2, <2>3, <2>4 DEF PassIsOrdered
<1>12. RunsAreOrdered'
  <2>1. \A b \in Actor : Elems(todo'[b]) \subseteq Elems(todo[b])
    BY <1>1, <1>2
  <2>2. \A v \in Worker : run[v].stage # "closing" => v # a /\ todo'[v] = <<>>
    BY <1>0, <1>2 DEF RunsAreOrdered, Actor
  <2> QED BY <1>2, <2>1, <2>2 DEF RunsAreOrdered, Due
<1>13. UnwrittenRepeats'
    BY <1>2, <1>5 DEF UnwrittenRepeats, Repeats
<1>14. RowFollows'
  <2> SUFFICES ASSUME NEW q \in Task PROVE Follows(q)'
    BY DEF RowFollows
  <2>1. Follows(q)
    BY DEF RowFollows
  <2>2. CASE q # t
    <3>1. \A x : x.task = q => (x \in Unwritten' <=> x \in Unwritten)
      BY <1>5, <1>6, <2>2
    <3>2. row'[q] = row[q]
      BY <1>3, <2>2
    <3> QED BY <1>2, <2>1, <3>1, <3>2 DEF Follows
  <2>3. CASE q = t
    <3>1. (\A x \in Unwritten' : x.task = t => x.status = "keep")
             => row'[t].status = mem[t].status
      BY <1>4, <1>6, <1>7, <1>10, <2>1, <2>3 DEF Follows, Repeats
    <3>2. (\A x \in Unwritten' : x.task = t => x.attempt = 0)
             => row'[t].attempt = mem[t].attempt
      BY <1>4, <1>6, <1>7, <2>1, <2>3 DEF Follows, Repeats
    <3>3. (\A x \in Unwritten' : x.task = t => x.when = "keep")
             => (row'[t].when = "unset" <=> mem[t].when = "unset")
      BY <1>4, <1>6, <1>7, <2>1, <2>3 DEF Follows, Repeats
    <3> HIDE DEF t
    <3> QED BY <1>2, <2>3, <3>1, <3>2, <3>3 DEF Follows
  <2> QED BY <2>2, <2>3
<1>15. InProgressIsDated'
  <2>1. row'[t].status = "InProgress" => row'[t].when # "unset"
    BY <1>1, <1>4, <1>7 DEF Repeats, InProgressIsDated
  <2> QED BY <1>2, <1>3, <2>1 DEF InProgressIsDated
<1> QED
    BY <1>11, <1>12, <1>13, <1>14, <1>15

(* The queue, the statements and the columns they write stay as they are.  *)
LEMMA QuietStays ==
    ASSUME TypeOK, QuietInv, mem' = mem, Unwritten' = Unwritten,
           sched'.held = sched.held,
           \A t \in Task : /\ row'[t].status = row[t].status
                           /\ row'[t].when = row[t].when
                           /\ row'[t].attempt = row[t].attempt
    PROVE  UnwrittenRepeats' /\ RowFollows' /\ InProgressIsDated'
BY DEF QuietInv, UnwrittenRepeats, Repeats, RowFollows, Follows,
       InProgressIsDated

LEMMA QuietStep ==
    ASSUME Supervised, Undisturbed, TypeOK, TaskKnown, RunInv, QuietInv,
           [Next]_vars
    PROVE  QuietInv'
<1>a. /\ "sched" \in Actor /\ Worker \subseteq Actor \ {"sched"}
      /\ sched.cand \subseteq Task /\ NoTask \notin Task
      /\ sched.held # NoTask => sched.held \in Task
    BY ActorAssumption, TaskAssumption DEF Actor, TypeOK, Pass
<1>b. /\ PassIsOrdered /\ RunsAreOrdered
      /\ UnwrittenRepeats /\ RowFollows /\ InProgressIsDated
    BY DEF QuietInv
<1>c. ASSUME Unwritten' = Unwritten, mem' = mem, sched'.held = sched.held,
             PassIsOrdered', RunsAreOrdered',
             \A t \in Task : /\ row'[t].status = row[t].status
                             /\ row'[t].when = row[t].when
                             /\ row'[t].attempt = row[t].attempt
      PROVE  QuietInv'
    BY <1>c, QuietStays DEF QuietInv
<1>1. CASE UNCHANGED <<mem, row, todo, sched, run>>
  <2>1. Unwritten' = Unwritten
    BY <1>1 DEF Unwritten
  <2>2. PassIsOrdered' /\ RunsAreOrdered'
    BY <1>1, <1>b DEF PassIsOrdered, RunsAreOrdered, Persisted, Due
  <2> QED BY <1>1, <1>c, <2>1, <2>2
<1>2. ASSUME NEW t \in Task, LeaseLapses(t) PROVE QuietInv'
  <2>1. \A q \in Task : /\ row'[q].status = row[q].status
                        /\ row'[q].when = row[q].when
                        /\ row'[q].attempt = row[q].attempt
    BY <1>2 DEF LeaseLapses, TypeOK, Row
  <2>2. UNCHANGED <<mem, todo, sched, run>>
    BY <1>2 DEF LeaseLapses
  <2>3. Unwritten' = Unwritten
    BY <2>2 DEF Unwritten
  <2>4. PassIsOrdered' /\ RunsAreOrdered'
    BY <1>a, <1>b, <2>1, <2>2 DEF PassIsOrdered, RunsAreOrdered, Persisted, Due
  <2> QED BY <1>c, <2>1, <2>2, <2>3, <2>4
<1>3. ASSUME NEW t \in Task, ComesDue(t) PROVE QuietInv'
  <2>1. /\ mem'[t].status = mem[t].status /\ mem'[t].attempt = mem[t].attempt
        /\ mem[t].when = "later" /\ mem'[t].when = "now"
        /\ \A q \in Task \ {t} : mem'[q] = mem[q]
    BY <1>3 DEF ComesDue, TypeOK, Entry
  <2>2. /\ row'[t].status = row[t].status /\ row'[t].attempt = row[t].attempt
        /\ row'[t].when = "unset" <=> row[t].when = "unset"
        /\ \A q \in Task \ {t} : row'[q] = row[q]
    BY <1>3 DEF ComesDue, TypeOK, Row
  <2>3. UNCHANGED <<todo, sched, run>>
    BY <1>3 DEF ComesDue
  <2>4. Unwritten' = Unwritten
    BY <2>3 DEF Unwritten
  <2>5. ASSUME NEW a \in Actor, NEW x \in Elems(todo[a]) PROVE x.task # t
    BY <1>3 DEF ComesDue, Supervised, Elems
  <2>6. \A q \in Task : Due(q) => Due(q)'
    BY <2>1 DEF Due
  <2>7. PassIsOrdered'
    BY <1>a, <1>b, <2>2, <2>3, <2>6 DEF PassIsOrdered, Persisted
  <2>8. RunsAreOrdered'
    <3>1. \A a \in Actor \ {"sched"} : \A x \in Elems(todo[a]) :
             x.task \in Task \ {t}
      BY <2>5, UnwrittenIs, UnwrittenTyped DEF Write
    <3> QED BY <1>b, <2>1, <2>3, <3>1 DEF RunsAreOrdered, Due
  <2>9. UnwrittenRepeats'
    <3>1. \A x \in Unwritten : x.task \in Task
      BY UnwrittenTyped DEF Write
    <3> QED BY <1>b, <2>1, <2>4, <3>1 DEF UnwrittenRepeats, Repeats
  <2>10. RowFollows'
    <3> SUFFICES ASSUME NEW q \in Task PROVE Follows(q)'
      BY DEF RowFollows
    <3>1. Follows(q)
      BY <1>b DEF RowFollows
    <3> QED BY <2>1, <2>2, <2>3, <2>4, <3>1 DEF Follows
  <2>11. InProgressIsDated'
    BY <1>b, <2>1, <2>2 DEF InProgressIsDated
  <2> QED BY <2>7, <2>8, <2>9, <2>10, <2>11 DEF QuietInv
<1>4. ASSUME StartPass \/ ReturnDue \/ EndPass PROVE QuietInv'
  <2>1. /\ UNCHANGED <<mem, row, todo, run>>
        /\ sched'.plan = sched.plan /\ sched'.held = sched.held
        /\ sched'.cand \subseteq sched.cand
        /\ Persisted /\ Persisted'
    <3>1. CASE StartPass
      BY <3>1, <1>b DEF StartPass, PassIsOrdered, Persisted, TypeOK, Pass
    <3>2. CASE ReturnDue
      BY <3>2 DEF ReturnDue, Persisted, TypeOK, Pass
    <3>3. CASE EndPass
      <4>1. Persisted /\ sched.held = NoTask
        BY <3>3, <1>b DEF EndPass, PassIsOrdered, RunInv, PassInv
      <4> QED BY <3>3, <4>1 DEF EndPass, IdlePass, Persisted
    <3> QED BY <1>4, <3>1, <3>2, <3>3
  <2>2. Unwritten' = Unwritten
    BY <2>1 DEF Unwritten
  <2>3. PassIsOrdered' /\ RunsAreOrdered'
    BY <1>b, <2>1 DEF PassIsOrdered, RunsAreOrdered, Due
  <2> QED BY <1>c, <2>1, <2>2, <2>3
<1>5. ASSUME Persist PROVE QuietInv'
  <2>1. PICK p \in sched.plan :
            /\ todo["sched"] = <<>>
            /\ todo' = [todo EXCEPT !["sched"] = p]
            /\ sched' = [sched EXCEPT !.plan = @ \ {p}]
            /\ UNCHANGED <<mem, row, run>>
    BY <1>5 DEF Persist
  <2>2. /\ sched'.plan = sched.plan \ {p} /\ sched'.held = sched.held
        /\ sched'.stage = sched.stage /\ sched'.cand = sched.cand
        /\ todo'["sched"] = p /\ \A a \in Actor \ {"sched"} : todo'[a] = todo[a]
        /\ ~Persisted
    BY <1>a, <2>1 DEF TypeOK, Pass, Persisted
  <2>3. Unwritten' = Unwritten
    <3>1. \A x : x \notin Elems(todo["sched"])
      BY <2>1, ElemsOf
    <3>2. \A x : (\E a \in Actor : x \in Elems(todo'[a]))
             <=> (\E a \in Actor : x \in Elems(todo[a])) \/ x \in Elems(p)
      BY <1>a, <2>2, <3>1
    <3>3. \A x : (\E r \in sched.plan : x \in Elems(r))
             <=> (\E r \in sched'.plan : x \in Elems(r)) \/ x \in Elems(p)
      BY <2>1, <2>2
    <3>4. \A x : x \in Unwritten' <=>
                    \/ \E a \in Actor : x \in Elems(todo'[a])
                    \/ \E r \in sched'.plan : x \in Elems(r)
      BY DEF Unwritten
    <3> QED BY <3>2, <3>3, <3>4, UnwrittenIs
  <2>4. PassIsOrdered' /\ RunsAreOrdered'
    BY <1>a, <1>b, <2>1, <2>2 DEF PassIsOrdered, RunsAreOrdered, Due
  <2> QED BY <1>c, <2>1, <2>2, <2>3, <2>4
<1>6. ASSUME NEW t \in Task, WriteStalled(t) PROVE QuietInv'
  <2>1. /\ UNCHANGED <<mem, row, todo, run>>
        /\ sched'.plan = sched.plan /\ sched'.held = sched.held
        /\ sched'.cand = sched.cand /\ Persisted /\ Persisted'
    BY <1>6 DEF WriteStalled, Persisted, TypeOK, Pass
  <2>2. Unwritten' = Unwritten
    BY <2>1 DEF Unwritten
  <2>3. PassIsOrdered' /\ RunsAreOrdered'
    BY <1>b, <2>1 DEF PassIsOrdered, RunsAreOrdered, Due
  <2> QED BY <1>c, <2>1, <2>2, <2>3
<1>7. ASSUME NEW t \in Task, NEW w \in Worker, Spawn(t, w) PROVE QuietInv'
  <2>1. /\ UNCHANGED <<mem, row, todo>>
        /\ sched'.plan = sched.plan /\ sched'.held = sched.held
        /\ sched'.cand = sched.cand /\ sched'.stage = sched.stage
        /\ run[w].stage = "free" /\ \A v \in Worker \ {w} : run'[v] = run[v]
    BY <1>7 DEF Spawn, TypeOK, Pass
  <2>2. Unwritten' = Unwritten
    BY <2>1 DEF Unwritten
  <2>3. PassIsOrdered' /\ RunsAreOrdered'
    BY <1>b, <2>1 DEF PassIsOrdered, RunsAreOrdered, Due, Persisted
  <2> QED BY <1>c, <2>1, <2>2, <2>3
<1>8. ASSUME NEW w \in Worker, Begin(w) \/ Close(w) PROVE QuietInv'
  <2>1. /\ UNCHANGED <<mem, row, todo, sched>>
        /\ run[w].stage = "queued" \/ todo[w] = <<>>
        /\ \A v \in Worker \ {w} : run'[v] = run[v]
    BY <1>8 DEF Begin, Close, TypeOK
  <2>2. Unwritten' = Unwritten
    BY <2>1 DEF Unwritten
  <2>3. PassIsOrdered' /\ RunsAreOrdered'
    BY <1>b, <2>1 DEF PassIsOrdered, RunsAreOrdered, Due, Persisted
  <2> QED BY <1>c, <2>1, <2>2, <2>3
<1>9. ASSUME NEW t \in Task, try_claim_task(t) PROVE QuietInv'
  <2>1. /\ UNCHANGED <<mem, todo, run>> /\ sched'.plan = sched.plan
        /\ sched'.stage = sched.stage /\ sched.stage = "claiming"
        /\ t \in sched.cand /\ sched'.cand = sched.cand \ {t}
        /\ Persisted /\ Persisted' /\ sched.held = NoTask
    BY <1>9 DEF try_claim_task, Persisted, TypeOK, Pass
  <2>2. Unwritten' = Unwritten
    BY <2>1 DEF Unwritten
  <2>3. RunsAreOrdered'
    BY <1>b, <2>1 DEF RunsAreOrdered, Due
  <2>4. CASE ~Claimable(row[t])
    <3>1. row' = row /\ sched'.held = sched.held
      BY <1>9, <2>4 DEF try_claim_task, TypeOK, Pass
    <3>2. PassIsOrdered'
      BY <1>b, <2>1, <3>1 DEF PassIsOrdered, Due
    <3> QED BY <1>c, <2>1, <2>2, <2>3, <3>1, <3>2
  <2>5. CASE Claimable(row[t])
    <3>1. /\ sched'.held = t
          /\ row'[t].status = "InProgress" /\ row'[t].when = row[t].when
          /\ row'[t].attempt = row[t].attempt
          /\ \A q \in Task \ {t} : row'[q] = row[q]
      <4>1. /\ row' = [row EXCEPT ![t].status = "InProgress",
                                 ![t].lease = "live"]
            /\ sched' = [sched EXCEPT !.cand = @ \ {t}, !.held = t]
        BY <1>9, <2>5 DEF try_claim_task
      <4>2. row \in [Task -> Row] /\ row[t] \in Row /\ sched'.held = t
        BY <4>1 DEF TypeOK, Pass
      <4>3. row'[t] = [row[t] EXCEPT !.status = "InProgress",
                                     !.lease = "live"]
        BY <4>1, <4>2
      <4> QED BY <4>1, <4>2, <4>3 DEF Row
    <3>2. Due(t) /\ Due(t)'
      BY <1>b, <2>1 DEF PassIsOrdered, Due
    <3>3. PassIsOrdered'
      BY <1>b, <2>1, <3>1, <3>2 DEF PassIsOrdered, Due
    <3>4. \A x \in Unwritten : x.task # t
      BY <1>b, <2>1, <3>2, PersistedStatements
    <3>5. row[t].when # "unset" /\ Follows(t)
      BY <1>b, <3>2, <3>4 DEF RowFollows, Follows, Due
    <3>6. UnwrittenRepeats' /\ InProgressIsDated'
      BY <1>b, <2>1, <2>2, <3>1, <3>5
      DEF UnwrittenRepeats, Repeats, InProgressIsDated
    <3>7. RowFollows'
      <4> SUFFICES ASSUME NEW q \in Task PROVE Follows(q)'
        BY DEF RowFollows
      <4>1. Follows(q)
        BY <1>b DEF RowFollows
      <4> QED BY <1>a, <2>1, <2>2, <3>1, <4>1 DEF Follows
    <3> QED BY <2>3, <3>3, <3>6, <3>7 DEF QuietInv
  <2> QED BY <2>4, <2>5
<1>10. ASSUME MarkClaimed PROVE QuietInv'
  <2> DEFINE t == sched.held
  <2>1. /\ t \in Task /\ Persisted /\ Due(t) /\ t \notin sched.cand
        /\ row[t].status = "InProgress"
    BY <1>a, <1>b, <1>10 DEF MarkClaimed, PassIsOrdered
  <2>2. /\ UNCHANGED <<row, todo, run>> /\ sched'.held = NoTask
        /\ sched'.plan = sched.plan /\ sched'.stage = sched.stage
        /\ sched'.cand = sched.cand
    BY <1>10 DEF MarkClaimed, TypeOK, Pass
  <2>3. /\ mem'[t].status = "InProgress" /\ mem'[t].when = mem[t].when
        /\ mem'[t].attempt = mem[t].attempt
        /\ \A q \in Task \ {t} : mem'[q] = mem[q]
    BY <1>10, <2>1 DEF MarkClaimed, TypeOK, Entry
  <2> HIDE DEF t
  <2>4. Unwritten' = Unwritten
    BY <2>2 DEF Unwritten
  <2>5. \A x \in Unwritten : x.task \in Task \ {t}
    BY <1>b, <2>1, PersistedStatements, UnwrittenTyped DEF Write
  <2>6. PassIsOrdered'
    BY <1>a, <1>b, <2>1, <2>2, <2>3 DEF PassIsOrdered, Due, Persisted
  <2>7. RunsAreOrdered'
    <3>1. \A a \in Actor : \A x \in Elems(todo[a]) : x.task \in Task \ {t}
      BY <2>5, UnwrittenIs
    <3> QED BY <1>b, <2>2, <2>3, <3>1 DEF RunsAreOrdered, Due
  <2>8. UnwrittenRepeats'
    BY <1>b, <2>3, <2>4, <2>5 DEF UnwrittenRepeats, Repeats
  <2>9. RowFollows'
    <3> SUFFICES ASSUME NEW q \in Task PROVE Follows(q)'
      BY DEF RowFollows
    <3>1. Follows(q)
      BY <1>b DEF RowFollows
    <3> QED BY <1>a, <2>1, <2>2, <2>3, <2>4, <3>1 DEF Follows, t
  <2>10. InProgressIsDated'
    BY <1>b, <2>1, <2>2, <2>3 DEF InProgressIsDated, Due
  <2> QED BY <2>6, <2>7, <2>8, <2>9, <2>10 DEF QuietInv
<1>11. ASSUME Recover PROVE QuietInv'
  <2> DEFINE stalled == {t \in Task : /\ mem[t].status = "InProgress"
                                      /\ Stale(t, sched.seen[t])}
             again(t) == <<SetStatus(t, "Pending"),
                           SetFields(t, "now", mem[t].attempt)>>
             new == UNION {Elems(p) : p \in {again(t) : t \in stalled}}
  <2>0. \A t \in Task :
           mem'[t] = IF t \in stalled
                     THEN [mem[t] EXCEPT !.status = "Pending", !.when = "now"]
                     ELSE mem[t]
    BY <1>11 DEF Recover, Stalled
  <2>1. /\ sched.stage = "recover" /\ sched'.stage = "stalling"
        /\ sched'.cand = sched.cand /\ sched'.held = sched.held
        /\ sched'.plan = {again(t) : t \in stalled}
        /\ UNCHANGED <<row, todo, run>>
    <3> DEFINE plan == {again(t) : t \in stalled}
    <3>1. sched' = [sched EXCEPT !.stage = "stalling", !.batch = stalled,
                                 !.plan = plan]
      BY <1>11 DEF Recover, Stalled
    <3>2. sched.stage = "recover" /\ UNCHANGED <<row, todo, run>>
      BY <1>11 DEF Recover, Stalled
    <3> HIDE DEF plan, stalled
    <3>3. /\ sched'.plan = plan /\ sched'.stage = "stalling"
          /\ sched'.cand = sched.cand /\ sched'.held = sched.held
      BY <3>1 DEF TypeOK, Pass
    <3> QED BY <3>2, <3>3 DEF plan
  <2>2. /\ Persisted /\ sched.held = NoTask /\ sched.cand = {}
    BY <1>b, <2>1 DEF PassIsOrdered, RunInv, PassInv
  <2>3. \A t \in stalled : /\ mem'[t].status = "Pending"
                           /\ mem'[t].when = "now"
                           /\ mem'[t].attempt = mem[t].attempt
    <3>1. \A t \in stalled : t \in Task /\ mem[t] \in Entry
      BY DEF TypeOK
    <3> HIDE DEF stalled
    <3> QED BY <2>0, <3>1 DEF Entry
  <2>4. \A t \in Task \ stalled : mem'[t] = mem[t]
    <3> HIDE DEF stalled
    <3> QED BY <2>0
  <2>5. Unwritten' = Unwritten \cup new
    <3>1. Unwritten' = Unwritten \cup (UNION {Elems(p) : p \in sched'.plan})
      BY <2>1, <2>2, PlanAdds
    <3> QED BY <2>1, <3>1
  <2>6. \A x : x \in new <=>
          \E t \in stalled : \/ x = SetStatus(t, "Pending")
                             \/ x = SetFields(t, "now", mem[t].attempt)
    <3>1. \A t : Elems(again(t)) = {SetStatus(t, "Pending"),
                                    SetFields(t, "now", mem[t].attempt)}
      BY ElemsOf
    <3>2. \A x : x \in new <=> \E t \in stalled : x \in Elems(again(t))
      OBVIOUS
    <3> HIDE DEF stalled, again, new
    <3> QED BY <3>1, <3>2
  <2>7. \A t \in stalled : t \in Task /\ mem[t].status = "InProgress"
    OBVIOUS
  <2> HIDE DEF stalled, again, new
  <2>8. \A x \in Unwritten : x.task \notin stalled
    BY <1>b, <2>7 DEF UnwrittenRepeats, Repeats
  <2>9. \A x \in new : x.task \in stalled /\ Repeats(x)'
    <3> SUFFICES ASSUME NEW t \in stalled, NEW x,
                        \/ x = SetStatus(t, "Pending")
                        \/ x = SetFields(t, "now", mem[t].attempt)
                 PROVE  x.task \in stalled /\ Repeats(x)'
      BY <2>6
    <3>1. /\ mem'[t].status = "Pending" /\ mem'[t].when = "now"
          /\ mem'[t].attempt = mem[t].attempt
      BY <2>3
    <3> QED BY <3>1 DEF SetStatus, SetFields, Repeats
  <2>10. \A t \in stalled : Follows(t)'
    <3> SUFFICES ASSUME NEW t \in stalled PROVE Follows(t)'
      OBVIOUS
    <3>1. /\ SetStatus(t, "Pending") \in Unwritten'
          /\ SetFields(t, "now", mem[t].attempt) \in Unwritten'
      BY <2>5, <2>6
    <3>2. /\ SetStatus(t, "Pending").task = t
          /\ SetStatus(t, "Pending").status = "Pending"
          /\ SetFields(t, "now", mem[t].attempt).task = t
          /\ SetFields(t, "now", mem[t].attempt).when = "now"
      BY DEF SetStatus, SetFields
    <3>3. row'[t].attempt = mem'[t].attempt
      BY <1>b, <2>1, <2>3, <2>7, <2>8 DEF RowFollows, Follows
    <3> QED BY <3>1, <3>2, <3>3 DEF Follows
  <2>11. UnwrittenRepeats' /\ RowFollows'
    <3>1. stalled \in SUBSET Task
      BY <2>7
    <3> QED BY <1>b, <2>1, <2>4, <2>5, <2>8, <2>9, <2>10, <3>1, QueueFirst
  <2>12. PassIsOrdered'
    BY <2>1, <2>2 DEF PassIsOrdered
  <2>13. RunsAreOrdered'
    <3>1. \A a \in Actor : \A x \in Elems(todo[a]) : x.task \in Task \ stalled
      BY <2>8, UnwrittenIs, UnwrittenTyped DEF Write
    <3> QED BY <1>b, <2>1, <2>4, <3>1 DEF RunsAreOrdered, Due
  <2>14. InProgressIsDated'
    BY <1>b, <2>1, <2>3, <2>4 DEF InProgressIsDated
  <2> QED BY <2>11, <2>12, <2>13, <2>14 DEF QuietInv
<1>12. ASSUME Scan PROVE QuietInv'
  <2>1. PICK late \in SUBSET {t \in Task : t \in Reminder /\ Due(t)},
             paused \in AutonomyPaused :
          /\ mem' = [t \in Task |->
                        CASE t \in late -> [mem[t] EXCEPT !.status = "Cancelled"]
                          [] Unscheduled(t) -> [mem[t] EXCEPT !.when = "later"]
                          [] OTHER -> mem[t]]
          /\ sched' = [sched EXCEPT
                          !.stage = "claiming",
                          !.cand = {t \in Task \ late :
                                       Due(t) /\ (paused => t \in Reminder)},
                          !.plan = {<<SetStatus(t, "Cancelled")>> : t \in late}
                                   \cup {<<SetFields(t, "later", 0)>> :
                                         t \in {u \in Task : Unscheduled(u)}}]
    BY <1>12, TaskAssumption DEF Scan
  <2> DEFINE undated == {t \in Task : Unscheduled(t)}
             cand == {t \in Task \ late : Due(t) /\ (paused => t \in Reminder)}
             plan == {<<SetStatus(t, "Cancelled")>> : t \in late}
                     \cup {<<SetFields(t, "later", 0)>> : t \in undated}
             new == UNION {Elems(p) : p \in plan}
  <2>2. /\ Persisted /\ sched.held = NoTask
        /\ UNCHANGED <<row, todo, run>>
    BY <1>12 DEF Scan, RunInv, PassInv
  <2>3. /\ late \subseteq Task /\ undated \subseteq Task /\ cand \subseteq Task
        /\ \A t \in late : Due(t) /\ ~Unscheduled(t)
        /\ \A t \in undated : mem[t].status = "Pending" /\ mem[t].when = "unset"
        /\ \A t \in cand : Due(t) /\ t \notin late /\ t \notin undated
    BY <2>1 DEF Due, Unscheduled
  <2>4. /\ \A t \in late : mem'[t] = [mem[t] EXCEPT !.status = "Cancelled"]
        /\ \A t \in undated : mem'[t] = [mem[t] EXCEPT !.when = "later"]
        /\ \A t \in Task \ (late \cup undated) : mem'[t] = mem[t]
    BY <2>1, <2>3
  <2>5. /\ sched'.stage = "claiming" /\ sched'.held = NoTask
        /\ sched'.cand = cand /\ sched'.plan = plan
    <3>1. sched' = [sched EXCEPT !.stage = "claiming", !.cand = cand,
                                 !.plan = plan]
      BY <2>1
    <3> HIDE DEF cand, plan
    <3> QED BY <2>2, <3>1 DEF TypeOK, Pass
  <2>6. Unwritten' = Unwritten \cup new
    <3>1. Unwritten' = Unwritten \cup (UNION {Elems(p) : p \in sched'.plan})
      BY <2>2, PlanAdds
    <3> QED BY <2>5, <3>1
  <2>7. \A x : x \in new <=> \/ \E t \in late : x = SetStatus(t, "Cancelled")
                             \/ \E t \in undated : x = SetFields(t, "later", 0)
    <3>1. \A x : x \in new <=>
              \/ \E t \in late : x \in Elems(<<SetStatus(t, "Cancelled")>>)
              \/ \E t \in undated : x \in Elems(<<SetFields(t, "later", 0)>>)
      OBVIOUS
    <3>2. /\ \A t, x : x \in Elems(<<SetStatus(t, "Cancelled")>>)
                         <=> x = SetStatus(t, "Cancelled")
          /\ \A t, x : x \in Elems(<<SetFields(t, "later", 0)>>)
                         <=> x = SetFields(t, "later", 0)
      BY ElemsOf
    <3> HIDE DEF undated, plan, new
    <3> QED BY <3>1, <3>2, Zenon
  <2> HIDE DEF undated, cand, plan, new
  <2>8. \A x \in Unwritten : x.task \notin late \cup undated
    BY <1>b, <2>2, <2>3, PersistedStatements
  <2>9. /\ \A t \in late : /\ mem'[t].status = "Cancelled"
                           /\ mem'[t].when = mem[t].when
                           /\ mem'[t].attempt = mem[t].attempt
        /\ \A t \in undated : /\ mem'[t].status = mem[t].status
                              /\ mem'[t].when = "later"
                              /\ mem'[t].attempt = mem[t].attempt
    <3>1. ASSUME NEW t \in late
          PROVE  /\ mem'[t].status = "Cancelled"
                 /\ mem'[t].when = mem[t].when
                 /\ mem'[t].attempt = mem[t].attempt
      <4>1. mem[t] \in Entry /\ mem'[t] = [mem[t] EXCEPT !.status = "Cancelled"]
        BY <2>3, <2>4 DEF TypeOK
      <4> QED BY <4>1 DEF Entry
    <3>2. ASSUME NEW t \in undated
          PROVE  /\ mem'[t].status = mem[t].status
                 /\ mem'[t].when = "later"
                 /\ mem'[t].attempt = mem[t].attempt
      <4>1. mem[t] \in Entry /\ mem'[t] = [mem[t] EXCEPT !.when = "later"]
        BY <2>3, <2>4 DEF TypeOK
      <4> QED BY <4>1 DEF Entry
    <3> QED BY <3>1, <3>2
  <2>10. \A x \in new : x.task \in late \cup undated /\ Repeats(x)'
    <3>1. ASSUME NEW t \in late, NEW x, x = SetStatus(t, "Cancelled")
          PROVE  x.task \in late \cup undated /\ Repeats(x)'
      BY <2>9, <3>1 DEF SetStatus, Repeats
    <3>2. ASSUME NEW t \in undated, NEW x, x = SetFields(t, "later", 0)
          PROVE  x.task \in late \cup undated /\ Repeats(x)'
      BY <2>3, <2>9, <3>2 DEF SetFields, Repeats
    <3> QED BY <2>7, <3>1, <3>2
  <2>11. \A t \in late \cup undated : Follows(t)'
    <3> SUFFICES ASSUME NEW t \in late \cup undated PROVE Follows(t)'
      OBVIOUS
    <3>1. /\ t \in Task
          /\ row[t].status = mem[t].status /\ row[t].attempt = mem[t].attempt
          /\ row[t].when = "unset" <=> mem[t].when = "unset"
      BY <1>a, <1>b, <2>2, <2>3, <2>8 DEF RowFollows, Follows
    <3>2. CASE t \in late
      <4>1. SetStatus(t, "Cancelled") \in Unwritten'
        BY <2>6, <2>7, <3>2
      <4>2. /\ SetStatus(t, "Cancelled").task = t
            /\ SetStatus(t, "Cancelled").status = "Cancelled"
        BY DEF SetStatus
      <4> QED BY <2>2, <2>9, <3>1, <3>2, <4>1, <4>2 DEF Follows
    <3>3. CASE t \in undated
      <4>1. SetFields(t, "later", 0) \in Unwritten'
        BY <2>6, <2>7, <3>3
      <4>2. /\ SetFields(t, "later", 0).task = t
            /\ SetFields(t, "later", 0).when = "later"
        BY DEF SetFields
      <4> QED BY <2>2, <2>9, <3>1, <3>3, <4>1, <4>2 DEF Follows
    <3> QED BY <3>2, <3>3
  <2>12. UnwrittenRepeats' /\ RowFollows'
    <3>1. late \cup undated \in SUBSET Task
      BY <2>3
    <3> QED BY <1>b, <2>2, <2>4, <2>5, <2>6, <2>8, <2>10, <2>11, <3>1, QueueFirst
  <2>13. PassIsOrdered'
    <3>1. \A t \in cand : Due(t)' /\ t # NoTask
      BY <1>a, <2>3, <2>4 DEF Due
    <3> QED BY <2>5, <3>1 DEF PassIsOrdered
  <2>14. RunsAreOrdered'
    <3>1. \A a \in Actor : \A x \in Elems(todo[a]) :
             x.task \in Task \ (late \cup undated)
      BY <2>8, UnwrittenIs, UnwrittenTyped DEF Write
    <3> QED BY <1>b, <2>2, <2>4, <3>1 DEF RunsAreOrdered, Due
  <2>15. InProgressIsDated'
    BY <1>b, <2>2, <2>3, <2>4, <2>9 DEF InProgressIsDated
  <2> QED BY <2>12, <2>13, <2>14, <2>15 DEF QuietInv
<1>13. ASSUME NEW w \in Worker, NEW t \in Task, NEW ws, Executing(w, t),
              run[w].stage = "running", run' = [run EXCEPT ![w].stage = "closing"],
              todo' = [todo EXCEPT ![w] = ws],
              \A x \in Elems(ws) : x.task = t /\ Repeats(x)',
              Follows(t)', ~Due(t)',
              mem'[t].when # "unset", mem'[t].status # "InProgress",
              \A q \in Task \ {t} : mem'[q] = mem[q],
              UNCHANGED <<row, sched>>
       PROVE  QuietInv'
  <2>1. todo[w] = <<>> /\ w \in Actor /\ w # "sched"
    BY <1>a, <1>b, <1>13 DEF RunsAreOrdered
  <2>2. Unwritten' = Unwritten \cup Elems(ws)
    BY <1>13, <2>1, WriterAdds
  <2>3. mem[t].status = "InProgress" /\ t \notin sched.cand /\ sched.held # t
    BY <1>13 DEF RunInv, BusyIsMarked, BusyIsNotTaken, Busy
  <2>4. \A x \in Unwritten : x.task \notin {t} /\ x.task \in Task
    BY <1>b, <2>3, UnwrittenTyped DEF UnwrittenRepeats, Repeats, Write
  <2>5. UnwrittenRepeats' /\ RowFollows'
    <3> DEFINE T == {t}
               N == Elems(ws)
    <3>1. /\ T \in SUBSET Task /\ \A q \in Task \ T : mem'[q] = mem[q]
          /\ \A x \in N : x.task \in T /\ Repeats(x)'
          /\ \A q \in T : Follows(q)'
          /\ \A x \in Unwritten : x.task \notin T
          /\ Unwritten' = Unwritten \cup N
          /\ row' = row /\ sched'.held = sched.held
      BY <1>13, <2>2, <2>4
    <3> HIDE DEF T, N
    <3> QED BY <1>b, <3>1, QueueFirst
  <2>6. PassIsOrdered'
    <3>1. \A q \in Task \ {t} : Due(q)' <=> Due(q)
      BY <1>13 DEF Due
    <3>2. todo'["sched"] = todo["sched"]
      BY <1>13, <2>1 DEF TypeOK
    <3> QED BY <1>a, <1>b, <1>13, <2>3, <3>1, <3>2 DEF PassIsOrdered, Persisted
  <2>7. RunsAreOrdered'
    <3>1. /\ todo'[w] = ws /\ \A a \in Actor \ {w} : todo'[a] = todo[a]
          /\ run'[w].stage = "closing"
          /\ \A v \in Worker \ {w} : run'[v] = run[v]
      BY <1>13, <2>1 DEF TypeOK, Run
    <3>2. \A a \in Actor : \A x \in Elems(todo[a]) : x.task \in Task \ {t}
      BY <2>4, UnwrittenIs
    <3>3. ASSUME NEW a \in Actor \ {"sched"}, NEW x \in Elems(todo'[a])
          PROVE  ~Due(x.task)' /\ mem'[x.task].when # "unset"
      <4>1. CASE a = w
        BY <1>13, <3>1, <3>3, <4>1 DEF Due
      <4>2. CASE a # w
        BY <1>13, <1>b, <3>1, <3>2, <3>3, <4>2 DEF RunsAreOrdered, Due
      <4> QED BY <4>1, <4>2
    <3>4. \A v \in Worker : run'[v].stage # "closing" => todo'[v] = <<>>
      BY <1>a, <1>b, <3>1 DEF RunsAreOrdered
    <3> QED BY <3>3, <3>4 DEF RunsAreOrdered, Due
  <2>8. InProgressIsDated'
    BY <1>b, <1>13 DEF InProgressIsDated
  <2> QED BY <2>5, <2>6, <2>7, <2>8 DEF QuietInv
<1>14. ASSUME NEW w \in Worker, run[w].stage = "running"
       PROVE  LET t == run[w].task
              IN /\ t \in Task /\ Executing(w, t) /\ t # sched.held
                 /\ mem[t].status = "InProgress" /\ mem[t].when # "unset"
                 /\ row[t].status = mem[t].status
                 /\ row[t].attempt = mem[t].attempt
                 /\ row[t].when = "unset" <=> mem[t].when = "unset"
                 /\ \A x \in Unwritten : x.task # t
  <2> DEFINE t == run[w].task
  <2>1. t \in Task /\ Executing(w, t)
    BY <1>14 DEF TaskKnown, Executing
  <2> HIDE DEF t
  <2>2. mem[t].status = "InProgress" /\ sched.held # t
    BY <2>1 DEF RunInv, BusyIsMarked, BusyIsNotTaken, Busy
  <2>3. \A x \in Unwritten : x.task # t
    BY <1>b, <2>2 DEF UnwrittenRepeats, Repeats
  <2>4. Follows(t) /\ mem[t].when # "unset"
    BY <1>b, <2>1, <2>2 DEF RowFollows, InProgressIsDated
  <2> QED BY <2>1, <2>2, <2>3, <2>4 DEF Follows, t
<1>15. ASSUME NEW w \in Worker, NEW s \in {"Completed", "Paused", "Failed"},
              NEW t \in Task, t = run[w].task, finalize_task(w, s)
       PROVE  QuietInv'
  <2> DEFINE again == t \in Recurring /\ s # "Paused"
             stored == IF again THEN "Pending" ELSE s
             when == IF again THEN "later" ELSE mem[t].when
             ws == <<SetStatus(t, stored)>> \o
                   (IF t \in Recurring THEN <<SetFields(t, when, 0)>> ELSE <<>>)
  <2>1. /\ Executing(w, t) /\ t # sched.held
        /\ mem[t].status = "InProgress" /\ mem[t].when # "unset"
        /\ row[t].attempt = mem[t].attempt
        /\ row[t].when = "unset" <=> mem[t].when = "unset"
    BY <1>14, <1>15 DEF finalize_task
  <2>2. /\ run[w].stage = "running"
        /\ run' = [run EXCEPT ![w].stage = "closing"]
        /\ mem' = [mem EXCEPT ![t].status = stored,
                              ![t].when = IF again THEN "later" ELSE @]
        /\ todo' = [todo EXCEPT ![w] = ws]
        /\ UNCHANGED <<row, sched>>
    BY <1>15, <2>1 DEF finalize_task, Closing
  <2> HIDE DEF ws
  <2>3. /\ mem'[t].status = stored /\ mem'[t].when = when
        /\ mem'[t].attempt = mem[t].attempt
        /\ \A q \in Task \ {t} : mem'[q] = mem[q]
    <3>1. mem \in [Task -> Entry] /\ mem[t] \in Entry
      BY <2>1 DEF TypeOK
    <3>2. CASE again
      <4>1. mem' = [mem EXCEPT ![t].status = stored, ![t].when = "later"]
        BY <2>2, <3>2
      <4> HIDE DEF again, stored
      <4> QED BY <2>1, <3>1, <3>2, <4>1 DEF Entry
    <3>3. CASE ~again
      <4>1. mem' = [mem EXCEPT ![t].status = stored, ![t].when = @]
        BY <2>2, <3>3
      <4> HIDE DEF again, stored
      <4> QED BY <2>1, <3>1, <3>3, <4>1 DEF Entry
    <3> QED BY <3>2, <3>3
  <2>4. /\ stored \in {"Pending", "Completed", "Paused", "Failed"}
        /\ when # "unset" /\ when # "keep"
        /\ stored = "Pending" => when = "later"
    <3>1. mem[t].when \in When
      BY <2>1 DEF TypeOK, Entry
    <3> QED BY <2>1, <3>1 DEF When
  <2> HIDE DEF again, stored, when
  <2>5. \A x \in Elems(ws) : x = SetStatus(t, stored) \/ x = SetFields(t, when, 0)
    <3>1. CASE t \in Recurring
      <4>1. ws = <<SetStatus(t, stored)>> \o <<SetFields(t, when, 0)>>
        BY <3>1 DEF ws
      <4> QED BY <4>1, ElemsJoined
    <3>2. CASE t \notin Recurring
      <4>1. ws = <<SetStatus(t, stored)>>
        BY <3>2 DEF ws
      <4> QED BY <4>1, ElemsOf
    <3> QED BY <3>1, <3>2
  <2>6. SetStatus(t, stored) \in Elems(ws)
    <3>1. CASE t \in Recurring
      <4>1. ws = <<SetStatus(t, stored)>> \o <<SetFields(t, when, 0)>>
        BY <3>1 DEF ws
      <4> QED BY <4>1, ElemsJoined
    <3>2. CASE t \notin Recurring
      <4>1. ws = <<SetStatus(t, stored)>>
        BY <3>2 DEF ws
      <4> QED BY <4>1, ElemsOf
    <3> QED BY <3>1, <3>2
  <2>7. \A x \in Elems(ws) : x.task = t /\ Repeats(x)'
    <3>1. ASSUME NEW x, x = SetStatus(t, stored) PROVE x.task = t /\ Repeats(x)'
      BY <2>3, <2>4, <3>1 DEF SetStatus, Repeats
    <3>2. ASSUME NEW x, x = SetFields(t, when, 0) PROVE x.task = t /\ Repeats(x)'
      BY <2>3, <2>4, <3>2 DEF SetFields, Repeats
    <3> QED BY <2>5, <3>1, <3>2
  <2>8. Follows(t)'
    <3>1. Unwritten' = Unwritten \cup Elems(ws)
      <4>1. todo[w] = <<>> /\ w \in Actor
        BY <1>a, <1>b, <2>2 DEF RunsAreOrdered
      <4> QED BY <2>2, <4>1, WriterAdds
    <3>2. SetStatus(t, stored) \in Unwritten'
      BY <2>6, <3>1
    <3>3. SetStatus(t, stored).task = t /\ SetStatus(t, stored).status = stored
      BY DEF SetStatus
    <3> QED BY <2>1, <2>2, <2>3, <2>4, <3>2, <3>3 DEF Follows
  <2> QED BY <1>13, <2>1, <2>2, <2>3, <2>4, <2>7, <2>8 DEF Due
<1>16. ASSUME NEW w \in Worker, NEW t \in Task, t = run[w].task,
              reschedule_task_retry(w)
       PROVE  QuietInv'
  <2> DEFINE n == run[w].attempt + 1
             ws == <<SetStatus(t, "Pending"), SetFields(t, "later", n)>>
  <2>1. Executing(w, t)
    BY <1>14, <1>16 DEF reschedule_task_retry, Requeue
  <2>2. /\ run[w].stage = "running"
        /\ run' = [run EXCEPT ![w].stage = "closing"]
        /\ mem' = [mem EXCEPT ![t] = [status |-> "Pending", when |-> "later",
                                      attempt |-> n]]
        /\ todo' = [todo EXCEPT ![w] = ws]
        /\ UNCHANGED <<row, sched>>
    BY <1>16 DEF reschedule_task_retry, Requeue, Closing
  <2> HIDE DEF n
  <2>3. /\ mem'[t].status = "Pending" /\ mem'[t].when = "later"
        /\ mem'[t].attempt = n
        /\ \A q \in Task \ {t} : mem'[q] = mem[q]
    BY <2>2 DEF TypeOK
  <2>4. Elems(ws) = {SetStatus(t, "Pending"), SetFields(t, "later", n)}
    BY ElemsOf
  <2> HIDE DEF ws
  <2>5. \A x \in Elems(ws) : x.task = t /\ Repeats(x)'
    <3>1. ASSUME NEW x, x = SetStatus(t, "Pending")
          PROVE  x.task = t /\ Repeats(x)'
      BY <2>3, <3>1 DEF SetStatus, Repeats
    <3>2. ASSUME NEW x, x = SetFields(t, "later", n)
          PROVE  x.task = t /\ Repeats(x)'
      BY <2>3, <3>2 DEF SetFields, Repeats
    <3> QED BY <2>4, <3>1, <3>2
  <2>6. Follows(t)'
    <3>1. Unwritten' = Unwritten \cup Elems(ws)
      <4>1. todo[w] = <<>> /\ w \in Actor
        BY <1>a, <1>b, <2>2 DEF RunsAreOrdered
      <4> QED BY <2>2, <4>1, WriterAdds
    <3>2. /\ SetStatus(t, "Pending") \in Unwritten'
          /\ SetFields(t, "later", n) \in Unwritten'
      BY <2>4, <3>1
    <3>3. /\ SetStatus(t, "Pending").task = t
          /\ SetStatus(t, "Pending").status = "Pending"
          /\ SetFields(t, "later", n).task = t
          /\ SetFields(t, "later", n).when = "later"
          /\ SetFields(t, "later", n).attempt = n
      BY DEF SetStatus, SetFields
    <3>4. n # 0
      BY <2>2 DEF TypeOK, Run, n
    <3> QED BY <3>2, <3>3, <3>4 DEF Follows
  <2> QED BY <1>13, <2>1, <2>2, <2>3, <2>5, <2>6 DEF Due
<1>17. ASSUME Restart PROVE QuietInv'
  <2>1. /\ \A a \in Actor : todo'[a] = <<>>
        /\ sched'.plan = {} /\ sched'.cand = {} /\ sched'.held = NoTask
        /\ row' = row
    BY <1>17 DEF Restart, NoWrites, IdlePass
  <2>2. \A t \in Task : /\ mem'[t].status = row[t].status
                        /\ mem'[t].when = row[t].when
                        /\ mem'[t].attempt = row[t].attempt
    BY <1>17 DEF Restart
  <2>3. Unwritten' = {}
    BY <2>1, ElemsOf DEF Unwritten
  <2>4. PassIsOrdered' /\ RunsAreOrdered'
    BY <1>a, <2>1, ElemsOf DEF PassIsOrdered, RunsAreOrdered, Persisted
  <2> QED BY <1>b, <2>1, <2>2, <2>3, <2>4
          DEF QuietInv, UnwrittenRepeats, RowFollows, Follows, InProgressIsDated
<1>18. ASSUME NEW a \in Actor, WriteRow(a) \/ FailWrite(a) PROVE QuietInv'
  <2>1. ~FailWrite(a)
    BY DEF FailWrite, Undisturbed
  <2> QED BY <1>18, <2>1, QuietWriteRow
<1>19. ~DropPass
  BY DEF DropPass, Undisturbed
<1>20. ASSUME NEW u \in User, NEW t \in Task PROVE ~UserStep(u, t)
  BY DEF UserStep, pause_task, resume_task, cancel_task, retry_task,
         UpdateSimilar, Request, Undisturbed
<1>21. ASSUME NEW w \in Worker, Finish(w) PROVE QuietInv'
  <2>1. CASE reschedule_task_retry(w)
    <3>1. run[w].task \in Task
      BY <2>1, <1>14 DEF reschedule_task_retry, Requeue
    <3> QED BY <2>1, <3>1, <1>16
  <2>2. ASSUME NEW s \in {"Completed", "Paused", "Failed"}, finalize_task(w, s)
        PROVE  QuietInv'
    <3>1. run[w].task \in Task
      BY <2>2, <1>14 DEF finalize_task
    <3> QED BY <2>2, <3>1, <1>15
  <2> QED BY <1>21, <2>1, <2>2 DEF Finish, Succeed, AskForInput, FailForGood
<1>22. CASE Next
  <2>1. CASE SchedulerStep
    BY <2>1, <1>4, <1>5, <1>6, <1>7, <1>9, <1>10, <1>11, <1>12
    DEF SchedulerStep
  <2>2. CASE \E w \in Worker : Begin(w) \/ Finish(w) \/ Close(w)
    BY <2>2, <1>8, <1>21
  <2>3. CASE \E a \in Actor : WriteRow(a) \/ FailWrite(a)
    BY <2>3, <1>18
  <2>4. CASE \E t \in Task : ComesDue(t) \/ LeaseLapses(t) \/ GrowsOld(t)
    <3>1. ASSUME NEW t \in Task, GrowsOld(t) PROVE QuietInv'
      BY <3>1, <1>1 DEF GrowsOld
    <3> QED BY <2>4, <3>1, <1>2, <1>3
  <2>5. CASE Restart
    BY <2>5, <1>17
  <2> QED BY <1>22, <2>1, <2>2, <2>3, <2>4, <2>5, <1>19, <1>20 DEF Next
<1>23. CASE UNCHANGED vars
  BY <1>23, <1>1 DEF vars
<1> QED
  BY <1>22, <1>23

(* At rest the table says what the queue says, whatever the order in which *)
(* the statements of the scheduler and of the executions reached it, and   *)
(* also after a restart in the middle of them: a writer changes the queue  *)
(* before it writes, no two have statements for one task at a time, and    *)
(* none takes a task that is in progress (take_due_tasks, finalize_task,   *)
(* reschedule_task_retry, recover_stale_in_progress_tasks).                *)
THEOREM TableFollowsQueue ==
    ASSUME Supervised, Undisturbed
    PROVE  Spec => []QuietAgreement
<1>1. ASSUME QuietInv, RunInv, Quiet PROVE QuietAgreement
  <2>1. Persisted /\ sched.held = NoTask
    BY <1>1 DEF Quiet, QuietInv, PassIsOrdered, RunInv, PassInv
  <2>2. Unwritten = {}
    BY <1>1, <2>1, ElemsOf DEF Quiet, NoWrites, Persisted, Unwritten
  <2>3. \A t \in Task : Follows(t) /\ sched.held # t
    BY <1>1, <2>1, TaskAssumption DEF QuietInv, RowFollows
  <2> QED BY <2>2, <2>3 DEF Follows, QuietAgreement
<1>2. QuietInv /\ RunInv => QuietAgreement
  BY <1>1 DEF QuietAgreement
<1> QED
  BY <1>2, RunInit, RunStep, QuietInit, QuietStep, Typed, PTL DEF Spec

----------------------------------------------------------------------------
(* The queue keeps the promise of TaskLifecycle. *)

(* What the promise assumes besides: nobody pauses a task.  A claim that   *)
(* is answered marks the entry in progress whatever it says by then, that  *)
(* of a paused task too.                                                   *)
NoHolds == "pause" \notin UserOps

(* What the pass is about to claim, and what it has claimed and not yet    *)
(* marked, waits in the queue.                                             *)
TakenIsPending ==
    /\ sched.held \notin sched.cand
    /\ \A t \in Task : t \in sched.cand \/ t = sched.held
                          => mem[t].status = "Pending"

LEMMA TakenInit == Init => TakenIsPending
BY TaskAssumption DEF Init, IdlePass, TakenIsPending

LEMMA TakenStep ==
    ASSUME Supervised, NoHolds, TypeOK, TaskKnown, RunInv, TakenIsPending,
           [Next]_vars
    PROVE  TakenIsPending'
<1>0. /\ mem \in [Task -> Entry] /\ NoTask \notin Task
      /\ sched \in Pass /\ sched.cand \subseteq Task
    BY TaskAssumption DEF TypeOK, Pass
<1>1. ASSUME \A t \in Task : mem[t].status = "Pending"
                                => mem'[t].status = "Pending",
             sched'.cand \subseteq sched.cand,
             sched'.held \in {sched.held, NoTask}
      PROVE  TakenIsPending'
    BY <1>0, <1>1 DEF TakenIsPending
<1>2. ASSUME UNCHANGED mem, sched'.cand \subseteq sched.cand,
             sched'.held \in {sched.held, NoTask}
      PROVE  TakenIsPending'
    BY <1>1, <1>2
<1>3. ASSUME NEW t \in Task, ComesDue(t) PROVE TakenIsPending'
  <2>1. mem' = [mem EXCEPT ![t].when = "now"] /\ UNCHANGED sched
    BY <1>3 DEF ComesDue
  <2>2. \A q \in Task : mem'[q].status = mem[q].status
    BY <1>0, <2>1 DEF Entry
  <2> QED BY <1>1, <2>1, <2>2
<1>4. CASE Recover
  <2>1. mem' = [t \in Task |->
                   IF Stalled(t)
                   THEN [mem[t] EXCEPT !.status = "Pending", !.when = "now"]
                   ELSE mem[t]]
    BY <1>4 DEF Recover
  <2>2. \A t \in Task : mem'[t].status \in {mem[t].status, "Pending"}
    BY <1>0, <2>1 DEF Entry
  <2>3. PICK plan, stalled :
          sched' = [sched EXCEPT !.stage = "stalling", !.batch = stalled,
                                 !.plan = plan]
    BY <1>4 DEF Recover
  <2>4. sched'.cand = sched.cand /\ sched'.held = sched.held
    BY <1>0, <2>3 DEF Pass
  <2> QED BY <1>1, <2>2, <2>4
<1>5. CASE Scan
  <2>1. PICK late \in SUBSET {t \in Reminder : Due(t)},
             paused \in AutonomyPaused :
          /\ mem' = [t \in Task |->
                        CASE t \in late -> [mem[t] EXCEPT !.status = "Cancelled"]
                          [] Unscheduled(t) -> [mem[t] EXCEPT !.when = "later"]
                          [] OTHER -> mem[t]]
          /\ sched' = [sched EXCEPT
                          !.stage = "claiming",
                          !.cand = {t \in Task \ late :
                                       Due(t) /\ (paused => t \in Reminder)},
                          !.plan = {<<SetStatus(t, "Cancelled")>> : t \in late}
                                   \cup {<<SetFields(t, "later", 0)>> :
                                         t \in {u \in Task : Unscheduled(u)}}]
    BY <1>5 DEF Scan
  <2>2. sched'.held = NoTask
    BY <1>0, <1>5, <2>1 DEF Scan, RunInv, PassInv, Pass
  <2>3. \A t \in sched'.cand : t \in Task \ late /\ Due(t)
    BY <1>0, <2>1 DEF Pass
  <2>4. ASSUME NEW t \in sched'.cand
        PROVE  t \in Task /\ mem'[t].status = "Pending"
    BY <2>1, <2>3 DEF Due, Unscheduled
  <2> QED BY <1>0, <2>2, <2>4 DEF TakenIsPending
<1>6. ASSUME NEW t \in Task, try_claim_task(t) PROVE TakenIsPending'
  <2>1. /\ UNCHANGED mem /\ sched.held = NoTask /\ t \in sched.cand
        /\ sched'.cand = sched.cand \ {t} /\ sched'.held \in {sched.held, t}
    BY <1>0, <1>6 DEF try_claim_task, Pass
  <2> QED BY <1>0, <2>1 DEF TakenIsPending
<1>7. CASE MarkClaimed
  <2>1. /\ sched.held \in Task /\ sched.held \notin sched.cand
        /\ mem' = [mem EXCEPT ![sched.held].status = "InProgress"]
        /\ sched'.cand = sched.cand /\ sched'.held = NoTask
    BY <1>0, <1>7 DEF MarkClaimed, Pass, TakenIsPending
  <2>2. \A t \in Task \ {sched.held} : mem'[t] = mem[t]
    BY <1>0, <2>1
  <2> QED BY <1>0, <2>1, <2>2 DEF TakenIsPending
<1>8. CASE StartPass \/ Persist \/ ReturnDue \/ EndPass \/ DropPass
  <2>1. UNCHANGED mem
    BY <1>8 DEF StartPass, Persist, ReturnDue, EndPass, DropPass
  <2>2. CASE StartPass \/ Persist \/ ReturnDue
    <3>1. sched'.cand = sched.cand /\ sched'.held = sched.held
      BY <1>0, <2>2 DEF StartPass, Persist, ReturnDue, Pass
    <3> QED BY <1>2, <2>1, <3>1
  <2>3. CASE EndPass \/ DropPass
    <3>1. sched'.cand = {} /\ sched'.held = NoTask
      BY <2>3 DEF EndPass, DropPass, IdlePass
    <3> QED BY <1>2, <2>1, <3>1
  <2> QED BY <1>8, <2>2, <2>3
<1>9. ASSUME NEW t \in Task, NEW w \in Worker, Spawn(t, w)
      PROVE  TakenIsPending'
  <2>1. /\ UNCHANGED mem
        /\ sched'.cand = sched.cand /\ sched'.held = sched.held
    BY <1>0, <1>9 DEF Spawn, Pass
  <2> QED BY <1>2, <2>1
<1>10. ASSUME NEW t \in Task, WriteStalled(t) PROVE TakenIsPending'
  <2>1. /\ UNCHANGED mem
        /\ sched'.cand = sched.cand /\ sched'.held = sched.held
    BY <1>0, <1>10 DEF WriteStalled, Pass
  <2> QED BY <1>2, <2>1
<1>11. CASE UNCHANGED <<mem, sched>>
  BY <1>2, <1>11
<1>12. ASSUME NEW w \in Worker, NEW s \in {"Completed", "Paused", "Failed"},
              finalize_task(w, s) \/ reschedule_task_retry(w)
       PROVE  TakenIsPending'
  <2> DEFINE t == run[w].task
  <2>1. t \in Task /\ mem[t].status = "InProgress" /\ UNCHANGED sched
    <3>1. t \in Task /\ Executing(w, t)
      BY <1>12 DEF finalize_task, reschedule_task_retry, Requeue, TaskKnown,
                   Executing
    <3>2. mem[t].status = "InProgress"
      BY <3>1 DEF RunInv, BusyIsMarked, Busy
    <3> QED BY <1>12, <3>1, <3>2
            DEF finalize_task, reschedule_task_retry, Requeue
  <2>2. \A q \in Task \ {run[w].task} : mem'[q] = mem[q]
    BY <1>0, <1>12 DEF finalize_task, reschedule_task_retry, Requeue
  <2> QED BY <1>1, <2>1, <2>2
<1>13. ASSUME NEW u \in User, NEW t \in Task, UserStep(u, t)
       PROVE  TakenIsPending'
  <2>1. UNCHANGED sched
    BY <1>13 DEF UserStep, pause_task, resume_task, cancel_task, retry_task,
                 UpdateSimilar
  <2>2. \A q \in Task : mem[q].status = "Pending" => mem'[q].status = "Pending"
    <3>1. ~pause_task(u, t) /\ ~cancel_task(u, t)
      BY DEF pause_task, cancel_task, Request, NoHolds, Supervised
    <3>2. CASE resume_task(u, t)
      BY <1>0, <3>2 DEF resume_task, Entry
    <3>3. CASE retry_task(u, t)
      BY <1>0, <3>3 DEF retry_task, Entry
    <3>4. CASE UpdateSimilar(u, t)
      BY <1>0, <3>4 DEF UpdateSimilar
    <3> QED BY <1>13, <3>1, <3>2, <3>3, <3>4 DEF UserStep
  <2> QED BY <1>1, <2>1, <2>2
<1>14. CASE Restart
  BY <1>0, <1>14 DEF Restart, IdlePass, TakenIsPending
<1>15. CASE SchedulerStep
  BY <1>4, <1>5, <1>6, <1>7, <1>8, <1>9, <1>10, <1>15 DEF SchedulerStep
<1>16. ASSUME NEW w \in Worker, Begin(w) \/ Finish(w) \/ Close(w)
       PROVE  TakenIsPending'
  <2>1. CASE Begin(w) \/ Close(w)
    BY <1>11, <2>1 DEF Begin, Close
  <2> QED BY <1>12, <1>16, <2>1
          DEF Finish, Succeed, AskForInput, FailForGood
<1>17. ASSUME NEW a \in Actor, WriteRow(a) \/ FailWrite(a)
       PROVE  TakenIsPending'
  BY <1>11, <1>17 DEF WriteRow, FailWrite
<1>18. ASSUME NEW t \in Task, LeaseLapses(t) \/ GrowsOld(t)
       PROVE  TakenIsPending'
  BY <1>11, <1>18 DEF LeaseLapses, GrowsOld
<1>19. CASE UNCHANGED vars
  BY <1>11, <1>19 DEF vars
<1> QED
  BY <1>3, <1>8, <1>13, <1>14, <1>15, <1>16, <1>17, <1>18, <1>19 DEF Next

(* What a task looks like from outside, before and after a step. *)
LEMMA StateOf ==
    ASSUME NEW t
    PROVE  /\ IsRunning(t) => LifecycleState(t) = "running"
           /\ ~IsRunning(t) =>
                /\ mem[t].status \in {"Pending", "InProgress"}
                      => LifecycleState(t) = "waiting"
                /\ mem[t].status = "Paused" => LifecycleState(t) = "paused"
                /\ mem[t].status \in {"Completed", "Failed", "Cancelled"}
                      => LifecycleState(t) = "settled"
           /\ IsRunning(t)' => LifecycleState(t)' = "running"
           /\ ~IsRunning(t)' =>
                /\ mem'[t].status \in {"Pending", "InProgress"}
                      => LifecycleState(t)' = "waiting"
                /\ mem'[t].status = "Paused" => LifecycleState(t)' = "paused"
                /\ mem'[t].status \in {"Completed", "Failed", "Cancelled"}
                      => LifecycleState(t)' = "settled"
BY DEF LifecycleState, IsRunning

LEMMA StateStays ==
    ASSUME NEW t, IsRunning(t)' <=> IsRunning(t),
           \/ mem'[t].status = mem[t].status
           \/ {mem[t].status, mem'[t].status} \subseteq {"Pending", "InProgress"}
    PROVE  LifecycleState(t)' = LifecycleState(t)
BY DEF LifecycleState, IsRunning

(* A step nobody sees. *)
LEMMA Unseen ==
    ASSUME UNCHANGED <<tries, ops>>,
           \A t \in Task :
              /\ IsRunning(t)' <=> IsRunning(t)
              /\ \/ mem'[t].status = mem[t].status
                 \/ {mem[t].status, mem'[t].status}
                       \subseteq {"Pending", "InProgress"}
    PROVE  UNCHANGED Lifecycle!vars
<1>1. \A t \in Task : LifecycleState(t)' = LifecycleState(t)
    BY StateStays
<1>2. [t \in Task |-> LifecycleState(t)]' = [t \in Task |-> LifecycleState(t)]
    BY <1>1
<1> QED
    BY <1>2 DEF Lifecycle!vars

(* One task changes. *)
LEMMA OneSeen ==
    ASSUME NEW t \in Task, NEW s, LifecycleState(t)' = s,
           \A q \in Task \ {t} : /\ IsRunning(q)' <=> IsRunning(q)
                                 /\ mem'[q].status = mem[q].status
    PROVE  [q \in Task |-> LifecycleState(q)]'
              = [[q \in Task |-> LifecycleState(q)] EXCEPT ![t] = s]
<1>1. \A q \in Task \ {t} : LifecycleState(q)' = LifecycleState(q)
    BY StateStays
<1>2. [q \in Task |-> LifecycleState(q)]'
         = [q \in Task |-> LifecycleState(q)']
    OBVIOUS
<1> QED
    BY <1>1, <1>2

(* An execution that is over is not running, and no other one is.          *)
LEMMA RunEnds ==
    ASSUME TypeOK, TaskKnown, RunInv, NEW w \in Worker,
           NEW t \in Task, t = run[w].task, run[w].stage = "running",
           run' = [run EXCEPT ![w].stage = "closing"]
    PROVE  /\ IsRunning(t) /\ ~IsRunning(t)'
           /\ \A q \in Task \ {t} : IsRunning(q)' <=> IsRunning(q)
           /\ mem[t].status = "InProgress"
<1>1. /\ run'[w].stage = "closing" /\ run'[w].task = t
      /\ \A v \in Worker \ {w} : run'[v] = run[v]
    BY DEF TypeOK, Run
<1>2. \A v \in Worker : run[v].task = t /\ run[v].stage = "running" => v = w
    BY DEF RunInv, SingleRun, Executing
<1>3. mem[t].status = "InProgress"
    BY DEF RunInv, BusyIsMarked, Busy, Executing
<1> QED
    BY <1>1, <1>2, <1>3 DEF IsRunning

LEMMA LifecycleInit == Init => Lifecycle!Init
<1> SUFFICES ASSUME Init PROVE Lifecycle!Init
    OBVIOUS
<1>1. \A t \in Task : ~IsRunning(t) /\ mem[t].status = "Pending"
    BY DEF Init, FreeRun, IsRunning
<1>2. \A t \in Task : LifecycleState(t) = "waiting"
    BY <1>1, StateOf
<1> QED
    BY <1>2 DEF Init, Lifecycle!Init

LEMMA LifecycleStep ==
    ASSUME Supervised, NoRestart, NoHolds, TypeOK, TaskKnown, RunInv,
           AttemptsInv, TakenIsPending, [Next]_vars
    PROVE  [Lifecycle!Next]_(Lifecycle!vars)
<1> DEFINE states == [q \in Task |-> LifecycleState(q)]
<1>0. /\ mem \in [Task -> Entry] /\ run \in [Worker -> Run]
      /\ sched \in Pass /\ tries \in [Task -> Nat] /\ MaxAttempts \in Nat
    BY NumberAssumption DEF TypeOK
<1>a. ASSUME \A w \in Worker : \/ run'[w] = run[w]
                               \/ run[w].stage # "running"
                                    /\ run'[w].stage # "running"
      PROVE  \A q \in Task : IsRunning(q)' <=> IsRunning(q)
  BY <1>a DEF IsRunning
<1>1. CASE UNCHANGED <<mem, run, tries, ops>>
  <2>1. \A q \in Task : IsRunning(q)' <=> IsRunning(q)
    BY <1>1, <1>a
  <2> QED BY <1>1, <2>1, Unseen
<1>2. ASSUME NEW t \in Task, ComesDue(t) PROVE UNCHANGED Lifecycle!vars
  <2>1. mem' = [mem EXCEPT ![t].when = "now"] /\ UNCHANGED <<run, tries, ops>>
    BY <1>2 DEF ComesDue
  <2>2. \A q \in Task : mem'[q].status = mem[q].status
    BY <1>0, <2>1 DEF Entry
  <2>3. \A q \in Task : IsRunning(q)' <=> IsRunning(q)
    BY <2>1, <1>a
  <2> QED BY <2>1, <2>2, <2>3, Unseen
<1>3. ASSUME NEW t \in Task, NEW w \in Worker, Spawn(t, w)
      PROVE  UNCHANGED Lifecycle!vars
  <2>1. UNCHANGED <<mem, tries, ops>>
    BY <1>3 DEF Spawn, bounds
  <2>2. /\ run[w].stage = "free" /\ run'[w].stage = "queued"
        /\ \A v \in Worker \ {w} : run'[v] = run[v]
    BY <1>0, <1>3 DEF Spawn
  <2>3. \A q \in Task : IsRunning(q)' <=> IsRunning(q)
    BY <2>2, <1>a
  <2> QED BY <2>1, <2>3, Unseen
<1>4. ASSUME NEW w \in Worker, Close(w) PROVE UNCHANGED Lifecycle!vars
  <2>1. UNCHANGED <<mem, tries, ops>>
    BY <1>4 DEF Close, bounds
  <2>2. /\ run[w].stage = "closing" /\ run'[w].stage = "free"
        /\ \A v \in Worker \ {w} : run'[v] = run[v]
    BY <1>0, <1>4 DEF Close, FreeRun
  <2>3. \A q \in Task : IsRunning(q)' <=> IsRunning(q)
    BY <2>2, <1>a
  <2> QED BY <2>1, <2>3, Unseen
<1>5. ASSUME Recover PROVE UNCHANGED Lifecycle!vars
  <2>1. /\ mem' = [t \in Task |->
                      IF Stalled(t)
                      THEN [mem[t] EXCEPT !.status = "Pending", !.when = "now"]
                      ELSE mem[t]]
        /\ UNCHANGED <<run, tries, ops>>
    BY <1>5 DEF Recover, bounds
  <2>2. \A q \in Task : \/ mem'[q].status = mem[q].status
                        \/ /\ mem[q].status = "InProgress"
                           /\ mem'[q].status = "Pending"
    BY <1>0, <2>1 DEF Entry, Stalled
  <2>3. \A q \in Task : IsRunning(q)' <=> IsRunning(q)
    BY <2>1, <1>a
  <2> QED BY <2>1, <2>2, <2>3, Unseen
<1>6. ASSUME MarkClaimed PROVE UNCHANGED Lifecycle!vars
  <2>1. /\ sched.held \in Task /\ mem[sched.held].status = "Pending"
        /\ mem' = [mem EXCEPT ![sched.held].status = "InProgress"]
        /\ UNCHANGED <<run, tries, ops>>
    BY <1>0, <1>6 DEF MarkClaimed, Pass, TakenIsPending, bounds
  <2>2. \A q \in Task : \/ mem'[q].status = mem[q].status
                        \/ /\ mem[q].status = "Pending"
                           /\ mem'[q].status = "InProgress"
    BY <1>0, <2>1 DEF Entry
  <2>3. \A q \in Task : IsRunning(q)' <=> IsRunning(q)
    BY <2>1, <1>a
  <2> QED BY <2>1, <2>2, <2>3, Unseen
<1>7. ASSUME Scan PROVE Lifecycle!Next
  <2>1. PICK late \in SUBSET {t \in Reminder : Due(t)} :
          /\ mem' = [t \in Task |->
                        CASE t \in late -> [mem[t] EXCEPT !.status = "Cancelled"]
                          [] Unscheduled(t) -> [mem[t] EXCEPT !.when = "later"]
                          [] OTHER -> mem[t]]
          /\ UNCHANGED <<run, tries, ops>>
    BY <1>7 DEF Scan, bounds
  <2>2. /\ late \in SUBSET Task
        /\ \A t \in late : t \notin Recurring /\ mem[t].status = "Pending"
    BY <2>1, TaskAssumption DEF Due
  <2>3. \A q \in Task : IsRunning(q)' <=> IsRunning(q)
    BY <2>1, <1>a
  <2>4. ASSUME NEW t \in late
        PROVE  LifecycleState(t) = "waiting" /\ LifecycleState(t)' = "settled"
    <3>1. ~IsRunning(t)
      BY <2>2 DEF IsRunning, RunInv, BusyIsMarked, Busy, Executing
    <3>2. t \in Task /\ mem[t] \in Entry /\ ~Unscheduled(t)
      BY <1>0, <2>1, <2>2 DEF Due, Unscheduled
    <3>3. mem'[t] = [mem[t] EXCEPT !.status = "Cancelled"]
      BY <2>1, <3>2
    <3>4. mem'[t].status = "Cancelled"
      BY <3>2, <3>3 DEF Entry
    <3> QED BY <2>2, <2>3, <3>1, <3>4, StateOf
  <2>5. ASSUME NEW t \in Task \ late
        PROVE  LifecycleState(t)' = LifecycleState(t)
    <3>1. mem'[t].status = mem[t].status
      BY <1>0, <2>1 DEF Entry
    <3> QED BY <2>3, <3>1, StateStays
  <2>6. states' = [t \in Task |-> IF t \in late THEN "settled" ELSE states[t]]
    BY <2>4, <2>5
  <2>7. Lifecycle!GiveUp(late)
    BY <2>1, <2>2, <2>4, <2>6 DEF Lifecycle!GiveUp
  <2> QED BY <2>2, <2>7 DEF Lifecycle!Next
<1>8. ASSUME NEW w \in Worker, Begin(w) PROVE Lifecycle!Next
  <2>1. PICK t \in Task : t = run[w].task /\ Executing(w, t)
    BY <1>8 DEF Begin, TaskKnown, Executing
  <2>2. /\ run[w].stage = "queued" /\ run'[w].stage = "running"
        /\ run'[w].task = t /\ \A v \in Worker \ {w} : run'[v] = run[v]
        /\ tries' = [tries EXCEPT ![t] = @ + 1] /\ UNCHANGED <<mem, ops>>
    BY <1>0, <1>8, <2>1 DEF Begin, Run, bounds
  <2>3. mem[t].status = "InProgress" /\ tries[t] < MaxAttempts
    <3>1. mem[t].status = "InProgress"
      BY <2>1 DEF RunInv, BusyIsMarked, Busy
    <3>2. tries[t] < run[w].attempt /\ run[w].attempt \in 1..MaxAttempts
      BY <2>1, <2>2 DEF AttemptsInv, RunHasAttempt, Counted
    <3> QED BY <1>0, <3>1, <3>2
  <2>4. /\ ~IsRunning(t) /\ IsRunning(t)'
        /\ \A q \in Task \ {t} : IsRunning(q)' <=> IsRunning(q)
    <3>1. \A v \in Worker : Executing(v, t) => v = w
      BY <2>1 DEF RunInv, SingleRun
    <3> QED BY <2>1, <2>2, <3>1 DEF IsRunning, Executing
  <2>5. LifecycleState(t) = "waiting" /\ LifecycleState(t)' = "running"
    BY <2>3, <2>4, StateOf
  <2>6. states' = [states EXCEPT ![t] = "running"]
    BY <2>2, <2>4, <2>5, OneSeen
  <2>7. Lifecycle!Start(t)
    BY <2>2, <2>3, <2>5, <2>6 DEF Lifecycle!Start
  <2> QED BY <2>7 DEF Lifecycle!Next
<1>9. ASSUME NEW w \in Worker, NEW s \in {"Completed", "Paused", "Failed"},
              finalize_task(w, s)
      PROVE  Lifecycle!Next
  <2>1. PICK t \in Task : t = run[w].task
    BY <1>9 DEF finalize_task, TaskKnown
  <2>2. /\ run[w].stage = "running"
        /\ run' = [run EXCEPT ![w].stage = "closing"] /\ UNCHANGED ops
    BY <1>9 DEF finalize_task, Closing, bounds
  <2>3. /\ IsRunning(t) /\ ~IsRunning(t)'
        /\ \A q \in Task \ {t} : IsRunning(q)' <=> IsRunning(q)
        /\ mem[t].status = "InProgress"
    BY <2>1, <2>2, RunEnds
  <2>4. /\ mem' = [mem EXCEPT
                      ![t].status = IF t \in Recurring /\ s # "Paused"
                                    THEN "Pending" ELSE s,
                      ![t].when = IF t \in Recurring /\ s # "Paused"
                                  THEN "later" ELSE @]
        /\ tries' = IF t \in Recurring /\ s # "Paused"
                    THEN [tries EXCEPT ![t] = 0] ELSE tries
    BY <1>9, <2>1, <2>3 DEF finalize_task
  <2>5. \A q \in Task \ {t} : mem'[q] = mem[q]
    BY <1>0, <2>4
  <2>6. states[t] = "running"
    BY <2>3, StateOf
  <2>7. CASE t \in Recurring /\ s # "Paused"
    <3>1. mem'[t].status = "Pending"
      <4>1. mem[t] \in Entry
            /\ mem'[t] = [mem[t] EXCEPT !.status = "Pending", !.when = "later"]
        BY <1>0, <2>4, <2>7
      <4> QED BY <4>1 DEF Entry
    <3>2. LifecycleState(t)' = "waiting"
      BY <2>3, <3>1, StateOf
    <3>3. states' = [states EXCEPT ![t] = "waiting"]
      BY <2>3, <2>5, <3>2, OneSeen
    <3>4. Lifecycle!Rearm(t)
      BY <2>2, <2>4, <2>6, <2>7, <3>3 DEF Lifecycle!Rearm, Lifecycle!Ends
    <3> QED BY <3>4 DEF Lifecycle!Next
  <2>8. CASE ~(t \in Recurring /\ s # "Paused")
    <3>1. mem'[t].status = s /\ UNCHANGED tries
      <4>1. mem[t] \in Entry
            /\ mem'[t] = [mem[t] EXCEPT !.status = s, !.when = @]
        BY <1>0, <2>4, <2>8
      <4>2. UNCHANGED tries
        BY <2>4, <2>8
      <4> QED BY <4>1, <4>2 DEF Entry
    <3>2. CASE s = "Paused"
      <4>1. LifecycleState(t)' = "paused"
        BY <2>3, <3>1, <3>2, StateOf
      <4>2. states' = [states EXCEPT ![t] = "paused"]
        BY <2>3, <2>5, <4>1, OneSeen
      <4>3. Lifecycle!Ask(t)
        BY <2>2, <2>6, <3>1, <4>2 DEF Lifecycle!Ask, Lifecycle!Ends
      <4> QED BY <4>3 DEF Lifecycle!Next
    <3>3. CASE s # "Paused"
      <4>1. LifecycleState(t)' = "settled"
        BY <2>3, <3>1, <3>3, StateOf
      <4>2. states' = [states EXCEPT ![t] = "settled"]
        BY <2>3, <2>5, <4>1, OneSeen
      <4>3. Lifecycle!Settle(t)
        BY <2>2, <2>6, <2>8, <3>1, <3>3, <4>2
        DEF Lifecycle!Settle, Lifecycle!Ends
      <4> QED BY <4>3 DEF Lifecycle!Next
    <3> QED BY <3>2, <3>3
  <2> QED BY <2>7, <2>8
<1>10. ASSUME NEW w \in Worker, reschedule_task_retry(w) PROVE Lifecycle!Next
  <2>1. PICK t \in Task : t = run[w].task
    BY <1>10 DEF reschedule_task_retry, Requeue, TaskKnown
  <2>2. /\ run[w].stage = "running" /\ run[w].attempt < MaxAttempts
        /\ run' = [run EXCEPT ![w].stage = "closing"]
        /\ mem' = [mem EXCEPT ![t] = [status |-> "Pending", when |-> "later",
                                      attempt |-> run[w].attempt + 1]]
        /\ UNCHANGED <<tries, ops>>
    BY <1>10, <2>1 DEF reschedule_task_retry, Requeue, Closing, bounds
  <2>3. /\ IsRunning(t) /\ ~IsRunning(t)'
        /\ \A q \in Task \ {t} : IsRunning(q)' <=> IsRunning(q)
    BY <2>1, <2>2, RunEnds
  <2>4. /\ mem'[t].status = "Pending"
        /\ \A q \in Task \ {t} : mem'[q] = mem[q]
    BY <1>0, <2>2
  <2>5. tries[t] < MaxAttempts
    <3>1. tries[t] <= run[w].attempt /\ run[w].attempt \in Nat
      BY <1>0, <2>1, <2>2 DEF AttemptsInv, RunHasAttempt, Run
    <3> QED BY <1>0, <2>2, <3>1
  <2>6. states[t] = "running" /\ LifecycleState(t)' = "waiting"
    BY <2>3, <2>4, StateOf
  <2>7. states' = [states EXCEPT ![t] = "waiting"]
    BY <2>3, <2>4, <2>6, OneSeen
  <2>8. Lifecycle!Retry(t)
    BY <2>2, <2>5, <2>6, <2>7 DEF Lifecycle!Retry, Lifecycle!Ends
  <2> QED BY <2>8 DEF Lifecycle!Next
<1>11. ASSUME NEW u \in User, NEW t \in Task, UserStep(u, t)
       PROVE  Lifecycle!Next
  <2>1. resume_task(u, t) \/ retry_task(u, t) \/ UpdateSimilar(u, t)
    BY <1>11 DEF UserStep, pause_task, cancel_task, Request, NoHolds, Supervised
  <2>2. /\ tries' = [tries EXCEPT ![t] = 0] /\ ops' = ops + 1
        /\ UNCHANGED run
    BY <2>1 DEF resume_task, retry_task, UpdateSimilar, Request
  <2>3. /\ mem'[t].status \in {"Pending", "InProgress"}
        /\ \A q \in Task \ {t} : mem'[q] = mem[q]
    <3>1. mem[t] \in Entry
      BY <1>0
    <3>2. CASE resume_task(u, t)
      BY <1>0, <3>1, <3>2 DEF resume_task, Entry
    <3>3. CASE retry_task(u, t)
      BY <1>0, <3>1, <3>3 DEF retry_task, Entry
    <3>4. CASE UpdateSimilar(u, t)
      BY <1>0, <3>4 DEF UpdateSimilar
    <3> QED BY <2>1, <3>2, <3>3, <3>4
  <2>4. \A q \in Task : IsRunning(q)' <=> IsRunning(q)
    BY <2>2, <1>a
  <2>5. LifecycleState(t)'
           = IF states[t] = "running" THEN states[t] ELSE "waiting"
    <3>1. CASE IsRunning(t)
      BY <2>4, <3>1, StateOf
    <3>2. CASE ~IsRunning(t)
      <4>1. states[t] # "running"
        BY <3>2 DEF LifecycleState
      <4> QED BY <2>3, <2>4, <3>2, <4>1, StateOf
    <3> QED BY <3>1, <3>2
  <2>6. states' = [states EXCEPT ![t] = IF states[t] = "running"
                                        THEN states[t] ELSE "waiting"]
    BY <2>3, <2>4, <2>5, OneSeen
  <2>7. Lifecycle!Release(t)
    BY <2>2, <2>6 DEF Lifecycle!Release
  <2> QED BY <2>7 DEF Lifecycle!Next
<1>12. ASSUME SchedulerStep PROVE [Lifecycle!Next]_(Lifecycle!vars)
  <2>1. CASE StartPass \/ Persist \/ ReturnDue \/ EndPass
    BY <1>1, <2>1 DEF StartPass, Persist, ReturnDue, EndPass, bounds
  <2>2. ASSUME NEW t \in Task, WriteStalled(t) \/ try_claim_task(t)
        PROVE  [Lifecycle!Next]_(Lifecycle!vars)
    BY <1>1, <2>2 DEF WriteStalled, try_claim_task, bounds
  <2> QED BY <1>12, <2>1, <2>2, <1>3, <1>5, <1>6, <1>7 DEF SchedulerStep
<1>13. ASSUME NEW w \in Worker, Begin(w) \/ Finish(w) \/ Close(w)
       PROVE  [Lifecycle!Next]_(Lifecycle!vars)
  <2>1. CASE Finish(w)
    BY <1>9, <1>10, <2>1 DEF Finish, Succeed, AskForInput, FailForGood
  <2> QED BY <1>13, <2>1, <1>4, <1>8
<1>14. ASSUME NEW a \in Actor, WriteRow(a) \/ FailWrite(a)
       PROVE  [Lifecycle!Next]_(Lifecycle!vars)
  BY <1>1, <1>14 DEF WriteRow, FailWrite, bounds
<1>15. ASSUME NEW t \in Task, ComesDue(t) \/ LeaseLapses(t) \/ GrowsOld(t)
       PROVE  [Lifecycle!Next]_(Lifecycle!vars)
  <2>1. CASE LeaseLapses(t) \/ GrowsOld(t)
    BY <1>1, <2>1 DEF LeaseLapses, GrowsOld, bounds
  <2> QED BY <1>15, <2>1, <1>2
<1>16. CASE DropPass
  BY <1>1, <1>16 DEF DropPass
<1>17. ~Restart
  BY DEF Restart, NoRestart
<1>18. CASE UNCHANGED vars
  BY <1>1, <1>18 DEF vars, bounds
<1> QED
  BY <1>11, <1>12, <1>13, <1>14, <1>15, <1>16, <1>17, <1>18 DEF Next

(* LifecycleSpec: whatever passes, claims, recoveries and executions       *)
(* overlap, statements fail and passes are dropped, a task goes through    *)
(* one execution after the other, at most max_attempts per release, and    *)
(* only a request of the user makes it wait again when it is settled or    *)
(* paused; under the assumptions of AttemptsAreKept and if nobody pauses.  *)
THEOREM QueueImplementsLifecycle ==
    ASSUME Supervised, NoRestart, NoHolds
    PROVE  Spec => LifecycleSpec
<1> QED
  BY RunInit, RunStep, AttemptsInit, AttemptsStep, TakenInit, TakenStep, Typed,
     LifecycleInit, LifecycleStep, PTL
  DEF Spec, LifecycleSpec, Lifecycle!Spec
=============================================================================
