--------------------------- MODULE WatcherManager ---------------------------
(***************************************************************************)
(* WatcherManager (src/core/automation/watcher.rs): the watchers of one    *)
(* process, kept in a map under a RwLock and saved row by row.             *)
(*                                                                         *)
(* An operation changes the map under the write lock, gives the lock up,   *)
(* and only then persists: it takes a snapshot under a new read lock,      *)
(* awaits the write of that snapshot to the table watchers, and finally    *)
(* wakes the poller with change_notify.  The module has one action for the *)
(* change and one for every later step, because other operations run       *)
(* between them.                                                           *)
(*                                                                         *)
(* This is a component to be composed: SentinelWatchers adds the poller.   *)
(***************************************************************************)
EXTENDS Naturals, FiniteSets

CONSTANTS
    Ids,            \* watcher ids
    Proc,           \* tasks that call the manager
    Shape,          \* the shapes of watchers users submit
    Interval,       \* interval_secs
    Timeout,        \* timeout_secs of a new watcher
    MaxTimeout,     \* MAX_TIMEOUT_SECS
    PauseAfter,     \* MAX_CONSECUTIVE_FAILURES_BEFORE_PAUSE
    MinBackoff,     \* the 30 seconds of watcher_failure_backoff_secs
    MaxBackoff,     \* its 60 * 60 seconds
    Retention,      \* the hour a finished watcher is kept
    DbFails,        \* whether statements of the watcher table may fail
    FailCap,        \* bound: consecutive_failures is not counted further
    MaxCalls,       \* bound: operations users call
    MaxTime         \* bound: the clock stops here

ASSUME TimesAssumption ==
    {Interval, Timeout, MaxTimeout, MinBackoff, MaxBackoff, Retention,
     MaxCalls, MaxTime} \subseteq Nat
ASSUME ShapeAssumption == Shape \subseteq [repeat : BOOLEAN, baseline : BOOLEAN]
ASSUME PauseAfterAssumption == PauseAfter \in Nat \ {0}
ASSUME FailCapAssumption == FailCap \in Nat /\ FailCap >= PauseAfter
ASSUME DbFailsAssumption == DbFails \in BOOLEAN

VARIABLES
    now,        \* chrono::Utc::now(), in ticks; the first is 1
    watchers,   \* the map in memory
    rows,       \* the table watchers
    op,         \* what is left of the operation each task is in
    permit,     \* change_notify holds a permit
    fresh,      \* ids no watcher has had
    calls       \* how many operations users have called

managerVars == <<now, watchers, rows, op, permit, fresh, calls>>

----------------------------------------------------------------------------
(* A watcher.  The instant 0 stands for None.  `def' numbers the text of   *)
(* the definition (description, poll action, condition, trigger); poll     *)
(* payloads and counts are left out.  `notified' is the latest of the      *)
(* notification attempts.                                                  *)
Never == 0
Status == {"Absent", "Active", "Paused", "Triggered", "TimedOut", "Cancelled"}
Watcher == [status : Status, repeat : BOOLEAN, created : Nat, timeout : Nat,
            lastPoll : Nat, notBefore : Nat, fails : Nat, notified : Nat,
            def : Nat]
Absent == [status |-> "Absent", repeat |-> FALSE, created |-> Never,
           timeout |-> 0, lastPoll |-> Never, notBefore |-> Never,
           fails |-> 0, notified |-> Never, def |-> 0]

(* What is left of an operation: the snapshot of persist (`all') or of     *)
(* persist_one for the ids in `read'; the rows in `write', with the        *)
(* snapshots taken for them; delete_persisted for the ids in `drop'; and   *)
(* notify_changed.                                                         *)
NoSnap == [id \in Ids |-> Absent]
Op == [all : BOOLEAN, read : SUBSET Ids, write : SUBSET Ids,
       snap : [Ids -> Watcher], drop : SUBSET Ids, notify : BOOLEAN]
Idle == [all |-> FALSE, read |-> {}, write |-> {}, snap |-> NoSnap,
         drop |-> {}, notify |-> FALSE]

ManagerTypeOK ==
    /\ now \in Nat
    /\ watchers \in [Ids -> Watcher]
    /\ rows \in [Ids -> Watcher]
    /\ op \in [Proc -> Op]
    /\ permit \in BOOLEAN
    /\ fresh \subseteq Ids
    /\ calls \in Nat

ManagerInit ==
    /\ now = 1
    /\ watchers = [id \in Ids |-> Absent]
    /\ rows = [id \in Ids |-> Absent]
    /\ op = [p \in Proc |-> Idle]
    /\ permit = FALSE
    /\ fresh = Ids
    /\ calls = 0

----------------------------------------------------------------------------
Present(id) == watchers[id].status # "Absent"
WithStatus(S) == {id \in Ids : watchers[id].status \in S}
Smaller(a, b) == IF a < b THEN a ELSE b
Larger(a, b) == IF a > b THEN a ELSE b

TimedOutAt(w) == w.created + w.timeout

IsDueIgnoringBackoff(w, t) ==       \* mutant: next_poll_not_before forgotten
    /\ w.status = "Active"
    /\ t < TimedOutAt(w)
    /\ w.lastPoll # Never => t - w.lastPoll >= Interval

(* The filter of get_due_watchers. *)
IsDue(w, t) ==
    /\ w.status = "Active"
    /\ t < TimedOutAt(w)
    /\ w.notBefore <= t
    /\ w.lastPoll # Never => t - w.lastPoll >= Interval

(* watcher_next_wakeup_at, of an active watcher. *)
NextWakeupAt(w, t) ==
    IF TimedOutAt(w) <= t
      THEN t
      ELSE LET nextPoll == IF w.lastPoll = Never THEN t
                                                 ELSE w.lastPoll + Interval
           IN  Smaller(Larger(nextPoll, w.notBefore), TimedOutAt(w))

(* watcher_failure_backoff_secs, after at least one failure: the powers of *)
(* two up to the sixth.                                                    *)
Multiplier == <<1, 2, 4, 8, 16, 32, 64>>

BackoffSecs(fails) ==
    Smaller(Larger(Interval, MinBackoff) * Multiplier[Smaller(fails, 7)],
            MaxBackoff)

----------------------------------------------------------------------------
(* The tail of an operation. *)
Then(p, read, drop, notify) ==
    op' = [op EXCEPT ![p] = [Idle EXCEPT !.read = read, !.drop = drop,
                                         !.notify = notify]]

(* persist_one: the snapshot, under a new read lock. *)
Snapshot(p, id) ==
    /\ id \in op[p].read
    /\ op[p].write = {}
    /\ op' = [op EXCEPT ![p].read = @ \ {id}, ![p].write = {id},
                        ![p].snap[id] = watchers[id]]
    /\ UNCHANGED <<now, watchers, rows, permit, fresh, calls>>

(* persist: one snapshot of the whole map. *)
SnapshotAll(p) ==
    /\ op[p].all
    /\ op' = [op EXCEPT ![p].all = FALSE,
                        ![p].write = {id \in Ids : Present(id)},
                        ![p].snap = watchers]
    /\ UNCHANGED <<now, watchers, rows, permit, fresh, calls>>

(* delete_persisted: the snapshot is None. *)
DropNext(p, id) ==
    /\ id \in op[p].drop
    /\ op[p].read = {} /\ op[p].write = {}
    /\ op' = [op EXCEPT ![p].drop = @ \ {id}, ![p].write = {id}]
    /\ UNCHANGED <<now, watchers, rows, permit, fresh, calls>>

(* upsert_watcher, or delete_watcher when the snapshot found no watcher.   *)
(* An error is only logged.                                                *)
WriteRow(p, id) ==
    /\ id \in op[p].write
    /\ \/ rows' = [rows EXCEPT ![id] = op[p].snap[id]]
       \/ DbFails /\ UNCHANGED rows
    /\ op' = [op EXCEPT ![p].write = @ \ {id}, ![p].snap[id] = Absent]
    /\ UNCHANGED <<now, watchers, permit, fresh, calls>>

(* notify_changed and the return of an operation that calls it. *)
notify_changed(p) ==
    /\ op[p] = [Idle EXCEPT !.notify = TRUE]
    /\ op' = [op EXCEPT ![p] = Idle]
    /\ permit' = TRUE
    /\ UNCHANGED <<now, watchers, rows, fresh, calls>>

Persist(p) ==
    \/ \E id \in Ids : Snapshot(p, id) \/ DropNext(p, id) \/ WriteRow(p, id)
    \/ SnapshotAll(p)
    \/ notify_changed(p)

----------------------------------------------------------------------------
(* Operations of users, and of agents on their behalf.  Every one ends in  *)
(* notify_changed; a call the guard turns down changes nothing.            *)
Call == calls < MaxCalls /\ calls' = calls + 1

Change(p, id, w, notify) ==
    /\ op[p] = Idle
    /\ watchers' = [watchers EXCEPT ![id] = w]
    /\ Then(p, {id}, {}, notify)
    /\ UNCHANGED <<now, rows, permit>>

UserChange(p, id, w) == Call /\ Change(p, id, w, TRUE) /\ UNCHANGED fresh

(* A definition as handle_watch builds it: with an initial baseline the    *)
(* first poll counts as done.                                              *)
NewWatcher(shape) ==
    [status |-> "Active", repeat |-> shape.repeat, created |-> now,
     timeout |-> Timeout, lastPoll |-> IF shape.baseline THEN now ELSE Never,
     notBefore |-> Never, fails |-> 0, notified |-> Never, def |-> calls + 1]

(* add, and upsert_similar when nothing is similar. *)
add(p, id) ==
    /\ Call
    /\ id \in fresh
    /\ fresh' = fresh \ {id}
    /\ \E shape \in Shape : Change(p, id, NewWatcher(shape), TRUE)

(* upsert_similar on an existing watcher: replace_watcher on the target,   *)
(* or on one of the similar ones, whose duplicates are removed.  Which     *)
(* watchers are similar is left open.  The baseline is thrown away.        *)
upsert_similar(p, id) ==
    /\ op[p] = Idle
    /\ Call
    /\ Present(id)
    /\ \E duplicates \in SUBSET (WithStatus({"Active", "Paused"}) \ {id}),
          shape \in Shape :
          /\ duplicates # {} => watchers[id].status \in {"Active", "Paused"}
          /\ watchers' = [i \in Ids |->
                             IF i = id
                             THEN [NewWatcher(shape) EXCEPT !.lastPoll = Never]
                             ELSE IF i \in duplicates THEN Absent
                             ELSE watchers[i]]
          /\ Then(p, {id}, duplicates, TRUE)
    /\ UNCHANGED <<now, rows, permit, fresh>>

CancelAnything(p, id) ==            \* mutant: the status is not looked at
    /\ Present(id)
    /\ UserChange(p, id, [watchers[id] EXCEPT !.status = "Cancelled"])

cancel(p, id) ==
    /\ watchers[id].status \in {"Active", "Paused"}
    /\ UserChange(p, id, [watchers[id] EXCEPT !.status = "Cancelled"])

pause(p, id) ==
    /\ watchers[id].status = "Active"
    /\ UserChange(p, id, [watchers[id] EXCEPT !.status = "Paused",
                                              !.notBefore = Never])

ResumeSilently(p, id) ==            \* mutant: notify_changed is not called
    /\ watchers[id].status = "Paused"
    /\ Change(p, id, [watchers[id] EXCEPT !.status = "Active", !.fails = 0,
                                          !.notBefore = Never], FALSE)
    /\ Call /\ UNCHANGED fresh

resume(p, id) ==
    /\ watchers[id].status = "Paused"
    /\ UserChange(p, id, [watchers[id] EXCEPT !.status = "Active", !.fails = 0,
                                              !.notBefore = Never])

(* persist saves all watchers from one snapshot. *)
SetAll(p, from, to) ==
    /\ op[p] = Idle
    /\ WithStatus({from}) # {}
    /\ watchers' = [id \in Ids |-> IF watchers[id].status = from
                                     THEN [watchers[id] EXCEPT !.status = to]
                                     ELSE watchers[id]]
    /\ op' = [op EXCEPT ![p] = [Idle EXCEPT !.all = TRUE, !.notify = TRUE]]
    /\ Call
    /\ UNCHANGED <<now, rows, permit, fresh>>

pause_all(p) == SetAll(p, "Active", "Paused")

resume_all(p) == SetAll(p, "Paused", "Active")

run_now(p, id) ==
    /\ watchers[id].status = "Active"
    /\ UserChange(p, id, [watchers[id] EXCEPT !.lastPoll = Never])

(* extend_timeout by one more Timeout, and extend_until_stopped. *)
extend_timeout(p, id) ==
    /\ watchers[id].status \in {"Active", "Paused"}
    /\ \E t \in {Smaller(watchers[id].timeout + Timeout, MaxTimeout),
                 MaxTimeout} :
          UserChange(p, id, [watchers[id] EXCEPT !.timeout = t])

(* set_notify_channel and set_background_session_id: fields left out here. *)
Rebind(p, id) == Present(id) /\ UserChange(p, id, watchers[id])

delete(p, id) ==
    /\ op[p] = Idle
    /\ Present(id)
    /\ watchers' = [watchers EXCEPT ![id] = Absent]
    /\ Then(p, {}, {id}, TRUE)
    /\ Call
    /\ UNCHANGED <<now, rows, permit, fresh>>

UserOperation(p) ==
    \/ \E id \in Ids :
          \/ add(p, id)
          \/ upsert_similar(p, id)
          \/ cancel(p, id)
          \/ pause(p, id)
          \/ resume(p, id)
          \/ run_now(p, id)
          \/ extend_timeout(p, id)
          \/ Rebind(p, id)
          \/ delete(p, id)
    \/ pause_all(p)
    \/ resume_all(p)

----------------------------------------------------------------------------
(* Operations of the poller and of the follow-ups it spawns.  They do not  *)
(* notify, and of these only begin_poll and expire_watchers look at the    *)
(* status; on a watcher that is gone they only persist, which deletes its  *)
(* row.                                                                    *)
PollerChange(p, id, w) ==
    /\ Change(p, id, IF Present(id) THEN w ELSE Absent, FALSE)
    /\ UNCHANGED <<fresh, calls>>

BeginPollUnchecked(p, id) ==        \* mutant: the watcher is not looked up
    PollerChange(p, id, [watchers[id] EXCEPT !.lastPoll = now])

begin_poll(p, id) ==
    /\ watchers[id].status = "Active"
    /\ PollerChange(p, id, [watchers[id] EXCEPT !.lastPoll = now])

record_poll_success(p, id) ==
    PollerChange(p, id, [watchers[id] EXCEPT !.lastPoll = now, !.fails = 0,
                                             !.notBefore = Never])

(* Whether the text of the error looks transient is left open. *)
record_poll_error(p, id) ==
    LET fails == Smaller(watchers[id].fails + 1, FailCap)
        failed == [watchers[id] EXCEPT !.lastPoll = now, !.fails = fails]
    IN  \/ /\ fails >= PauseAfter
           /\ PollerChange(p, id, [failed EXCEPT !.status = "Paused",
                                                 !.notBefore = Never])
        \/ PollerChange(p, id,
              [failed EXCEPT !.notBefore = now + BackoffSecs(fails)])

MarkNothing(p, id) ==               \* mutant: a one-shot watcher stays active
    PollerChange(p, id, watchers[id])

mark_triggered(p, id) ==
    PollerChange(p, id, [watchers[id] EXCEPT
                           !.status = IF watchers[id].repeat THEN @
                                                             ELSE "Triggered"])

push_notification_attempt(p, id) ==
    PollerChange(p, id, [watchers[id] EXCEPT !.notified = now])

(* expire_watchers: all of them under one lock, then persisted in turn. *)
Expired == {id \in Ids : /\ watchers[id].status = "Active"
                         /\ TimedOutAt(watchers[id]) <= now}

ExpireNothing(p) ==                 \* mutant: the status is not changed
    /\ op[p] = Idle
    /\ Then(p, Expired, {}, FALSE)
    /\ UNCHANGED <<now, watchers, rows, permit, fresh, calls>>

expire_watchers(p) ==
    /\ op[p] = Idle
    /\ watchers' = [id \in Ids |-> IF id \in Expired
                          THEN [watchers[id] EXCEPT !.status = "TimedOut"]
                          ELSE watchers[id]]
    /\ Then(p, Expired, {}, FALSE)
    /\ UNCHANGED <<now, rows, permit, fresh, calls>>

(* cleanup. *)
RetentionReference(w) == Larger(Larger(w.created, w.lastPoll), w.notified)

Stale == {id \in WithStatus({"Triggered", "TimedOut", "Cancelled"}) :
            RetentionReference(watchers[id]) + Retention <= now}

cleanup(p) ==
    /\ op[p] = Idle
    /\ watchers' = [id \in Ids |-> IF id \in Stale THEN Absent
                                                   ELSE watchers[id]]
    /\ Then(p, {}, Stale, FALSE)
    /\ UNCHANGED <<now, rows, permit, fresh, calls>>

----------------------------------------------------------------------------
(* The process dies and a new WatcherManager loads the rows.  A load error *)
(* is logged and leaves the map empty.                                     *)
new ==
    /\ \/ watchers' = rows
       \/ DbFails /\ watchers' = [id \in Ids |-> Absent]
    /\ op' = [p \in Proc |-> Idle]
    /\ permit' = FALSE
    /\ UNCHANGED <<now, rows, fresh, calls>>

Tick ==
    /\ now < MaxTime
    /\ now' = now + 1
    /\ UNCHANGED <<watchers, rows, op, permit, fresh, calls>>
============================================================================
