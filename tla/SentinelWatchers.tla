-------------------------- MODULE SentinelWatchers --------------------------
(***************************************************************************)
(* The watcher poller of the Sentinel (src/sentinel/mod.rs): one loop that *)
(* sleeps until the next wakeup or a change, takes the job lease, and runs *)
(* run_watchers under a timeout that may drop it at any await.  Users call *)
(* the WatcherManager at the same time, matched watchers leave follow-up   *)
(* tasks behind, and the process may restart at any moment.                *)
(*                                                                         *)
(* The poll itself, the conditions and the notifications are external: a   *)
(* poll ends in an error, in no match or in a match.                       *)
(***************************************************************************)
EXTENDS WatcherManager

CONSTANTS
    Caller,         \* tasks of users, agents and follow-ups
    Poller,         \* the task of the loop
    MaxSleep,       \* config.watcher_interval
    PausedSleep,    \* its cap of 60 seconds while autonomy is paused
    MaxRestarts     \* bound: restarts of the process

ASSUME ProcAssumption == Proc = Caller \cup {Poller}
ASSUME PollerAssumption == Poller \notin Caller /\ Poller \notin Ids
ASSUME SleepAssumption == {MaxSleep, PausedSleep, MaxRestarts} \subseteq Nat

VARIABLES
    pc,         \* where the loop is
    deadline,   \* when it wakes up
    paused,     \* agent autonomy is paused
    todo,       \* expired watchers to report, then due watchers to poll
    poll,       \* the clone begin_poll returned
    queued,     \* follow-up tasks spawned and not finished
    restarts,   \* how often the process has restarted
    spawned     \* history: whether a definition's follow-up was spawned
                \* never, by this process, or by an earlier one

followupVars == <<queued, restarts, spawned>>
loopVars == <<pc, deadline, paused, todo, poll, followupVars>>
vars == <<managerVars, loopVars>>

Step == {"asleep", "napping", "woken", "expire", "notice", "poll",
         "external", "matched", "triggered", "cleanup", "plan"}
Definition == 1 .. MaxCalls
Poll == [id : Ids, def : Definition, repeat : BOOLEAN]
NoPoll == [id |-> Poller, def |-> 0, repeat |-> FALSE]

TypeOK ==
    /\ ManagerTypeOK
    /\ pc \in Step
    /\ deadline \in Nat
    /\ paused \in BOOLEAN
    /\ todo \subseteq Ids
    /\ poll \in Poll \cup {NoPoll}
    /\ queued \subseteq Poll
    /\ restarts \in Nat
    /\ spawned \in [Definition -> {"never", "live", "past"}]

Init ==
    /\ ManagerInit
    /\ pc = "woken"
    /\ deadline = Never
    /\ paused = FALSE
    /\ todo = {}
    /\ poll = NoPoll
    /\ queued = {}
    /\ restarts = 0
    /\ spawned = [d \in Definition |-> "never"]

----------------------------------------------------------------------------
(* The loop. *)
At(step) == pc = step /\ op[Poller] = Idle
Goto(step) == pc' = step

(* tokio::select!: a change (which takes the permit) or the timer. *)
Wake ==
    /\ pc \in {"asleep", "napping"}
    /\ \/ permit /\ permit' = FALSE
       \/ deadline <= now /\ UNCHANGED permit
    /\ deadline' = Never
    /\ Goto("woken")
    /\ UNCHANGED <<now, watchers, rows, op, fresh, calls, paused,
                   todo, poll, followupVars>>

(* Autonomy is paused: no tick, and a sleep that ignores the watchers (it  *)
(* ends at the latest with the clock of the model).                        *)
Nap ==
    /\ At("woken")
    /\ paused
    /\ deadline' = Smaller(now + Smaller(MaxSleep, PausedSleep), MaxTime)
    /\ Goto("napping")
    /\ UNCHANGED <<managerVars, paused, todo, poll, followupVars>>

(* run_leased_loop_with_timeout: granted; or refused, held by another      *)
(* process, or failed.  run_watchers looks at the autonomy switch again.   *)
TickStart ==
    /\ At("woken")
    /\ ~paused
    /\ Goto("expire")
    /\ UNCHANGED <<managerVars, deadline, paused, todo, poll, followupVars>>

TickRefused ==
    /\ At("woken")
    /\ ~paused
    /\ Goto("plan")
    /\ UNCHANGED <<managerVars, deadline, paused, todo, poll, followupVars>>

TickPaused ==
    /\ At("expire")
    /\ paused
    /\ Goto("plan")
    /\ UNCHANGED <<managerVars, deadline, paused, todo, poll, followupVars>>

Expire ==
    /\ At("expire")
    /\ ~paused
    /\ expire_watchers(Poller)
    /\ todo' = Expired
    /\ Goto("notice")
    /\ UNCHANGED <<deadline, paused, poll, followupVars>>

(* The timeout is reported and the attempt recorded; the attempts over     *)
(* several channels are one here.                                          *)
Notice(id) ==
    /\ At("notice")
    /\ id \in todo
    /\ push_notification_attempt(Poller, id)
    /\ todo' = todo \ {id}
    /\ UNCHANGED <<pc, deadline, paused, poll, followupVars>>

get_due_watchers ==
    /\ At("notice")
    /\ todo = {}
    /\ todo' = {id \in Ids : IsDue(watchers[id], now)}
    /\ Goto("poll")
    /\ UNCHANGED <<managerVars, deadline, paused, poll, followupVars>>

(* begin_poll returns the watcher as it is now, or nothing. *)
BeginPoll(id) ==
    /\ At("poll")
    /\ id \in todo
    /\ begin_poll(Poller, id)
    /\ todo' = todo \ {id}
    /\ poll' = [id |-> id, def |-> watchers[id].def,
                repeat |-> watchers[id].repeat]
    /\ Goto("external")
    /\ UNCHANGED <<deadline, paused, followupVars>>

SkipPoll(id) ==
    /\ At("poll")
    /\ id \in todo
    /\ watchers[id].status # "Active"
    /\ todo' = todo \ {id}
    /\ UNCHANGED <<managerVars, pc, deadline, paused, poll, followupVars>>

(* The poll, its validation and its condition end in an error, or not. *)
PollFailed ==
    /\ At("external")
    /\ record_poll_error(Poller, poll.id)
    /\ poll' = NoPoll
    /\ Goto("poll")
    /\ UNCHANGED <<deadline, paused, todo, followupVars>>

PollSucceeded ==
    /\ At("external")
    /\ record_poll_success(Poller, poll.id)
    /\ \/ poll' = NoPoll /\ Goto("poll")
       \/ poll' = poll /\ Goto("matched")
    /\ UNCHANGED <<deadline, paused, todo, followupVars>>

Trigger ==
    /\ At("matched")
    /\ mark_triggered(Poller, poll.id)
    /\ Goto("triggered")
    /\ UNCHANGED <<deadline, paused, todo, poll, followupVars>>

SpawnFollowup ==
    /\ At("triggered")
    /\ queued' = queued \cup {poll}
    /\ spawned' = [spawned EXCEPT ![poll.def] = "live"]
    /\ poll' = NoPoll
    /\ Goto("poll")
    /\ UNCHANGED <<managerVars, deadline, paused, todo, restarts>>

Cleanup ==
    /\ At("poll")
    /\ todo = {}
    /\ cleanup(Poller)
    /\ Goto("plan")
    /\ UNCHANGED <<deadline, paused, todo, poll, followupVars>>

(* The job timeout drops run_watchers at an await: what it had not written *)
(* is not written.  Nothing is awaited between mark_triggered and the      *)
(* spawn, and nothing after cleanup.                                       *)
DropTick ==
    /\ \/ pc \in {"expire", "notice", "poll", "external", "matched"}
       \/ pc \in {"triggered", "plan"} /\ op[Poller] # Idle
    /\ op' = [op EXCEPT ![Poller] = Idle]
    /\ todo' = {}
    /\ poll' = NoPoll
    /\ Goto("plan")
    /\ UNCHANGED <<now, watchers, rows, permit, fresh, calls, deadline, paused,
                   followupVars>>

(* next_wakeup_at and watcher_sleep_duration. *)
Wakeups == {NextWakeupAt(watchers[id], now) : id \in WithStatus({"Active"})}

Earliest(times) == {t \in times : \A u \in times : t <= u}

Sleep ==
    /\ At("plan")
    /\ deadline' \in Earliest(Wakeups \cup {now + MaxSleep})
    /\ Goto("asleep")
    /\ UNCHANGED <<managerVars, paused, todo, poll, followupVars>>

----------------------------------------------------------------------------
(* Everything else. *)

(* A follow-up ends with a notification attempt, or in its timeout. *)
Followup(p, f) ==
    /\ f \in queued
    /\ queued' = queued \ {f}
    /\ push_notification_attempt(p, f.id)
    /\ UNCHANGED <<pc, deadline, paused, todo, poll, restarts, spawned>>

FollowupTimeout(f) ==
    /\ f \in queued
    /\ queued' = queued \ {f}
    /\ UNCHANGED <<managerVars, pc, deadline, paused, todo, poll, restarts,
                   spawned>>

SwitchAutonomy ==
    /\ Call
    /\ paused' = ~paused
    /\ UNCHANGED <<now, watchers, rows, op, permit, fresh, pc, deadline, todo,
                   poll, followupVars>>

Restart ==
    /\ restarts < MaxRestarts
    /\ new
    /\ restarts' = restarts + 1
    /\ pc' = "woken"
    /\ todo' = {}
    /\ queued' = {}
    /\ spawned' = [d \in Definition |->
                     IF spawned[d] = "live" THEN "past" ELSE spawned[d]]
    /\ deadline' = Never
    /\ poll' = NoPoll
    /\ UNCHANGED paused

PollerStep ==
    \/ Wake \/ Nap \/ TickStart \/ TickRefused \/ TickPaused \/ Expire
    \/ \E id \in Ids : Notice(id) \/ BeginPoll(id) \/ SkipPoll(id)
    \/ get_due_watchers \/ PollFailed \/ PollSucceeded \/ Trigger
    \/ SpawnFollowup \/ Cleanup \/ DropTick \/ Sleep

CallerStep(p) ==
    \/ UserOperation(p) /\ UNCHANGED loopVars
    \/ \E f \in queued : Followup(p, f)

Next ==
    \/ PollerStep
    \/ \E p \in Caller : CallerStep(p)
    \/ \E p \in Proc : Persist(p) /\ UNCHANGED loopVars
    \/ \E f \in queued : FollowupTimeout(f)
    \/ SwitchAutonomy
    \/ Restart
    \/ Tick /\ UNCHANGED loopVars

Spec == Init /\ [][Next]_vars

(* The loop is a task the runtime keeps scheduling: its awaits return, a   *)
(* poll ends within its own timeout, the clock goes on.  Strong fairness   *)
(* says that the job lease is not refused for ever, and that neither the   *)
(* job timeout (90 s) nor the autonomy switch nor a restart hits every     *)
(* tick before its first statement.                                        *)
Fairness ==
    /\ WF_vars(Wake \/ Nap \/ Sleep)
    /\ SF_vars(TickStart)
    /\ SF_vars(Expire)
    /\ WF_vars(TickPaused \/ \E id \in Ids : Notice(id) \/ BeginPoll(id)
                                                         \/ SkipPoll(id))
    /\ WF_vars(get_due_watchers \/ PollFailed \/ PollSucceeded \/ Trigger
               \/ SpawnFollowup \/ Cleanup)
    /\ \A p \in Proc : WF_vars(Persist(p) /\ UNCHANGED loopVars)
    /\ WF_vars(Tick /\ UNCHANGED loopVars)

FairSpec == Spec /\ Fairness

----------------------------------------------------------------------------
(* While the loop sleeps, no active watcher can reach its next poll, retry *)
(* or timeout before the loop wakes up: the timer covers it, or the change *)
(* that made it urgent has left a permit or is about to (next_wakeup_at,   *)
(* get_due_watchers and every notify_changed fit together).                *)
NoLostWakeup ==
    pc = "asleep" =>
      \A id \in WithStatus({"Active"}) :
        \/ deadline <= NextWakeupAt(watchers[id], now)
        \/ permit
        \/ \E p \in Caller : op[p].notify

(* A definition that is not to repeat is not polled again once this        *)
(* process has spawned its follow-up, whatever users do meanwhile: the     *)
(* trigger is not delivered twice.                                         *)
OneShotFiresOnce ==
    pc \in {"external", "matched", "triggered"} /\ ~poll.repeat =>
        spawned[poll.def] # "live"

(* begin_poll looks only at the status, after earlier watchers of the tick *)
(* have been polled; a poll still never starts inside the interval or the  *)
(* backoff of its watcher.                                                 *)
SpacedPoll ==
    \A id \in Ids :
        BeginPoll(id) =>
          /\ watchers[id].notBefore <= now
          /\ \/ watchers[id].lastPoll = Never
             \/ now >= watchers[id].lastPoll + Interval
PollsAreSpaced == [][SpacedPoll]_vars

(* Until users replace the definition or the process restarts, a watcher   *)
(* that triggered or timed out stays so: no late poll result and no user   *)
(* call brings it back.  (Cancelled is not such a status: the poll in      *)
(* flight may still turn it into Triggered or Paused.)                     *)
VerdictKept ==
    \/ Restart
    \/ \A id \in Ids :
          (/\ watchers[id].status \in {"Triggered", "TimedOut"}
           /\ watchers'[id].def = watchers[id].def)
            => watchers'[id].status = watchers[id].status
VerdictsAreFinal == [][VerdictKept]_vars

(* As long as autonomy is not paused for good, no watcher stays active     *)
(* past its timeout.                                                       *)
TimedOutWatchersEnd ==
    []<>(~paused) => \A id \in Ids : []<>(id \notin Expired)

----------------------------------------------------------------------------
(* What comments of the code say and the code does not do. *)

(* begin_poll: a poll is marked as started before the external work "so    *)
(* cancellation or process restart does not leave it immediately due       *)
(* again".                                                                 *)
RestartKeepsPollStart ==
    (/\ Restart
     /\ At("external")
     /\ watchers[poll.id].status # "Absent"
     /\ ~IsDue(watchers[poll.id], now))
      => ~IsDue(watchers'[poll.id], now)
PollStartSurvivesRestart == [][RestartKeepsPollStart]_vars
============================================================================
