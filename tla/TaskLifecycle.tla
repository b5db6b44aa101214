--------------------------- MODULE TaskLifecycle ---------------------------
(***************************************************************************)
(* What the queue promises about a scheduled task, with no table, no       *)
(* claims and no scheduler passes: it is executed once at a time and at    *)
(* most MaxAttempts times between two releases; an execution ends in a     *)
(* retry, in a question to the user, in the end of the task, or, if the    *)
(* task recurs, in its next release; and a task that ended or that waits   *)
(* for the user is not executed again before the user says so.             *)
(***************************************************************************)
EXTENDS Naturals

CONSTANTS Task, Recurring, MaxAttempts

VARIABLES
    state,  \* "waiting", "running", "paused" or "settled"
    count,  \* executions since the last release
    asked   \* requests of users

vars == <<state, count, asked>>

Init ==
    /\ state = [t \in Task |-> "waiting"]
    /\ count = [t \in Task |-> 0]
    /\ asked = 0

Start(t) ==
    /\ state[t] = "waiting" /\ count[t] < MaxAttempts
    /\ state' = [state EXCEPT ![t] = "running"]
    /\ count' = [count EXCEPT ![t] = @ + 1]
    /\ UNCHANGED asked

Ends(t, s) ==
    /\ state[t] = "running"
    /\ state' = [state EXCEPT ![t] = s]
    /\ UNCHANGED asked

Retry(t) == Ends(t, "waiting") /\ count[t] < MaxAttempts /\ UNCHANGED count
Ask(t) == Ends(t, "paused") /\ UNCHANGED count
Settle(t) == t \notin Recurring /\ Ends(t, "settled") /\ UNCHANGED count
Rearm(t) ==
    t \in Recurring /\ Ends(t, "waiting") /\ count' = [count EXCEPT ![t] = 0]

(* Tasks that are not executed are given up together. *)
GiveUp(late) ==
    /\ \A t \in late : state[t] = "waiting" /\ t \notin Recurring
    /\ state' = [t \in Task |-> IF t \in late THEN "settled" ELSE state[t]]
    /\ UNCHANGED <<count, asked>>

(* The user: an execution that is under way goes on. *)
Release(t) ==
    /\ state' = [state EXCEPT ![t] = IF @ = "running" THEN @ ELSE "waiting"]
    /\ count' = [count EXCEPT ![t] = 0]
    /\ asked' = asked + 1

Next ==
    \/ \E t \in Task :
          Start(t) \/ Retry(t) \/ Ask(t) \/ Settle(t) \/ Rearm(t) \/ Release(t)
    \/ \E late \in SUBSET Task : GiveUp(late)

Spec == Init /\ [][Next]_vars
=============================================================================
