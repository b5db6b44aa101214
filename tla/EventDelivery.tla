---------------------------- MODULE EventDelivery ----------------------------
(***************************************************************************)
(* What a webhook source promises about a delivery, with no table, no      *)
(* queue, no handlers and no clock.  To be admitted a delivery spends a    *)
(* replay key that nobody spent before, and that is never given back.  An  *)
(* admitted delivery is turned away, handed to the task queue, or accepted *)
(* and handed over later.  Each of these is final, and what was accepted   *)
(* gets lost only together with all that was.                              *)
(***************************************************************************)
EXTENDS Naturals

CONSTANTS Delivery, ReplayKey

VARIABLES
    fate,   \* "new", "admitted", "accepted", "dispatched", "refused", "lost"
    spent,  \* replay keys
    tasks   \* how often a delivery was handed to the task queue

vars == <<fate, spent, tasks>>

Init ==
    /\ fate = [d \in Delivery |-> "new"]
    /\ spent = {}
    /\ tasks = [d \in Delivery |-> 0]

Becomes(d, from, to) ==
    /\ fate[d] \in from
    /\ fate' = [fate EXCEPT ![d] = to]

Admit(d) ==
    /\ Becomes(d, {"new"}, "admitted")
    /\ \E k \in ReplayKey \ spent : spent' = spent \cup {k}
    /\ UNCHANGED tasks

Accept(d) == Becomes(d, {"admitted"}, "accepted") /\ UNCHANGED <<spent, tasks>>

Refuse(d) ==
    Becomes(d, {"new", "admitted"}, "refused") /\ UNCHANGED <<spent, tasks>>

Dispatch(d) ==
    /\ Becomes(d, {"admitted", "accepted"}, "dispatched")
    /\ tasks' = [tasks EXCEPT ![d] = @ + 1]
    /\ UNCHANGED spent

(* The end of the worker or of the process, which cuts handlers short. *)
Stop(cut) ==
    /\ \A d \in cut : fate[d] \in {"new", "admitted"}
    /\ fate' = [d \in Delivery |-> IF d \in cut THEN "refused"
                                   ELSE IF fate[d] = "accepted" THEN "lost"
                                   ELSE fate[d]]
    /\ UNCHANGED <<spent, tasks>>

Next ==
    \/ \E d \in Delivery : Admit(d) \/ Accept(d) \/ Refuse(d) \/ Dispatch(d)
    \/ \E cut \in SUBSET Delivery : Stop(cut)

Spec == Init /\ [][Next]_vars
=============================================================================
