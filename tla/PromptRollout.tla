---------------------------- MODULE PromptRollout ----------------------------
(* The rollout of prompt bundles (core/self_evolve, evolution_control.rs,  *)
(* tool_execution.rs) on one surface: an evolution starts the live test    *)
(* of a candidate, the canary; users accept it as stable, stop it or roll  *)
(* back; a background judge reverts what it measured to be worse.  All of  *)
(* it is values of a key-value table, read and written one at a time,      *)
(* without a lock or a transaction.  A bundle is known by its version.     *)
EXTENDS Integers, FiniteSets

CONSTANTS
    Candidate,    \* what evolutions may propose, each once: its version is new
    Default,      \* the built-in bundle, in use when none is stored
    None,
    Stored0,      \* what the profile key may hold at the start
    Evolver, User, Judge,
    MaxRequests,  \* bound: requests of users
    MaxCuts       \* bound: operations cut short

VARIABLES
    profile,      \* ..._PROFILE_KEY: the stable bundle, or None
    bundle,       \* ..._PROFILE_CANARY_KEY: the candidate under test
    canary,       \* ..._CANARY_STATE_KEY
    snapshot,     \* ..._BASELINE_SNAPSHOT_KEY: what a rollback restores
    ring,         \* the snapshot ring, as a set (its cap of ten is not reached)
    cooling,      \* the last stable deployment is less than 72 hours old
    verdict,      \* what experience says of each candidate
    proc,         \* the operation each process is in, see TypeOK
    proposed, requests, cuts,
    changed       \* history: the profile changed since it was read by the
                  \* evolution in progress, or by the one of the canary

keys == <<profile, bundle, canary, snapshot, ring, cooling>>
rolloutVars == <<keys, verdict, proc, proposed, requests, cuts, changed>>

Version == Candidate \cup {Default, None} \cup Stored0
Process == Evolver \cup User \cup {Judge}
Kind == {"none", "prompt", "import", "accept", "stop", "rollback", "revisit",
         "judge"}
OperationStage == {"idle", "evaluating", "keep", "push", "pushed", "offer", "activate",
          "measured", "load", "fetch", "compare", "judging", "undo", "pick",
          "restore", "reload", "install", "close", "record"}

NoCanary == [enabled |-> FALSE, baseline |-> None, candidate |-> None]
CanaryState == [enabled : BOOLEAN, baseline : Version, candidate : Version]

NoWork == [at |-> "idle", kind |-> "none", read |-> None, mine |-> None,
         state |-> NoCanary, ring |-> {}]

RolloutTypeOK ==
    /\ {profile, bundle, snapshot} \subseteq Version
    /\ canary \in CanaryState
    /\ ring \subseteq Version
    /\ cooling \in BOOLEAN /\ changed \subseteq {"evolution", "canary"}
    /\ verdict \in [Candidate -> {"none", "worse", "better"}]
    /\ proc \in [Process -> [at : OperationStage, kind : Kind, read : Version,
                 mine : Version, state : CanaryState, ring : SUBSET Version]]
    /\ proposed \subseteq Candidate
    /\ requests \in 0..MaxRequests /\ cuts \in 0..MaxCuts

RolloutInit ==
    /\ profile \in Stored0
    /\ bundle = None /\ snapshot = None /\ canary = NoCanary /\ ring = {}
    /\ cooling = FALSE
    /\ verdict = [c \in Candidate |-> "none"]
    /\ proc = [p \in Process |-> NoWork]
    /\ proposed = {} /\ requests = 0 /\ cuts = 0
    /\ changed = {}

OrDefault(v) == IF v = None THEN Default ELSE v

IsAt(p, stage) == proc[p].at = stage
Go(p, stage) == proc' = [proc EXCEPT ![p].at = stage]
Finish(p) == proc' = [proc EXCEPT ![p] = NoWork]

Touched(really) ==
    changed' = IF really THEN {"evolution", "canary"} ELSE changed

----------------------------------------------------------------------------
(* An evolution: self_evolve in prompt mode, or an import of candidates    *)
(* that an optimizer found (execute_gepa_import).                          *)

EvolveRead(e) ==
    /\ IsAt(e, "idle")
    /\ \E kind \in {"prompt", "import"} :
        proc' = [proc EXCEPT ![e] = [NoWork EXCEPT !.at = "evaluating",
                                     !.kind = kind, !.read = profile]]
    /\ proposed # Candidate
    /\ changed' = changed \ {"evolution"}
    /\ UNCHANGED <<keys, verdict, proposed, requests, cuts>>

(* Minutes of model calls; the candidate may fail its gate, or is not to   *)
(* be applied.  Without a stored baseline there is nothing to keep.        *)
Evaluate(e) ==
    /\ IsAt(e, "evaluating")
    /\ \/ Finish(e) /\ UNCHANGED proposed
       \/ \E c \in Candidate \ proposed :
            /\ proposed' = proposed \cup {c}
            /\ proc' = [proc EXCEPT ![e].mine = c,
                        ![e].at = IF proc[e].read = None THEN "offer" ELSE "keep"]
    /\ UNCHANGED <<keys, verdict, requests, cuts, changed>>

(* Mutant: the bundle that is kept is the candidate itself. *)
KeepCandidate(p) ==
    /\ IsAt(p, "keep")
    /\ snapshot' = proc[p].mine
    /\ Go(p, IF proc[p].kind = "prompt" THEN "offer" ELSE "push")
    /\ UNCHANGED <<profile, bundle, canary, ring, cooling, verdict, proposed,
                   requests, cuts, changed>>

(* Prompt mode keeps the baseline in the one slot only. *)
KeepSnapshot(p) ==
    /\ IsAt(p, "keep")
    /\ snapshot' = proc[p].read
    /\ Go(p, IF proc[p].kind = "prompt" THEN "offer" ELSE "push")
    /\ UNCHANGED <<profile, bundle, canary, ring, cooling, verdict, proposed,
                   requests, cuts, changed>>

PushLoad(p) ==
    /\ IsAt(p, "push")
    /\ proc' = [proc EXCEPT ![p].ring = ring, ![p].at = "pushed"]
    /\ UNCHANGED <<keys, verdict, proposed, requests, cuts, changed>>

PushStore(p) ==
    /\ IsAt(p, "pushed")
    /\ ring' = proc[p].ring \cup {proc[p].read}
    /\ Go(p, IF proc[p].kind = "accept" THEN "install" ELSE "offer")
    /\ UNCHANGED <<profile, bundle, canary, snapshot, cooling, verdict, proposed,
                   requests, cuts, changed>>

Offer(e) ==
    /\ IsAt(e, "offer")
    /\ bundle' = proc[e].mine
    /\ Go(e, "activate")
    /\ UNCHANGED <<profile, canary, snapshot, ring, cooling, verdict, proposed,
                   requests, cuts, changed>>

Activate(e) ==
    /\ IsAt(e, "activate")
    /\ LET state == [enabled |-> TRUE, baseline |-> OrDefault(proc[e].read),
                     candidate |-> proc[e].mine]
       IN /\ canary' = state
          /\ proc' = [proc EXCEPT ![e].state = state, ![e].at = "measured"]
    /\ changed' = (changed \ {"canary"}) \cup
                    {h \in {"canary"} : "evolution" \in changed}
    /\ UNCHANGED <<profile, bundle, snapshot, ring, cooling, verdict, proposed,
                   requests, cuts>>

(* The replay evaluation; only prompt mode may promote by it.  A candidate *)
(* this new has samples only if turns ended since it was activated.        *)
Replay(e) ==
    /\ IsAt(e, "measured")
    /\ IF proc[e].kind = "prompt" /\ verdict[proc[e].mine] = "better" /\ ~cooling
       THEN Go(e, "install")
       ELSE Finish(e)
    /\ UNCHANGED <<keys, verdict, proposed, requests, cuts, changed>>

----------------------------------------------------------------------------
(* Users: accept the canary as stable, stop it, roll back to the snapshot  *)
(* or to a version of the ring.                                            *)

Request(u) ==
    /\ IsAt(u, "idle") /\ requests < MaxRequests
    /\ requests' = requests + 1
    /\ \E kind \in {"accept", "stop", "rollback", "revisit"} :
        /\ kind = "accept" => ~cooling
        /\ proc' = [proc EXCEPT ![u] = [NoWork EXCEPT !.kind = kind,
                    !.at = CASE kind = "rollback" -> "undo"
                           [] kind = "revisit" -> "pick"
                           [] OTHER -> "load"]]
    /\ UNCHANGED <<keys, verdict, proposed, cuts, changed>>

LoadCanary(u) ==
    /\ IsAt(u, "load")
    /\ IF canary.enabled
       THEN proc' = [proc EXCEPT ![u].state = canary,
                     ![u].at = IF proc[u].kind = "stop" THEN "close" ELSE "fetch"]
       ELSE Finish(u)
    /\ UNCHANGED <<keys, verdict, proposed, requests, cuts, changed>>

(* A candidate is there whenever a canary ever was. *)
FetchBundle(u) ==
    /\ IsAt(u, "fetch")
    /\ proc' = [proc EXCEPT ![u].mine = bundle, ![u].at = "compare"]
    /\ UNCHANGED <<keys, verdict, proposed, requests, cuts, changed>>

ReadBaseline(u) ==
    /\ IsAt(u, "compare")
    /\ proc' = [proc EXCEPT ![u].read = OrDefault(profile), ![u].at = "keep"]
    /\ UNCHANGED <<keys, verdict, proposed, requests, cuts, changed>>

(* rollback_prompt_to_version *)
PickVersion(u) ==
    /\ IsAt(u, "pick")
    /\ \/ Finish(u)
       \/ \E v \in ring :
            proc' = [proc EXCEPT ![u].read = v, ![u].at = "restore"]
    /\ UNCHANGED <<keys, verdict, proposed, requests, cuts, changed>>

Install(p) ==
    /\ IsAt(p, "install")
    /\ profile' = proc[p].mine
    /\ Go(p, "close")
    /\ Touched(p \in User)
    /\ UNCHANGED <<bundle, canary, snapshot, ring, cooling, verdict, proposed,
                   requests, cuts>>

----------------------------------------------------------------------------
(* The judge, and the rollback it shares with the users. *)

JudgeLoad(j) ==
    /\ IsAt(j, "idle") /\ canary.enabled
    /\ proc' = [proc EXCEPT ![j] = [NoWork EXCEPT !.at = "judging",
                                    !.kind = "judge", !.state = canary]]
    /\ UNCHANGED <<keys, verdict, proposed, requests, cuts, changed>>

JudgeDecide(j) ==
    /\ IsAt(j, "judging")
    /\ IF verdict[proc[j].state.candidate] = "worse" THEN Go(j, "undo") ELSE Finish(j)
    /\ UNCHANGED <<keys, verdict, proposed, requests, cuts, changed>>

(* Without a snapshot a rollback fails, before it looks at the canary. *)
LoadSnapshot(p) ==
    /\ IsAt(p, "undo")
    /\ IF snapshot = None
       THEN Finish(p)
       ELSE proc' = [proc EXCEPT ![p].read = snapshot, ![p].at = "restore"]
    /\ UNCHANGED <<keys, verdict, proposed, requests, cuts, changed>>

(* Mutant: the canary goes on. *)
RestoreOnly(p) ==
    /\ IsAt(p, "restore")
    /\ profile' = proc[p].read
    /\ Finish(p)
    /\ Touched(profile # proc[p].read)
    /\ UNCHANGED <<bundle, canary, snapshot, ring, cooling, verdict, proposed,
                   requests, cuts>>

Restore(p) ==
    /\ IsAt(p, "restore")
    /\ profile' = proc[p].read
    /\ Go(p, "reload")
    /\ Touched(profile # proc[p].read)
    /\ UNCHANGED <<bundle, canary, snapshot, ring, cooling, verdict, proposed,
                   requests, cuts>>

(* The canary is closed as it is by now, enabled or not. *)
ReloadCanary(p) ==
    /\ IsAt(p, "reload")
    /\ IF canary = NoCanary
       THEN Finish(p)
       ELSE proc' = [proc EXCEPT ![p].state = canary, ![p].at = "close"]
    /\ UNCHANGED <<keys, verdict, proposed, requests, cuts, changed>>

(* The state goes back as it was loaded, but for what is changed here: a   *)
(* canary that was activated in between is overwritten.                    *)
Close(p) ==
    /\ IsAt(p, "close")
    /\ canary' = [proc[p].state EXCEPT !.enabled = FALSE,
                    !.baseline = IF proc[p].kind = "accept"
                                 THEN proc[p].state.candidate ELSE @]
    /\ IF proc[p].kind \in {"accept", "prompt"} THEN Go(p, "record") ELSE Finish(p)
    /\ UNCHANGED <<profile, bundle, snapshot, ring, cooling, verdict, proposed,
                   requests, cuts, changed>>

(* record_stable_deployment: the observation window begins. *)
Record(p) ==
    /\ IsAt(p, "record")
    /\ cooling' = TRUE
    /\ Finish(p)
    /\ UNCHANGED <<profile, bundle, canary, snapshot, ring, verdict, proposed,
                   requests, cuts, changed>>

----------------------------------------------------------------------------
(* The surroundings. *)

(* Turns served with the candidate end and add up to a verdict. *)
Measure(c) ==
    /\ canary.enabled /\ bundle = c /\ verdict[c] = "none"
    /\ \E v \in {"worse", "better"} : verdict' = [verdict EXCEPT ![c] = v]
    /\ UNCHANGED <<keys, proc, proposed, requests, cuts, changed>>

WindowOver ==
    /\ cooling
    /\ cooling' = FALSE
    /\ UNCHANGED <<profile, bundle, canary, snapshot, ring, verdict, proc,
                   proposed, requests, cuts, changed>>

(* A statement fails, a client goes away, or the process is restarted. *)
Cut(p) ==
    /\ ~IsAt(p, "idle") /\ cuts < MaxCuts
    /\ cuts' = cuts + 1
    /\ Finish(p)
    /\ UNCHANGED <<keys, verdict, proposed, requests, changed>>

----------------------------------------------------------------------------
EvolverStep(e) ==
    \/ Evaluate(e) \/ KeepSnapshot(e) \/ PushLoad(e) \/ PushStore(e) \/ Offer(e)
    \/ Activate(e) \/ Replay(e) \/ Install(e) \/ Close(e) \/ Record(e)

UserStep(u) ==
    \/ LoadCanary(u) \/ FetchBundle(u) \/ ReadBaseline(u) \/ KeepSnapshot(u)
    \/ PushLoad(u) \/ PushStore(u) \/ Install(u)
    \/ LoadSnapshot(u) \/ PickVersion(u) \/ Restore(u) \/ ReloadCanary(u)
    \/ Close(u) \/ Record(u)

JudgeStep ==
    \/ JudgeLoad(Judge) \/ JudgeDecide(Judge) \/ LoadSnapshot(Judge)
    \/ Restore(Judge) \/ ReloadCanary(Judge) \/ Close(Judge)

RolloutNext ==
    \/ \E e \in Evolver : EvolveRead(e) \/ EvolverStep(e)
    \/ \E u \in User : Request(u) \/ UserStep(u)
    \/ JudgeStep
    \/ \E c \in Candidate : Measure(c)
    \/ WindowOver
    \/ \E p \in Process : Cut(p)

(* What was begun goes on, and the judge comes back in every idle hour.    *)
RolloutFairness ==
    /\ \A e \in Evolver : WF_rolloutVars(EvolverStep(e))
    /\ \A u \in User : WF_rolloutVars(UserStep(u))
    /\ WF_rolloutVars(JudgeStep)

RolloutSpec == RolloutInit /\ [][RolloutNext]_rolloutVars
RolloutFairSpec == RolloutSpec /\ RolloutFairness

----------------------------------------------------------------------------
(* A canary that nothing interfered with can be undone: what a rollback    *)
(* restores is the stable bundle, which is the one it was measured         *)
(* against, so that a revert ends the test and changes nothing else        *)
(* (evolution_control.rs, rollback_prompt_baseline_for_surface).           *)
Undisturbed ==
    /\ canary.enabled /\ "canary" \notin changed /\ cuts = 0
    /\ \A p \in Process : IsAt(p, "idle")

RevertOnlyEndsTheTest ==
    Undisturbed => /\ {snapshot, canary.baseline} = {profile}
                   /\ bundle = canary.candidate

(* A canary that was measured to be worse does not stay: the judge         *)
(* "auto-reverts multidimensional regressions" (evolution_control.rs,      *)
(* run_prompt_canary_judge_tick).                                          *)
Regressing(c) ==
    canary.enabled /\ canary.candidate = c /\ verdict[c] = "worse"

RegressionsAreReverted == \A c \in Candidate : []<>(~Regressing(c))
=============================================================================
