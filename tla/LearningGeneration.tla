------------------------- MODULE LearningGeneration -------------------------
(***************************************************************************)
(* run_candidate_generation (src/core/knowledge/learning.rs) as a client   *)
(* of the lease row.  A run is two tasks: the main one acquires the lease, *)
(* writes candidates in guarded transactions and releases the lease; the   *)
(* heartbeat refreshes the lease and clears lease_alive when it cannot.    *)
(* Runs of several processes, and of one process, race for the same row.   *)
(* Candidates are abstracted to a count of accepted guarded writes.        *)
(***************************************************************************)
EXTENDS KvLease

CONSTANT Items      \* bound: guarded writes a run attempts at most

ASSUME SessionAssumption == Owner \X {"main", "beat"} \subseteq Session
ASSUME ItemsAssumption == Items \in Nat

Main(r) == <<r, "main">>
Beat(r) == <<r, "beat">>

VARIABLES
    phase,      \* where run_candidate_generation is
    guard,      \* lease_guard.fence_token; 0 before the lease is granted
    lease_alive,
    beat,       \* the heartbeat task
    left,       \* guarded writes not yet attempted
    written     \* guarded writes that were accepted

runVars == <<phase, guard, lease_alive, beat, left, written>>
vars == <<storeVars, runVars>>

Phase == {"new", "acquiring", "checking", "writing", "joining",
          "releasing", "released", "done"}

TypeOK ==
    /\ StoreTypeOK
    /\ phase \in [Owner -> Phase]
    /\ guard \in [Owner -> Nat]
    /\ lease_alive \in [Owner -> BOOLEAN]
    /\ beat \in [Owner -> {"off", "sleeping", "refreshing", "ended"}]
    /\ left \in [Owner -> Nat]
    /\ written \in [Owner -> Nat]

Init ==
    /\ StoreInit
    /\ phase = [r \in Owner |-> "new"]
    /\ guard = [r \in Owner |-> 0]
    /\ lease_alive = [r \in Owner |-> TRUE]
    /\ beat = [r \in Owner |-> "off"]
    /\ left = [r \in Owner |-> Items]
    /\ written = [r \in Owner |-> 0]

----------------------------------------------------------------------------
(* The main task. *)

(* load_learning_enabled decides whether the run goes for the lease.       *)
StartRun(r) ==
    /\ phase[r] = "new"
    /\ \E p \in {"acquiring", "done"} : phase' = [phase EXCEPT ![r] = p]
    /\ UNCHANGED <<storeVars, guard, lease_alive, beat, left, written>>

(* Both statements every transaction of the main task begins with.         *)
MainStatement(r) ==
    /\ phase[r] \in {"acquiring", "writing", "releasing"}
    /\ \/ ensure_kv_row_exists_txn(Main(r))
       \/ WaitForRowLock(Main(r))
       \/ get_kv_for_update_txn(Main(r))
    /\ UNCHANGED runVars

(* Ok(Some(guard)): the heartbeat task is spawned.                         *)
Acquired(r) ==
    /\ phase[r] = "acquiring"
    /\ AcquireGranted(Main(r), r)
    /\ phase' = [phase EXCEPT ![r] = "checking"]
    /\ guard' = [guard EXCEPT ![r] = next_lease_fence_token(txn[Main(r)].seen)]
    /\ beat' = [beat EXCEPT ![r] = "sleeping"]
    /\ UNCHANGED <<lease_alive, left, written>>

(* Ok(None): another owner's lease is active.                              *)
NotAcquired(r) ==
    /\ phase[r] = "acquiring"
    /\ AcquireRefused(Main(r), r)
    /\ phase' = [phase EXCEPT ![r] = "done"]
    /\ UNCHANGED <<guard, lease_alive, beat, left, written>>

(* Mutant: the loop does not notice that it has no item left. *)
NextItemAlways(r) ==
    /\ phase[r] = "checking"
    /\ lease_alive[r]
    /\ phase' = [phase EXCEPT ![r] = "writing"]
    /\ left' = [left EXCEPT ![r] = @ - 1]
    /\ UNCHANGED <<storeVars, guard, lease_alive, beat, written>>

(* The head of each loop over patterns, heuristics and merge groups.       *)
NextItem(r) ==
    /\ phase[r] = "checking"
    /\ lease_alive[r] /\ left[r] > 0
    /\ phase' = [phase EXCEPT ![r] = "writing"]
    /\ left' = [left EXCEPT ![r] = @ - 1]
    /\ UNCHANGED <<storeVars, guard, lease_alive, beat, written>>

(* The loops are over, stop early because lease_alive is false, or a query *)
(* outside the guarded transactions fails: lease_stop_tx.send(true).       *)
StopWork(r) ==
    /\ phase[r] = "checking"
    /\ phase' = [phase EXCEPT ![r] = "joining"]
    /\ UNCHANGED <<storeVars, guard, lease_alive, beat, left, written>>

(* upsert_learning_candidate_guarded and                                   *)
(* update_learning_candidate_review_guarded, accepted.  An item may take   *)
(* several guarded writes (supersede_stale_draft_candidates) with no look  *)
(* at lease_alive in between.                                              *)
GuardedWrite(r) ==
    /\ phase[r] = "writing"
    /\ GuardedCommit(Main(r), r, guard[r])
    /\ written' = [written EXCEPT ![r] = @ + 1]
    /\ \/ /\ phase' = [phase EXCEPT ![r] = "checking"]
          /\ UNCHANGED left
       \/ /\ left[r] > 0
          /\ left' = [left EXCEPT ![r] = @ - 1]
          /\ UNCHANGED phase
    /\ UNCHANGED <<guard, lease_alive, beat>>

(* CandidateWriteOutcome::LeaseLost.                                       *)
WriteLeaseLost(r) ==
    /\ phase[r] = "writing"
    /\ GuardLost(Main(r), r, guard[r])
    /\ lease_alive' = [lease_alive EXCEPT ![r] = FALSE]
    /\ phase' = [phase EXCEPT ![r] = "checking"]
    /\ UNCHANGED <<guard, beat, left, written>>

(* The item needs no write (CandidateWriteOutcome::Unchanged).             *)
SkipItem(r) ==
    /\ phase[r] = "writing"
    /\ txn[Main(r)].step = "idle"
    /\ phase' = [phase EXCEPT ![r] = "checking"]
    /\ UNCHANGED <<storeVars, guard, lease_alive, beat, left, written>>

(* lease_heartbeat.await returned.                                         *)
JoinHeartbeat(r) ==
    /\ phase[r] = "joining"
    /\ beat[r] = "ended"
    /\ phase' = [phase EXCEPT ![r] = "releasing"]
    /\ UNCHANGED <<storeVars, guard, lease_alive, beat, left, written>>

Release(r) ==
    /\ phase[r] = "releasing"
    /\ release_kv_lease_guard(Main(r), r, guard[r])
    /\ phase' = [phase EXCEPT ![r] = "released"]
    /\ UNCHANGED <<guard, lease_alive, beat, left, written>>

(* A database error: acquiring returns it, writing stops the work and the  *)
(* release is only logged.                                                 *)
MainTxnFails(r) ==
    /\ phase[r] \in {"acquiring", "writing", "releasing"}
    /\ AbortTxn(Main(r))
    /\ phase' = [phase EXCEPT
                   ![r] = IF phase[r] = "writing" THEN "joining" ELSE "done"]
    /\ UNCHANGED <<guard, lease_alive, beat, left, written>>

----------------------------------------------------------------------------
(* The heartbeat task.  `stop' is looked at only between refreshes.        *)
StopRequested(r) == phase[r] = "joining"

HeartbeatStopsWhenLost(r) ==        \* mutant: the stop channel is not heard
    /\ beat[r] = "sleeping"
    /\ StopRequested(r)
    /\ ~lease_alive[r]
    /\ beat' = [beat EXCEPT ![r] = "ended"]
    /\ UNCHANGED <<storeVars, phase, guard, lease_alive, left, written>>

HeartbeatStop(r) ==
    /\ beat[r] = "sleeping"
    /\ StopRequested(r)
    /\ beat' = [beat EXCEPT ![r] = "ended"]
    /\ UNCHANGED <<storeVars, phase, guard, lease_alive, left, written>>

HeartbeatWake(r) ==
    /\ beat[r] = "sleeping"
    /\ beat' = [beat EXCEPT ![r] = "refreshing"]
    /\ UNCHANGED <<storeVars, phase, guard, lease_alive, left, written>>

BeatStatement(r) ==
    /\ beat[r] = "refreshing"
    /\ \/ ensure_kv_row_exists_txn(Beat(r))
       \/ WaitForRowLock(Beat(r))
       \/ get_kv_for_update_txn(Beat(r))
    /\ UNCHANGED runVars

HeartbeatRefreshed(r) ==
    /\ beat[r] = "refreshing"
    /\ RefreshOk(Beat(r), r, guard[r])
    /\ beat' = [beat EXCEPT ![r] = "sleeping"]
    /\ UNCHANGED <<phase, guard, lease_alive, left, written>>

(* Ok(false) and Err(_) end the heartbeat alike.                           *)
HeartbeatEnds(r) ==
    /\ beat[r] = "refreshing"
    /\ lease_alive' = [lease_alive EXCEPT ![r] = FALSE]
    /\ beat' = [beat EXCEPT ![r] = "ended"]
    /\ UNCHANGED <<phase, guard, left, written>>

HeartbeatRefused(r) == HeartbeatEnds(r) /\ GuardLost(Beat(r), r, guard[r])

HeartbeatFails(r) == HeartbeatEnds(r) /\ AbortTxn(Beat(r))

----------------------------------------------------------------------------
(* The process dies: its transactions are rolled back by the server, the   *)
(* lease stays in the row until it expires.                                *)
Crash(r) ==
    /\ phase[r] \notin {"new", "released", "done"}
    /\ row' = IF UncommittedInsert /\ lock \in {Main(r), Beat(r)}
              THEN Absent ELSE row
    /\ lock' = IF lock \in {Main(r), Beat(r)} THEN NoSession ELSE lock
    /\ txn' = [txn EXCEPT ![Main(r)] = IdleTxn, ![Beat(r)] = IdleTxn]
    /\ phase' = [phase EXCEPT ![r] = "done"]
    /\ beat' = [beat EXCEPT ![r] = "ended"]
    /\ UNCHANGED <<now, guard, lease_alive, left, written>>

MainStep(r) ==
    \/ StartRun(r) \/ MainStatement(r) \/ Acquired(r) \/ NotAcquired(r)
    \/ NextItem(r) \/ StopWork(r) \/ GuardedWrite(r) \/ WriteLeaseLost(r)
    \/ SkipItem(r) \/ JoinHeartbeat(r) \/ Release(r)

BeatStep(r) ==
    \/ HeartbeatStop(r) \/ BeatStatement(r) \/ HeartbeatRefreshed(r)
    \/ HeartbeatRefused(r)

Next ==
    \/ Tick /\ UNCHANGED runVars
    \/ \E r \in Owner : \/ MainStep(r) \/ MainTxnFails(r)
                        \/ BeatStep(r) \/ HeartbeatWake(r) \/ HeartbeatFails(r)
                        \/ Crash(r)

Spec == Init /\ [][Next]_vars

(* PostgreSQL queues the waiters of a row lock in arrival order and tokio  *)
(* polls every ready task, so a task that can go on again and again does.  *)
(* A heartbeat that goes back to its select! with a stop pending finds the *)
(* channel ready and a new 60 s sleep not: it stops.  No fairness is given *)
(* to crashes, errors and the heartbeat timer.                             *)
Fairness ==
    \A r \in Owner : /\ SF_vars(MainStep(r))
                     /\ SF_vars(BeatStep(r))
                     /\ SF_vars(HeartbeatStop(r))

FairSpec == Spec /\ Fairness

----------------------------------------------------------------------------
(* A run that released its lease leaves nothing in the row: no refresh of  *)
(* its own heartbeat brings the lease back (learning.rs joins the          *)
(* heartbeat before release_kv_lease_guard).                               *)
ReleasedLeaseIsGone ==
    \A r \in Owner : phase[r] = "released" => row.owner # r

(* Implementation of FencedWriters: no guarded write is ever accepted from *)
(* a run whose lease expired and was taken over, was released, or was      *)
(* overwritten by a racing acquisition.                                    *)
Fenced == INSTANCE FencedWriters
    WITH Writer <- Owner, None <- Nobody, current <- row.owner,
         granted <- {r \in Owner : guard[r] # 0}

FencedSpec == Fenced!Spec

OnlyLostToBlindAcquire ==
    \A r, q \in Owner :
        lease_is_active(row, now) /\ row.owner = r /\ row'.owner = q /\ q # r
            => ~txn[Main(q)].seen.present

(* An active lease passes to another run only through an acquisition whose *)
(* SELECT FOR UPDATE returned no row: acquire_kv_lease_guard refuses in    *)
(* every other case.  (That exception is real: see PlanCacheWriter.)       *)
ActiveLeaseOnlyLostToBlindAcquire == [][OnlyLostToBlindAcquire]_vars

(* Every run that starts comes to an end, whoever holds the row lock and   *)
(* whatever became of the lease (run_candidate_generation awaits its       *)
(* heartbeat, which awaits a row lock): no run is under way for ever, and  *)
(* none starts twice.                                                      *)
EveryRunEnds ==
    \A r \in Owner : []<>(phase[r] \in {"new", "released", "done"})

----------------------------------------------------------------------------
(* The inductive invariant behind the safety properties: the main task is  *)
(* in a transaction only where its code is, the row names the guard of its *)
(* owner, and a release that found no row has nothing left to release.     *)
MainTxnInPhase ==
    \A r \in Owner :
        phase[r] \in {"new", "checking", "joining", "released", "done"}
            => txn[Main(r)].step = "idle"

GuardAfterGrant ==
    \A r \in Owner : phase[r] \in {"new", "acquiring"} => guard[r] = 0

RowNamesGuard ==
    \A r \in Owner : row.owner = r => guard[r] # 0 /\ row.fence = guard[r]

BlindRelease ==
    \A r \in Owner :
        /\ phase[r] = "releasing"
        /\ txn[Main(r)].step = "read"
        /\ ~txn[Main(r)].seen.present
        => row.owner # r

IInv ==
    /\ TypeOK
    /\ StoreInv
    /\ MainTxnInPhase
    /\ GuardAfterGrant
    /\ RowNamesGuard
    /\ BlindRelease
    /\ ReleasedLeaseIsGone
=============================================================================
