--------------------------- MODULE PlanCacheWriter ---------------------------
(***************************************************************************)
(* update_reflect_followup_plan_cache_guarded                              *)
(* (src/channels/http/automation_api/reflect_control.rs): a                *)
(* read-modify-write of a kv_store value under a lease.  A planning pass   *)
(* acquires the lease, loads the cache, merges its verdicts, saves the     *)
(* cache with an unguarded upsert and releases the lease.  Passes are      *)
(* concurrent: a view triggers one, the idle tick or a refresh another.    *)
(* A pass's verdicts are abstracted to the pass itself.                    *)
(***************************************************************************)
EXTENDS KvLease

CONSTANT LoadFails  \* whether the load may fail

(* A pass has one database session. *)
Conn(p) == <<p, "pass">>

ASSUME PassAssumption ==
    /\ Owner \X {"pass"} \subseteq Session
    /\ LoadFails \in BOOLEAN

VARIABLES
    pass,       \* where the pass is
    token,      \* lease_guard.fence_token; 0 without a lease
    loaded,     \* the cache the pass loaded
    cache,      \* the persisted plan cache
    saved       \* passes whose save succeeded

passVars == <<pass, token, loaded, cache, saved>>
planVars == <<storeVars, passVars>>

PlanTypeOK ==
    /\ StoreTypeOK
    /\ pass \in [Owner -> {"new", "acquiring", "loading", "saving",
                            "releasing", "done"}]
    /\ token \in [Owner -> Nat]
    /\ loaded \in [Owner -> SUBSET Owner]
    /\ cache \subseteq Owner
    /\ saved \subseteq Owner

PlanInit ==
    /\ StoreInit
    /\ pass = [p \in Owner |-> "new"]
    /\ token = [p \in Owner |-> 0]
    /\ loaded = [p \in Owner |-> {}]
    /\ cache = {}
    /\ saved = {}

StartPass(p) ==
    /\ pass[p] = "new"
    /\ pass' = [pass EXCEPT ![p] = "acquiring"]
    /\ UNCHANGED <<storeVars, token, loaded, cache, saved>>

PassStatement(p) ==
    /\ pass[p] \in {"acquiring", "releasing"}
    /\ \/ ensure_kv_row_exists_txn(Conn(p))
       \/ WaitForRowLock(Conn(p))
       \/ get_kv_for_update_txn(Conn(p))
    /\ UNCHANGED passVars

(* Ok(Ok(Some(guard))), or the commit goes through and the timeout of      *)
(* REFLECT_DB_TIMEOUT still fires: then the lease stays behind unused.     *)
PassAcquires(p) ==
    /\ pass[p] = "acquiring"
    /\ AcquireGranted(Conn(p), p)
    /\ \/ /\ pass' = [pass EXCEPT ![p] = "loading"]
          /\ token' = [token EXCEPT ![p] =
                               next_lease_fence_token(txn[Conn(p)].seen)]
       \/ /\ pass' = [pass EXCEPT ![p] = "done"]
          /\ UNCHANGED token
    /\ UNCHANGED <<loaded, cache, saved>>

PassRefused(p) ==
    /\ pass[p] = "acquiring"
    /\ AcquireRefused(Conn(p), p)
    /\ pass' = [pass EXCEPT ![p] = "done"]
    /\ UNCHANGED <<token, loaded, cache, saved>>

(* Mutant: the pass merges into the cache it started with. *)
LoadNothing(p) ==
    /\ pass[p] = "loading"
    /\ pass' = [pass EXCEPT ![p] = "saving"]
    /\ UNCHANGED <<storeVars, token, loaded, cache, saved>>

(* load_reflect_followup_plan_cache: an error loads the empty cache.       *)
LoadPlan(p) ==
    /\ pass[p] = "loading"
    /\ pass' = [pass EXCEPT ![p] = "saving"]
    /\ \E c \in {cache} \cup (IF LoadFails THEN {{}} ELSE {}) :
          loaded' = [loaded EXCEPT ![p] = c]
    /\ UNCHANGED <<storeVars, token, cache, saved>>

(* update_reflect_followup_plan_cache, then save: the whole value is       *)
(* replaced.  An error is only logged, and a merge that changes nothing is *)
(* not saved.                                                              *)
SavePlan(p) ==
    /\ pass[p] = "saving"
    /\ pass' = [pass EXCEPT ![p] = "releasing"]
    /\ \/ cache' = loaded[p] \cup {p} /\ saved' = saved \cup {p}
       \/ UNCHANGED <<cache, saved>>
    /\ UNCHANGED <<storeVars, token, loaded>>

ReleasePass(p) ==
    /\ pass[p] = "releasing"
    /\ release_kv_lease_guard(Conn(p), p, token[p])
    /\ pass' = [pass EXCEPT ![p] = "done"]
    /\ UNCHANGED <<token, loaded, cache, saved>>

(* A database error or REFLECT_DB_TIMEOUT inside a lease transaction.      *)
PassFails(p) ==
    /\ pass[p] \in {"acquiring", "releasing"}
    /\ AbortTxn(Conn(p))
    /\ pass' = [pass EXCEPT ![p] = "done"]
    /\ UNCHANGED <<token, loaded, cache, saved>>

PlanNext ==
    \/ Tick /\ UNCHANGED passVars
    \/ \E p \in Owner :
          \/ StartPass(p) \/ PassStatement(p) \/ PassAcquires(p)
          \/ PassRefused(p) \/ LoadPlan(p) \/ SavePlan(p) \/ ReleasePass(p)
          \/ PassFails(p)

PlanSpec == PlanInit /\ [][PlanNext]_planVars

----------------------------------------------------------------------------
(* The comment of update_reflect_followup_plan_cache_guarded: concurrent   *)
(* planning passes cannot clobber each other's persisted verdicts.         *)
NoClobberedVerdicts == saved \subseteq cache

Writing(p) == pass[p] \in {"loading", "saving"}

StealsLease ==
    \E p, q \in Owner :
        p # q /\ Writing(q) /\ row.owner = q /\ row'.owner = p

(* No pass is granted the lease while another one that holds it is between *)
(* its load and its save (acquire_kv_lease_guard).  This is what keeps the *)
(* verdicts, and what three passes can break.                              *)
LeaseIsKept == [][~StealsLease]_planVars
=============================================================================
