------------------------------ MODULE KvLease ------------------------------
(***************************************************************************)
(* Leases kept in one row of the PostgreSQL table kv_store                 *)
(* (src/storage/repositories/kv_leases.rs).  Every lease operation is a    *)
(* transaction of three statements:                                        *)
(*                                                                         *)
(*   1. ensure_kv_row_exists_txn: INSERT ... ON CONFLICT DO NOTHING of an  *)
(*      empty value;                                                       *)
(*   2. get_kv_for_update_txn: SELECT ... FOR UPDATE;                      *)
(*   3. the decision, with an upsert, a DELETE or nothing, and the end of  *)
(*      the transaction.                                                   *)
(*                                                                         *)
(* The module keeps the statements apart, because the row lock is taken by *)
(* the second one only when it finds a row.  The third statement and the   *)
(* commit are one step: whoever gets that far either holds the row lock or *)
(* writes with a single upsert.                                            *)
(*                                                                         *)
(* This is a component to be composed: LearningGeneration and              *)
(* PlanCacheWriter run these transactions from their own control state.    *)
(***************************************************************************)
EXTENDS Naturals, FiniteSets

CONSTANTS
    Owner,      \* lease owner ids; a fresh UUID for every run of a job
    Nobody,     \* the owner of a row whose value holds no lease record
    Session,    \* database sessions, one per task that talks to the store
    NoSession,  \* the row lock is free
    Ttl,        \* lease lifetime, in clock ticks (ttl_secs.max(1))
    MaxTime     \* bound of the model: the clock stops here

ASSUME NobodyAssumption == Nobody \notin Owner
ASSUME NoSessionAssumption == NoSession \notin Session
ASSUME TtlAssumption == Ttl \in Nat \ {0}
ASSUME MaxTimeAssumption == MaxTime \in Nat

VARIABLES
    now,        \* chrono::Utc::now(), in ticks
    row,        \* the kv_store row of the lease key
    lock,       \* the session that holds the row lock, or NoSession
    txn         \* the transaction each session is in

storeVars == <<now, row, lock, txn>>

----------------------------------------------------------------------------
(* KvLeaseRecord as it is stored: `present' tells whether the row exists.  *)
(* A row whose value does not parse is one without an owner.               *)
KvLeaseRecord == [present : BOOLEAN, owner : Owner \cup {Nobody},
                  expires : Nat, fence : Nat]

Absent == [present |-> FALSE, owner |-> Nobody, expires |-> 0, fence |-> 0]
Blank == [Absent EXCEPT !.present = TRUE]

(* `fresh': ensure_kv_row_exists_txn inserted the row, so nobody else sees *)
(* it before the commit.  `seen' and `at': what SELECT FOR UPDATE returned *)
(* and the clock read after it.                                            *)
Txn == [step : {"idle", "ensured", "waiting", "read"}, fresh : BOOLEAN,
        seen : KvLeaseRecord, at : Nat]
IdleTxn == [step |-> "idle", fresh |-> FALSE, seen |-> Absent, at |-> 0]

StoreTypeOK ==
    /\ now \in Nat
    /\ row \in KvLeaseRecord
    /\ lock \in Session \cup {NoSession}
    /\ txn \in [Session -> Txn]

StoreInit ==
    /\ now = 0
    /\ row = Absent
    /\ lock = NoSession
    /\ txn = [s \in Session |-> IdleTxn]

----------------------------------------------------------------------------
lease_is_active(lease, t) == lease.owner # Nobody /\ lease.expires > t

next_lease_fence_token(lease) ==
    IF lease.owner = Nobody THEN 1 ELSE lease.fence + 1

kv_lease_guard_is_current(lease, owner, fence, t) ==
    /\ lease.owner = owner
    /\ lease.fence = fence
    /\ lease_is_active(lease, t)

(* An uncommitted INSERT: other sessions wait for it in an INSERT and do   *)
(* not see it in a SELECT.                                                 *)
UncommittedInsert == lock # NoSession /\ txn[lock].fresh

Visible(s) == row.present /\ (lock = s \/ ~UncommittedInsert)

----------------------------------------------------------------------------
(* Statement 1.  Without a row the session inserts one and owns it.        *)
ensure_kv_row_exists_txn(s) ==
    /\ txn[s].step = "idle"
    /\ ~UncommittedInsert
    /\ txn' = [txn EXCEPT ![s] = [IdleTxn EXCEPT !.step = "ensured",
                                                 !.fresh = ~row.present]]
    /\ row' = IF row.present THEN row ELSE Blank
    /\ lock' = IF row.present THEN lock ELSE s
    /\ UNCHANGED now

(* Statement 2, when the row is locked by another session.                 *)
WaitForRowLock(s) ==
    /\ txn[s].step = "ensured"
    /\ Visible(s)
    /\ lock \notin {s, NoSession}
    /\ txn' = [txn EXCEPT ![s].step = "waiting"]
    /\ UNCHANGED <<now, row, lock>>

(* Mutant: a SELECT that does not lock the row. *)
SelectWithoutLock(s) ==
    /\ txn[s].step = "ensured"
    /\ txn' = [txn EXCEPT ![s].step = "read", ![s].at = now, ![s].seen = row]
    /\ UNCHANGED <<now, row, lock>>

(* Statement 2.  A row is returned together with its lock; without a row   *)
(* the query returns nothing and nothing is locked.                        *)
get_kv_for_update_txn(s) ==
    /\ txn[s].step \in {"ensured", "waiting"}
    /\ Visible(s) => lock \in {s, NoSession}
    /\ lock' = IF Visible(s) THEN s ELSE lock
    /\ txn' = [txn EXCEPT ![s].step = "read", ![s].at = now,
                          ![s].seen = IF Visible(s) THEN row ELSE Absent]
    /\ UNCHANGED <<now, row>>

----------------------------------------------------------------------------
(* The end of a transaction.                                               *)
EndTxn(s) ==
    /\ txn' = [txn EXCEPT ![s] = IdleTxn]
    /\ lock' = IF lock = s THEN NoSession ELSE lock

(* Commit with the upsert of set_kv_txn, which waits for the row lock.     *)
set_kv_txn(s, value) ==
    /\ lock \in {s, NoSession}
    /\ row' = value
    /\ EndTxn(s)
    /\ UNCHANGED now

(* Commit with delete_kv_txn.  A session that waits in SELECT FOR UPDATE   *)
(* for the deleted row version gets no row, even if another one is         *)
(* inserted before it wakes up.                                            *)
delete_kv_txn(s) ==
    /\ row' = Absent
    /\ lock' = NoSession
    /\ txn' = [t \in Session |->
                  IF t = s THEN IdleTxn
                  ELSE IF txn[t].step = "waiting"
                       THEN [txn[t] EXCEPT !.step = "read", !.at = now]
                       ELSE txn[t]]
    /\ UNCHANGED now

CommitUnchanged(s) == EndTxn(s) /\ UNCHANGED <<now, row>>

Rollback(s) ==
    /\ row' = IF txn[s].fresh THEN Absent ELSE row
    /\ EndTxn(s)
    /\ UNCHANGED now

----------------------------------------------------------------------------
(* Mutant: the owner comparison is the wrong way round. *)
HeldByItself(s, o) ==
    lease_is_active(txn[s].seen, txn[s].at) /\ txn[s].seen.owner = o

(* acquire_kv_lease_guard and acquire_kv_lease.                            *)
HeldByAnother(s, o) ==
    lease_is_active(txn[s].seen, txn[s].at) /\ txn[s].seen.owner # o

AcquireGranted(s, o) ==
    /\ txn[s].step = "read"
    /\ ~HeldByAnother(s, o)
    /\ set_kv_txn(s, [present |-> TRUE, owner |-> o,
                      expires |-> txn[s].at + Ttl,
                      fence |-> next_lease_fence_token(txn[s].seen)])

AcquireRefused(s, o) ==
    /\ txn[s].step = "read"
    /\ HeldByAnother(s, o)
    /\ Rollback(s)

(* Mutant: the guard is known by its token, and a later one will do. *)
GuardIsCurrentByToken(s, o, f) ==
    txn[s].seen.fence >= f /\ lease_is_active(txn[s].seen, txn[s].at)

(* require_kv_lease_guard_txn, and the same test of refresh.               *)
GuardIsCurrent(s, o, f) ==
    kv_lease_guard_is_current(txn[s].seen, o, f, txn[s].at)

(* Mutant: a refresh extends the old expiry. *)
RefreshFromExpiry(s, o, f) ==
    /\ txn[s].step = "read"
    /\ GuardIsCurrent(s, o, f)
    /\ set_kv_txn(s, [txn[s].seen EXCEPT !.expires = @ + Ttl])

RefreshOk(s, o, f) ==
    /\ txn[s].step = "read"
    /\ GuardIsCurrent(s, o, f)
    /\ set_kv_txn(s, [txn[s].seen EXCEPT !.expires = txn[s].at + Ttl])

GuardLost(s, o, f) ==
    /\ txn[s].step = "read"
    /\ ~GuardIsCurrent(s, o, f)
    /\ Rollback(s)

(* A guarded transaction commits its payload and leaves the lease alone.   *)
GuardedCommit(s, o, f) ==
    /\ txn[s].step = "read"
    /\ GuardIsCurrent(s, o, f)
    /\ CommitUnchanged(s)

(* Mutant: a release that expects the next fence token. *)
ReleaseWrongToken(s, o, f) ==
    /\ txn[s].step = "read"
    /\ IF txn[s].seen.owner = o /\ txn[s].seen.fence = f + 1
       THEN delete_kv_txn(s)
       ELSE CommitUnchanged(s)

release_kv_lease_guard(s, o, f) ==
    /\ txn[s].step = "read"
    /\ IF txn[s].seen.owner = o /\ txn[s].seen.fence = f
       THEN delete_kv_txn(s)
       ELSE CommitUnchanged(s)

(* A statement fails, or the future that runs the transaction is dropped.  *)
AbortTxn(s) ==
    /\ txn[s].step # "idle"
    /\ Rollback(s)

Tick ==
    /\ now < MaxTime
    /\ now' = now + 1
    /\ UNCHANGED <<row, lock, txn>>

----------------------------------------------------------------------------
(* What holds between statements: the lock has one holder, who either      *)
(* inserted the row or read it; a locked read is the row itself; a read    *)
(* without a row is no lease.                                              *)
RowShape == ~row.present => row = Absent

LockHolder ==
    lock # NoSession =>
        /\ row.present
        /\ \/ txn[lock].step = "ensured" /\ txn[lock].fresh
           \/ txn[lock].step = "read" /\ txn[lock].seen.present

FreshTxn == \A s \in Session : txn[s].fresh => lock = s /\ row = Blank

(* The row lock isolates a transaction: what SELECT FOR UPDATE returned to *)
(* a session that has a row is still what the row holds when the session   *)
(* decides, whatever the others do meanwhile (kv_leases.rs,                *)
(* get_kv_for_update_txn).                                                 *)
LockedReadIsStable ==
    \A s \in Session :
        txn[s].step = "read" /\ txn[s].seen.present
            => lock = s /\ txn[s].seen = row

ReadShape ==
    \A s \in Session :
        /\ ~txn[s].seen.present => txn[s].seen = Absent
        /\ txn[s].step # "read" => ~txn[s].seen.present
        /\ txn[s].at <= now

(* A lease that nobody refreshes blocks the other runs for at most Ttl:    *)
(* after a crash, an error or a lost release the row is taken over         *)
(* (acquire_kv_lease_guard, refresh_kv_lease_guard: expires_at).           *)
TakeoverBounded == row.expires <= now + Ttl

StoreInv ==
    /\ StoreTypeOK
    /\ RowShape
    /\ LockHolder
    /\ FreshTxn
    /\ LockedReadIsStable
    /\ ReadShape
    /\ TakeoverBounded
=============================================================================
