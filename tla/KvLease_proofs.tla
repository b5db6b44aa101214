--------------------------- MODULE KvLease_proofs ---------------------------
(***************************************************************************)
(* Every statement a lease transaction executes preserves StoreInv.  The   *)
(* clients of the lease row cite these lemmas, one per statement.          *)
(***************************************************************************)
EXTENDS KvLease, TLAPS

(* The two rows without a lease record.                                    *)
LEMMA EmptyRows ==
    /\ Absent \in KvLeaseRecord /\ Blank \in KvLeaseRecord
    /\ Absent.present = FALSE /\ Blank.present = TRUE
    /\ Absent.owner = Nobody /\ Blank.owner = Nobody
    /\ Absent.expires = 0 /\ Blank.expires = 0
    /\ Absent.fence = 0 /\ Blank.fence = 0
BY DEF Absent, Blank, KvLeaseRecord

(* A session outside a transaction.                                        *)
LEMMA IdleTxnType ==
    /\ IdleTxn \in Txn
    /\ IdleTxn.step = "idle" /\ IdleTxn.fresh = FALSE
    /\ IdleTxn.seen = Absent /\ IdleTxn.at = 0
BY EmptyRows DEF IdleTxn, Txn

(* The empty table satisfies the invariant.                                *)
LEMMA StoreInitInv == StoreInit => StoreInv
<1> SUFFICES ASSUME StoreInit PROVE StoreInv
  OBVIOUS
<1> USE NobodyAssumption, NoSessionAssumption, TtlAssumption, EmptyRows,
        IdleTxnType
<1> USE DEF StoreInit
<1>1. StoreTypeOK
  BY DEF StoreTypeOK, KvLeaseRecord, Txn
<1>2. RowShape /\ LockHolder /\ FreshTxn /\ LockedReadIsStable
  BY DEF RowShape, LockHolder, FreshTxn, LockedReadIsStable
<1>3. ReadShape /\ TakeoverBounded
  BY DEF ReadShape, TakeoverBounded
<1>4. QED
  BY <1>1, <1>2, <1>3 DEF StoreInv

(* INSERT ... ON CONFLICT DO NOTHING.                                      *)
LEMMA EnsureInv ==
    ASSUME StoreInv, NEW s \in Session, ensure_kv_row_exists_txn(s)
    PROVE  StoreInv'
<1> USE NobodyAssumption, NoSessionAssumption, TtlAssumption, EmptyRows,
        IdleTxnType
<1> USE DEF StoreInv, StoreTypeOK, KvLeaseRecord, Txn,
            ensure_kv_row_exists_txn, UncommittedInsert
<1>1. StoreTypeOK'
  OBVIOUS
<1>2. RowShape' /\ TakeoverBounded'
  BY DEF RowShape, TakeoverBounded
<1>3. LockHolder'
  BY DEF RowShape, LockHolder
<1>4. FreshTxn'
  BY DEF FreshTxn, RowShape, LockHolder
<1>5. LockedReadIsStable'
  BY DEF LockedReadIsStable
<1>6. ReadShape'
  BY DEF ReadShape
<1>7. QED
  BY <1>1, <1>2, <1>3, <1>4, <1>5, <1>6
(* SELECT FOR UPDATE has to wait. *)
LEMMA WaitInv ==
    ASSUME StoreInv, NEW s \in Session, WaitForRowLock(s)
    PROVE  StoreInv'
<1> USE NobodyAssumption, NoSessionAssumption, TtlAssumption, EmptyRows,
        IdleTxnType
<1> USE DEF StoreInv, StoreTypeOK, KvLeaseRecord, Txn,
            WaitForRowLock, Visible, UncommittedInsert
<1>1. StoreTypeOK'
  OBVIOUS
<1>2. RowShape' /\ TakeoverBounded'
  BY DEF RowShape, LockHolder, LockedReadIsStable, ReadShape, TakeoverBounded
<1>3. LockHolder'
  BY DEF RowShape, LockHolder, FreshTxn, ReadShape
<1>4. FreshTxn'
  BY DEF FreshTxn, RowShape, LockHolder
<1>5. LockedReadIsStable'
  BY DEF LockedReadIsStable, LockHolder, FreshTxn
<1>6. ReadShape'
  BY DEF ReadShape, RowShape
<1>7. QED
  BY <1>1, <1>2, <1>3, <1>4, <1>5, <1>6

(* SELECT FOR UPDATE returns. *)
LEMMA SelectInv ==
    ASSUME StoreInv, NEW s \in Session, get_kv_for_update_txn(s)
    PROVE  StoreInv'
<1> USE NobodyAssumption, NoSessionAssumption, TtlAssumption, EmptyRows,
        IdleTxnType
<1> USE DEF StoreInv, StoreTypeOK,
            get_kv_for_update_txn, Visible, UncommittedInsert
<1>1. StoreTypeOK'
  <2>1. (IF Visible(s) THEN row ELSE Absent) \in KvLeaseRecord
    BY EmptyRows
  <2>2. \A v \in KvLeaseRecord :
           [txn EXCEPT ![s].step = "read", ![s].at = now, ![s].seen = v]
               \in [Session -> Txn]
    <3>1. txn[s] \in Txn
      OBVIOUS
    <3>2. \A v \in KvLeaseRecord :
             [txn[s] EXCEPT !.step = "read", !.at = now, !.seen = v] \in Txn
      BY <3>1 DEF Txn
    <3>3. QED
      BY <3>2
  <2>3. txn' \in [Session -> Txn]
    BY <2>1, <2>2
  <2>4. QED
    BY <2>3
<1>2. RowShape' /\ TakeoverBounded'
  BY DEF RowShape, LockHolder, LockedReadIsStable, ReadShape, TakeoverBounded
<1>3. LockHolder'
  BY DEF RowShape, LockHolder, FreshTxn, ReadShape
<1>4. FreshTxn'
  BY DEF FreshTxn, RowShape, LockHolder
<1>5. LockedReadIsStable'
  BY DEF LockedReadIsStable, LockHolder, FreshTxn
<1>6. ReadShape'
  BY DEF ReadShape, RowShape
<1>7. QED
  BY <1>1, <1>2, <1>3, <1>4, <1>5, <1>6

(* Commit with an upsert of a lease that expires within Ttl. *)
LEMMA UpsertInv ==
    ASSUME StoreInv, NEW s \in Session, NEW v \in KvLeaseRecord,
           v.present, v.expires <= now + Ttl, set_kv_txn(s, v)
    PROVE  StoreInv'
<1> USE NobodyAssumption, NoSessionAssumption, TtlAssumption, EmptyRows,
        IdleTxnType
<1> USE DEF StoreInv, StoreTypeOK, KvLeaseRecord, Txn,
            set_kv_txn, EndTxn
<1>1. StoreTypeOK'
  OBVIOUS
<1>2. RowShape' /\ TakeoverBounded'
  BY DEF RowShape, LockHolder, LockedReadIsStable, ReadShape, TakeoverBounded
<1>3. LockHolder'
  BY DEF RowShape, LockHolder, FreshTxn, ReadShape
<1>4. FreshTxn'
  BY DEF FreshTxn, RowShape, LockHolder
<1>5. LockedReadIsStable'
  BY DEF LockedReadIsStable, LockHolder, FreshTxn
<1>6. ReadShape'
  BY DEF ReadShape, RowShape
<1>7. QED
  BY <1>1, <1>2, <1>3, <1>4, <1>5, <1>6

(* Commit with a delete, by the session that holds the lock. *)
LEMMA DeleteInv ==
    ASSUME StoreInv, NEW s \in Session, lock = s, delete_kv_txn(s)
    PROVE  StoreInv'
<1> USE NoSessionAssumption, EmptyRows, IdleTxnType DEF StoreInv, delete_kv_txn
<1>1. StoreTypeOK'
  BY DEF StoreTypeOK, Txn
<1>2. RowShape' /\ LockHolder' /\ TakeoverBounded'
  <2>1. RowShape' /\ LockHolder'
    BY DEF RowShape, LockHolder
  <2>2. row'.expires = 0 /\ now' = now /\ now \in Nat
    BY DEF StoreTypeOK
  <2>3. 0 <= now + Ttl
    BY ONLY <2>2, TtlAssumption
  <2>4. TakeoverBounded'
    BY ONLY <2>2, <2>3, Zenon DEF TakeoverBounded
  <2>5. QED
    BY <2>1, <2>4
<1>3. FreshTxn'
  BY DEF StoreTypeOK, Txn, FreshTxn
<1>4. \A t \in Session : txn'[t].seen = Absent
  <2> SUFFICES ASSUME NEW t \in Session PROVE txn'[t].seen = Absent
    OBVIOUS
  <2>1. CASE t = s
    BY <2>1
  <2>2. CASE t # s /\ txn[t].step = "waiting"
    BY <2>2 DEF StoreTypeOK, Txn, ReadShape
  <2>3. CASE t # s /\ txn[t].step # "waiting"
    BY <2>3 DEF StoreTypeOK, Txn, ReadShape, LockedReadIsStable
  <2>4. QED
    BY <2>1, <2>2, <2>3
<1>5. LockedReadIsStable'
  BY <1>4 DEF LockedReadIsStable
<1>6. ReadShape'
  <2>1. ASSUME NEW t \in Session PROVE txn'[t].at <= now'
    <3>1. txn[t].at <= now /\ now \in Nat /\ now' = now
      BY DEF StoreTypeOK, ReadShape
    <3>2. txn'[t].at \in {0, now, txn[t].at}
      BY DEF StoreTypeOK, Txn
    <3>3. QED
      BY ONLY <3>1, <3>2
  <2>2. QED
    BY <1>4, <2>1 DEF ReadShape
<1>7. QED
  BY <1>1, <1>2, <1>3, <1>5, <1>6

(* Commit without a write. *)
LEMMA CommitInv ==
    ASSUME StoreInv, NEW s \in Session, CommitUnchanged(s)
    PROVE  StoreInv'
<1> USE NobodyAssumption, NoSessionAssumption, TtlAssumption, EmptyRows,
        IdleTxnType
<1> USE DEF StoreInv, StoreTypeOK, KvLeaseRecord, Txn,
            CommitUnchanged, EndTxn
<1>1. StoreTypeOK'
  OBVIOUS
<1>2. RowShape' /\ TakeoverBounded'
  BY DEF RowShape, LockHolder, LockedReadIsStable, ReadShape, TakeoverBounded
<1>3. LockHolder'
  BY DEF RowShape, LockHolder, FreshTxn, ReadShape
<1>4. FreshTxn'
  BY DEF FreshTxn, RowShape, LockHolder
<1>5. LockedReadIsStable'
  BY DEF LockedReadIsStable, LockHolder, FreshTxn
<1>6. ReadShape'
  BY DEF ReadShape, RowShape
<1>7. QED
  BY <1>1, <1>2, <1>3, <1>4, <1>5, <1>6

(* Rollback, which undoes an insert. *)
LEMMA RollbackInv ==
    ASSUME StoreInv, NEW s \in Session, Rollback(s)
    PROVE  StoreInv'
<1> USE NobodyAssumption, NoSessionAssumption, TtlAssumption, EmptyRows,
        IdleTxnType
<1> USE DEF StoreInv, StoreTypeOK, KvLeaseRecord, Txn,
            Rollback, EndTxn
<1>1. StoreTypeOK'
  OBVIOUS
<1>2. RowShape' /\ TakeoverBounded'
  BY DEF RowShape, LockHolder, LockedReadIsStable, ReadShape, TakeoverBounded
<1>3. LockHolder'
  BY DEF RowShape, LockHolder, FreshTxn, ReadShape
<1>4. FreshTxn'
  BY DEF FreshTxn, RowShape, LockHolder
<1>5. LockedReadIsStable'
  BY DEF LockedReadIsStable, LockHolder, FreshTxn
<1>6. ReadShape'
  BY DEF ReadShape, RowShape
<1>7. QED
  BY <1>1, <1>2, <1>3, <1>4, <1>5, <1>6

(* The clock. *)
LEMMA TickInv ==
    ASSUME StoreInv, Tick
    PROVE  StoreInv'
<1> USE NobodyAssumption, NoSessionAssumption, TtlAssumption, EmptyRows,
        IdleTxnType
<1> USE DEF StoreInv, StoreTypeOK, KvLeaseRecord, Txn,
            Tick
<1>1. StoreTypeOK'
  OBVIOUS
<1>2. RowShape' /\ TakeoverBounded'
  BY DEF RowShape, LockHolder, LockedReadIsStable, ReadShape, TakeoverBounded
<1>3. LockHolder'
  BY DEF RowShape, LockHolder, FreshTxn, ReadShape
<1>4. FreshTxn'
  BY DEF FreshTxn, RowShape, LockHolder
<1>5. LockedReadIsStable'
  BY DEF LockedReadIsStable, LockHolder, FreshTxn
<1>6. ReadShape'
  BY DEF ReadShape, RowShape
<1>7. QED
  BY <1>1, <1>2, <1>3, <1>4, <1>5, <1>6


(* No statement in the middle of a transaction, no rollback and no commit  *)
(* without a write changes whose lease the row holds or its fence token.   *)
LEMMA LeaseKept ==
    ASSUME StoreInv, NEW s \in Session,
           \/ ensure_kv_row_exists_txn(s) \/ WaitForRowLock(s)
           \/ get_kv_for_update_txn(s) \/ Rollback(s) \/ CommitUnchanged(s)
    PROVE  row'.owner = row.owner /\ row'.fence = row.fence
<1> USE EmptyRows DEF StoreInv
<1>1. CASE ensure_kv_row_exists_txn(s)
  BY <1>1 DEF ensure_kv_row_exists_txn, RowShape
<1>2. CASE WaitForRowLock(s)
  BY <1>2 DEF WaitForRowLock
<1>3. CASE get_kv_for_update_txn(s)
  BY <1>3 DEF get_kv_for_update_txn
<1>4. CASE Rollback(s)
  BY <1>4 DEF Rollback, FreshTxn
<1>5. CASE CommitUnchanged(s)
  BY <1>5 DEF CommitUnchanged
<1>6. QED
  BY <1>1, <1>2, <1>3, <1>4, <1>5

(* A session that decides to delete read the lease, so it holds the lock.  *)
LEMMA DeleterHoldsLock ==
    ASSUME StoreInv, NEW s \in Session, NEW o \in Owner,
           txn[s].step = "read", txn[s].seen.owner = o
    PROVE  lock = s /\ txn[s].seen = row
BY NobodyAssumption, EmptyRows
   DEF StoreInv, StoreTypeOK, Txn, ReadShape, LockedReadIsStable

(* An acquisition writes a lease of its owner with a positive token.       *)
LEMMA GrantInv ==
    ASSUME StoreInv, NEW s \in Session, NEW o \in Owner, AcquireGranted(s, o)
    PROVE  /\ StoreInv'
           /\ row'.owner = o
           /\ row'.fence = next_lease_fence_token(txn[s].seen)
           /\ next_lease_fence_token(txn[s].seen) \in Nat \ {0}
<1> DEFINE v == [present |-> TRUE, owner |-> o, expires |-> txn[s].at + Ttl,
                 fence |-> next_lease_fence_token(txn[s].seen)]
<1>1. next_lease_fence_token(txn[s].seen) \in Nat \ {0}
  BY DEF StoreInv, StoreTypeOK, Txn, KvLeaseRecord, next_lease_fence_token
<1>2. /\ txn[s].at \in Nat /\ now \in Nat /\ Ttl \in Nat
      /\ txn[s].at <= now
  BY TtlAssumption DEF StoreInv, StoreTypeOK, Txn, ReadShape
<1>3. v \in KvLeaseRecord /\ v.present /\ v.expires <= now + Ttl
  BY <1>1, <1>2 DEF KvLeaseRecord
<1>4. set_kv_txn(s, v)
  BY DEF AcquireGranted
<1>5. StoreInv'
  <2> HIDE DEF v
  <2>1. QED
    BY <1>3, <1>4, UpsertInv
<1>6. row' = v
  BY <1>4 DEF set_kv_txn
<1>7. QED
  BY <1>1, <1>5, <1>6

(* A refresh keeps owner and token: it holds the lock on the lease it      *)
(* read.                                                                   *)
LEMMA RefreshInv ==
    ASSUME StoreInv, NEW s \in Session, NEW o \in Owner, NEW f,
           RefreshOk(s, o, f)
    PROVE  /\ StoreInv'
           /\ row'.owner = row.owner /\ row'.fence = row.fence
<1> DEFINE v == [txn[s].seen EXCEPT !.expires = txn[s].at + Ttl]
<1>1. lock = s /\ txn[s].seen = row /\ row \in KvLeaseRecord
  BY DeleterHoldsLock
     DEF RefreshOk, GuardIsCurrent, kv_lease_guard_is_current, StoreInv,
         StoreTypeOK
<1>2. row.present
  BY <1>1, NoSessionAssumption DEF StoreInv, LockHolder
<1>3. /\ txn[s].at \in Nat /\ now \in Nat /\ Ttl \in Nat
      /\ txn[s].at <= now
  BY TtlAssumption DEF StoreInv, StoreTypeOK, Txn, ReadShape
<1>4. v \in KvLeaseRecord /\ v.present /\ v.expires <= now + Ttl
  BY <1>1, <1>2, <1>3 DEF KvLeaseRecord
<1>5. set_kv_txn(s, v)
  BY DEF RefreshOk
<1>6. StoreInv'
  <2> HIDE DEF v
  <2>1. QED
    BY <1>4, <1>5, UpsertInv
<1>7. row' = v
  BY <1>5 DEF set_kv_txn
<1>8. QED
  BY <1>1, <1>6, <1>7 DEF KvLeaseRecord
=============================================================================
