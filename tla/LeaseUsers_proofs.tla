-------------------------- MODULE LeaseUsers_proofs --------------------------
(***************************************************************************)
(* The two users of a lease row.  LearningGeneration: IInv is inductive,   *)
(* and from it follow the safety invariants, the action property on active *)
(* leases and the implementation of FencedWriters, for any number of runs, *)
(* any Ttl and any clock bound.  PlanCacheWriter: verdicts are kept while  *)
(* the lease is, and two passes keep it.                                   *)
(***************************************************************************)
EXTENDS LearningGeneration, PlanCacheWriter, KvLease_proofs

----------------------------------------------------------------------------
(* LearningGeneration. *)

(* The sessions of the tasks of all runs are distinct.                     *)
LEMMA Sessions ==
    ASSUME NEW r \in Owner, NEW q \in Owner
    PROVE  /\ Main(r) \in Session /\ Beat(r) \in Session
           /\ Main(r) # Beat(q)
           /\ r # q => Main(r) # Main(q)
BY SessionAssumption DEF Main, Beat

(* No run started, no row: the initial states satisfy the invariant.       *)
LEMMA InitInv == Init => IInv
<1> SUFFICES ASSUME Init PROVE IInv
  OBVIOUS
<1>1. StoreInv
  BY StoreInitInv DEF Init
<1>2. TypeOK
  BY <1>1, ItemsAssumption DEF Init, TypeOK, StoreInv, Phase
<1>3. row.owner = Nobody /\ \A s \in Session : txn[s].step = "idle"
  BY EmptyRows, IdleTxnType DEF Init, StoreInit
<1>4. /\ MainTxnInPhase /\ GuardAfterGrant /\ RowNamesGuard /\ BlindRelease
      /\ ReleasedLeaseIsGone
  BY <1>3, Sessions, NobodyAssumption
     DEF Init, MainTxnInPhase, GuardAfterGrant, RowNamesGuard, BlindRelease,
         ReleasedLeaseIsGone
<1>5. QED
  BY <1>1, <1>2, <1>4 DEF IInv

(* Steps of a run that touch neither the row nor a transaction.            *)
LEMMA LocalStepInv ==
    ASSUME IInv, NEW r \in Owner,
           \/ StartRun(r) \/ NextItem(r) \/ StopWork(r) \/ SkipItem(r)
           \/ JoinHeartbeat(r) \/ HeartbeatStop(r) \/ HeartbeatWake(r)
    PROVE  IInv'
<1> USE DEF IInv, StartRun, NextItem, StopWork, SkipItem, JoinHeartbeat,
            HeartbeatStop, HeartbeatWake, storeVars
<1>1. UNCHANGED storeVars
  OBVIOUS
<1>2. StoreInv'
  BY <1>1 DEF StoreInv, StoreTypeOK, RowShape, LockHolder, FreshTxn,
              LockedReadIsStable, ReadShape, TakeoverBounded
<1>3. TypeOK'
  BY <1>2 DEF TypeOK, StoreInv, Phase
<1>4. MainTxnInPhase'
  BY DEF MainTxnInPhase, TypeOK
<1>5. GuardAfterGrant' /\ RowNamesGuard'
  BY DEF GuardAfterGrant, RowNamesGuard, TypeOK
<1>6. BlindRelease' /\ ReleasedLeaseIsGone'
  BY DEF BlindRelease, ReleasedLeaseIsGone, MainTxnInPhase, TypeOK
<1>7. QED
  BY <1>2, <1>3, <1>4, <1>5, <1>6

(* Statements 1 and 2 of a transaction of either task.                     *)
LEMMA StatementInv ==
    ASSUME IInv, NEW r \in Owner, MainStatement(r) \/ BeatStatement(r)
    PROVE  IInv'
<1> PICK s \in {Main(r), Beat(r)} :
       /\ \/ ensure_kv_row_exists_txn(s) \/ WaitForRowLock(s)
          \/ get_kv_for_update_txn(s)
       /\ s = Main(r) => phase[r] \in {"acquiring", "writing", "releasing"}
  BY Sessions DEF MainStatement, BeatStatement
<1>0. UNCHANGED runVars
  BY DEF MainStatement, BeatStatement
<1>s. s \in Session /\ StoreInv
  BY Sessions DEF IInv
<1>1. StoreInv'
  BY <1>s, EnsureInv, WaitInv, SelectInv
<1>2. TypeOK'
  BY <1>0, <1>1 DEF IInv, TypeOK, StoreInv, runVars
<1>3. row'.owner = row.owner /\ row'.fence = row.fence
  BY <1>s, LeaseKept
<1>4. \A u \in Session \ {s} : txn'[u] = txn[u]
  BY <1>s DEF ensure_kv_row_exists_txn, WaitForRowLock, get_kv_for_update_txn,
              StoreInv, StoreTypeOK
<1>5. MainTxnInPhase'
  <2> SUFFICES ASSUME NEW q \in Owner,
                      phase[q] \in {"new", "checking", "joining", "released",
                                    "done"}
               PROVE  txn'[Main(q)].step = "idle"
    BY <1>0 DEF MainTxnInPhase, runVars
  <2>1. Main(q) # s /\ Main(q) \in Session
    BY Sessions
  <2>2. QED
    BY <2>1, <1>4 DEF IInv, MainTxnInPhase
<1>6. GuardAfterGrant' /\ RowNamesGuard' /\ ReleasedLeaseIsGone'
  BY <1>0, <1>3 DEF IInv, GuardAfterGrant, RowNamesGuard, ReleasedLeaseIsGone,
                    runVars
<1>7. BlindRelease'
  <2> SUFFICES ASSUME NEW q \in Owner, phase[q] = "releasing",
                      txn'[Main(q)].step = "read",
                      ~txn'[Main(q)].seen.present
               PROVE  row.owner # q
    BY <1>0, <1>3 DEF BlindRelease, runVars
  <2>1. CASE Main(q) # s
    BY <2>1, <1>4, Sessions DEF IInv, BlindRelease
  <2>2. CASE Main(q) = s
    <3>1. get_kv_for_update_txn(s)
      <4>1. CASE ensure_kv_row_exists_txn(s)
        <5>1. txn'[s].step # "read"
          BY <4>1, <1>s, IdleTxnType
             DEF ensure_kv_row_exists_txn, StoreInv, StoreTypeOK, Txn
        <5>2. QED
          BY <5>1, <2>2
      <4>2. CASE WaitForRowLock(s)
        <5>1. txn'[s].step # "read"
          BY <4>2, <1>s DEF WaitForRowLock, StoreInv, StoreTypeOK, Txn
        <5>2. QED
          BY <5>1, <2>2
      <4>3. QED
        BY <4>1, <4>2
    <3>2. ~Visible(s)
      BY <3>1, <2>2, <1>s DEF get_kv_for_update_txn, StoreInv, StoreTypeOK,
                              Txn, Visible
    <3>3. row.owner = Nobody
      BY <3>2, <1>s, EmptyRows
         DEF Visible, UncommittedInsert, StoreInv, StoreTypeOK, RowShape,
             FreshTxn
    <3>4. QED
      BY <3>3, NobodyAssumption
  <2>3. QED
    BY <2>1, <2>2
<1>8. QED
  BY <1>1, <1>2, <1>5, <1>6, <1>7 DEF IInv

(* Transactions that end and leave the lease as it is: refused, lost,      *)
(* accepted guarded writes, refreshes and failures.                        *)
LEMMA KeepingStepInv ==
    ASSUME IInv, NEW r \in Owner,
           \/ NotAcquired(r) \/ GuardedWrite(r) \/ WriteLeaseLost(r)
           \/ MainTxnFails(r) \/ HeartbeatRefreshed(r)
           \/ HeartbeatRefused(r) \/ HeartbeatFails(r)
    PROVE  IInv'
<1> USE DEF NotAcquired, GuardedWrite, WriteLeaseLost, MainTxnFails,
            HeartbeatRefreshed, HeartbeatRefused, HeartbeatFails,
            HeartbeatEnds
<1>s. /\ Main(r) \in Session /\ Beat(r) \in Session /\ Main(r) # Beat(r)
      /\ StoreInv
  BY Sessions DEF IInv
<1>1. PICK s \in {Main(r), Beat(r)} :
         /\ Rollback(s) \/ CommitUnchanged(s) \/ RefreshOk(s, r, guard[r])
         /\ s = Beat(r) => phase' = phase
         /\ s = Main(r) => phase[r] \in {"acquiring", "writing", "releasing"}
  BY <1>s DEF AcquireRefused, GuardedCommit, GuardLost, AbortTxn
<1>t. s \in Session
  BY <1>s
<1>2. StoreInv' /\ row'.owner = row.owner /\ row'.fence = row.fence
  BY <1>1, <1>s, <1>t, RollbackInv, CommitInv, RefreshInv, LeaseKept
<1>3. TypeOK'
  <2>1. StoreTypeOK'
    BY <1>2 DEF StoreInv
  <2>2. phase' \in [Owner -> Phase] /\ guard' \in [Owner -> Nat]
    BY DEF IInv, TypeOK, Phase
  <2>3. left' \in [Owner -> Nat]
    BY DEF IInv, TypeOK
  <2>4. written' \in [Owner -> Nat]
    BY DEF IInv, TypeOK
  <2>5. /\ lease_alive' \in [Owner -> BOOLEAN]
        /\ beat' \in [Owner -> {"off", "sleeping", "refreshing", "ended"}]
    BY DEF IInv, TypeOK
  <2>6. QED
    BY <2>1, <2>2, <2>3, <2>4, <2>5 DEF TypeOK
<1>4. /\ txn'[s].step = "idle"
      /\ \A u \in Session \ {s} : txn'[u] = txn[u]
  BY <1>1, <1>s, <1>t, IdleTxnType
     DEF Rollback, CommitUnchanged, RefreshOk, set_kv_txn, EndTxn, StoreInv,
         StoreTypeOK
<1>5. /\ guard' = guard
      /\ \A q \in Owner : q # r => phase'[q] = phase[q]
      /\ phase'[r] \in {phase[r], "checking", "joining", "done"}
  BY DEF IInv, TypeOK
<1>6. MainTxnInPhase'
  <2> SUFFICES ASSUME NEW q \in Owner,
                      phase'[q] \in {"new", "checking", "joining", "released",
                                     "done"}
               PROVE  txn'[Main(q)].step = "idle"
    BY DEF MainTxnInPhase
  <2>1. CASE Main(q) = s
    BY <2>1, <1>4
  <2>2. CASE Main(q) # s /\ phase'[q] = phase[q]
    BY <2>2, <1>4, Sessions DEF IInv, MainTxnInPhase
  <2>3. CASE Main(q) # s /\ phase'[q] # phase[q]
    BY <2>3, <1>1, <1>5
  <2>4. QED
    BY <2>1, <2>2, <2>3
<1>7. GuardAfterGrant' /\ RowNamesGuard' /\ ReleasedLeaseIsGone'
  BY <1>2, <1>5 DEF IInv, GuardAfterGrant, RowNamesGuard, ReleasedLeaseIsGone
<1>8. BlindRelease'
  <2> SUFFICES ASSUME NEW q \in Owner, phase'[q] = "releasing",
                      txn'[Main(q)].step = "read",
                      ~txn'[Main(q)].seen.present
               PROVE  row.owner # q
    BY <1>2 DEF BlindRelease
  <2>1. Main(q) # s /\ Main(q) \in Session /\ phase[q] = "releasing"
    BY <1>4, <1>5, Sessions
  <2>2. QED
    BY <2>1, <1>4 DEF IInv, BlindRelease
<1>9. QED
  BY <1>2, <1>3, <1>6, <1>7, <1>8 DEF IInv

(* The lease is granted: the row names the new run and its guard.          *)
LEMMA AcquiredInv ==
    ASSUME IInv, NEW r \in Owner, Acquired(r)
    PROVE  IInv'
<1>s. Main(r) \in Session /\ StoreInv
  BY Sessions DEF IInv
<1>1. /\ StoreInv'
      /\ row'.owner = r /\ row'.fence = guard'[r]
      /\ guard'[r] \in Nat \ {0}
      /\ guard' = [guard EXCEPT ![r] = guard'[r]]
  BY <1>s, GrantInv DEF Acquired, IInv, TypeOK
<1>2. TypeOK'
  <2>1. StoreTypeOK'
    BY <1>1 DEF StoreInv
  <2>2. guard' \in [Owner -> Nat]
    BY <1>1 DEF IInv, TypeOK
  <2>3. QED
    BY <2>1, <2>2 DEF IInv, TypeOK, Acquired, Phase
<1>3. /\ txn'[Main(r)].step = "idle"
      /\ \A u \in Session \ {Main(r)} : txn'[u] = txn[u]
  BY <1>s, IdleTxnType
     DEF Acquired, AcquireGranted, set_kv_txn, EndTxn, StoreInv, StoreTypeOK
<1>4. /\ phase'[r] = "checking"
      /\ \A q \in Owner : q # r => phase'[q] = phase[q] /\ guard'[q] = guard[q]
  BY DEF Acquired, IInv, TypeOK
<1>5. MainTxnInPhase'
  BY <1>3, <1>4, Sessions DEF IInv, MainTxnInPhase
<1>6. GuardAfterGrant' /\ RowNamesGuard' /\ ReleasedLeaseIsGone'
  BY <1>1, <1>4 DEF IInv, GuardAfterGrant, RowNamesGuard, ReleasedLeaseIsGone
<1>7. BlindRelease'
  BY <1>1, <1>4 DEF BlindRelease
<1>8. QED
  BY <1>1, <1>2, <1>5, <1>6, <1>7 DEF IInv

(* The release deletes the row of its own lease and nothing else.          *)
LEMMA ReleaseInv ==
    ASSUME IInv, NEW r \in Owner, Release(r)
    PROVE  IInv' /\ (row'.owner = row.owner \/ row'.owner = Nobody)
<1>s. Main(r) \in Session /\ StoreInv
  BY Sessions DEF IInv
<1>0. /\ guard' = guard /\ phase[r] = "releasing" /\ phase'[r] = "released"
      /\ \A q \in Owner : q # r => phase'[q] = phase[q]
  BY DEF Release, IInv, TypeOK
<1> DEFINE own == /\ txn[Main(r)].seen.owner = r
                  /\ txn[Main(r)].seen.fence = guard[r]
<1>1. /\ StoreInv'
      /\ \/ row'.owner = row.owner /\ row'.fence = row.fence
         \/ row'.owner = Nobody
      /\ row'.owner # r
      /\ txn'[Main(r)].step = "idle"
      /\ \A u \in Session \ {Main(r)} :
            \/ txn'[u] = txn[u]
            \/ txn[u].step = "waiting" /\ row'.owner = Nobody
  <2>1. CASE own
    <3>1. lock = Main(r) /\ delete_kv_txn(Main(r))
      BY <2>1, <1>s, DeleterHoldsLock DEF Release, release_kv_lease_guard
    <3>2. StoreInv'
      BY <3>1, <1>s, DeleteInv
    <3>3. row'.owner = Nobody /\ txn'[Main(r)].step = "idle"
      BY <3>1, <1>s, EmptyRows, IdleTxnType DEF delete_kv_txn
    <3>4. \A u \in Session \ {Main(r)} :
             txn'[u] = txn[u] \/ txn[u].step = "waiting"
      BY <3>1 DEF delete_kv_txn
    <3>5. QED
      BY <3>2, <3>3, <3>4, NobodyAssumption
  <2>2. CASE ~own
    <3>1. CommitUnchanged(Main(r)) /\ txn[Main(r)].step = "read"
      BY <2>2 DEF Release, release_kv_lease_guard
    <3>2. StoreInv' /\ row' = row
      BY <3>1, <1>s, CommitInv DEF CommitUnchanged
    <3>3. /\ txn'[Main(r)].step = "idle"
          /\ \A u \in Session \ {Main(r)} : txn'[u] = txn[u]
      BY <3>1, <1>s, IdleTxnType DEF CommitUnchanged, EndTxn, StoreInv,
                                     StoreTypeOK
    <3>4. CASE txn[Main(r)].seen.present
      <4>1. txn[Main(r)].seen = row
        BY <3>4, <3>1, <1>s DEF StoreInv, LockedReadIsStable
      <4>2. row.owner # r
        BY <4>1, <2>2 DEF IInv, RowNamesGuard
      <4>3. QED
        BY <4>2, <3>2, <3>3
    <3>5. CASE ~txn[Main(r)].seen.present
      <4>1. row.owner # r
        BY <3>5, <3>1, <1>0 DEF IInv, BlindRelease
      <4>2. QED
        BY <4>1, <3>2, <3>3
    <3>6. QED
      BY <3>4, <3>5
  <2>3. QED
    BY <2>1, <2>2
<1> HIDE DEF own
<1>2. TypeOK'
  <2>1. StoreTypeOK'
    BY <1>1 DEF StoreInv
  <2>2. QED
    BY <2>1 DEF IInv, TypeOK, Release, Phase
<1>3. MainTxnInPhase'
  <2> SUFFICES ASSUME NEW q \in Owner, q # r,
                      phase[q] \in {"new", "checking", "joining", "released",
                                    "done"}
               PROVE  txn'[Main(q)].step = "idle"
    BY <1>0, <1>1 DEF MainTxnInPhase
  <2>1. Main(q) \in Session \ {Main(r)} /\ txn[Main(q)].step = "idle"
    BY Sessions DEF IInv, MainTxnInPhase
  <2>2. QED
    BY <2>1, <1>1
<1>4. GuardAfterGrant' /\ RowNamesGuard' /\ ReleasedLeaseIsGone'
  BY <1>0, <1>1, NobodyAssumption
     DEF IInv, GuardAfterGrant, RowNamesGuard, ReleasedLeaseIsGone
<1>5. BlindRelease'
  <2> SUFFICES ASSUME NEW q \in Owner, q # r, phase[q] = "releasing",
                      txn'[Main(q)].step = "read",
                      ~txn'[Main(q)].seen.present
               PROVE  row'.owner # q
    BY <1>0, <1>1 DEF BlindRelease
  <2>1. Main(q) \in Session \ {Main(r)}
    BY Sessions
  <2>2. CASE row'.owner = Nobody
    BY <2>2, NobodyAssumption
  <2>3. CASE row'.owner = row.owner /\ row'.owner # Nobody
    BY <2>1, <2>3, <1>1 DEF IInv, BlindRelease
  <2>4. QED
    BY <2>2, <2>3, <1>1
<1>6. QED
  BY <1>1, <1>2, <1>3, <1>4, <1>5 DEF IInv

(* The server rolls back both transactions of a dead run.                  *)
LEMMA CrashInv ==
    ASSUME IInv, NEW r \in Owner, Crash(r)
    PROVE  IInv' /\ row'.owner = row.owner
<1>s. /\ Main(r) \in Session /\ Beat(r) \in Session /\ Main(r) # Beat(r)
      /\ StoreInv
  BY Sessions DEF IInv
<1>0. /\ guard' = guard /\ phase'[r] = "done" /\ now' = now
      /\ \A q \in Owner : q # r => phase'[q] = phase[q]
  BY DEF Crash, IInv, TypeOK
<1>1. /\ txn'[Main(r)] = IdleTxn /\ txn'[Beat(r)] = IdleTxn
      /\ \A u \in Session \ {Main(r), Beat(r)} : txn'[u] = txn[u]
      /\ txn' \in [Session -> Txn]
  BY <1>s, IdleTxnType DEF Crash, StoreInv, StoreTypeOK
<1>2. /\ row'.owner = row.owner /\ row'.fence = row.fence
      /\ row'.expires = row.expires /\ row' \in {row, Absent}
      /\ row' # row => UncommittedInsert /\ lock \in {Main(r), Beat(r)}
  <2>1. UncommittedInsert => row = Blank
    BY <1>s DEF UncommittedInsert, StoreInv, FreshTxn, StoreTypeOK
  <2>2. QED
    BY <2>1, EmptyRows DEF Crash
<1>3. StoreInv'
  <2> USE DEF StoreInv
  <2>1. StoreTypeOK'
    BY <1>0, <1>1, <1>2, <1>s, EmptyRows DEF StoreTypeOK, Crash
  <2>2. RowShape'
    BY <1>2, <1>s DEF RowShape
  <2>3. LockHolder'
    BY <1>1, <1>2, <1>s, NoSessionAssumption DEF LockHolder, Crash, StoreTypeOK
  <2>4. FreshTxn'
    BY <1>1, <1>2, <1>s, IdleTxnType DEF FreshTxn, Crash
  <2>5. LockedReadIsStable'
    BY <1>1, <1>2, <1>s, IdleTxnType, EmptyRows DEF LockedReadIsStable, Crash
  <2>6. ReadShape'
    <3>1. \A u \in Session : txn'[u] = txn[u] \/ txn'[u] = IdleTxn
      BY <1>1
    <3>2. 0 <= now
      BY <1>s DEF StoreTypeOK
    <3>3. QED
      BY <3>1, <3>2, <1>0, <1>s, IdleTxnType, EmptyRows DEF ReadShape
  <2>7. TakeoverBounded'
    BY <1>0, <1>2, <1>s DEF TakeoverBounded
  <2>8. QED
    BY <2>1, <2>2, <2>3, <2>4, <2>5, <2>6, <2>7
<1>4. TypeOK'
  <2>1. StoreTypeOK'
    BY <1>3 DEF StoreInv
  <2>2. QED
    BY <2>1 DEF IInv, TypeOK, Crash, Phase
<1>5. MainTxnInPhase' /\ BlindRelease'
  BY <1>0, <1>1, <1>2, Sessions, IdleTxnType
     DEF IInv, MainTxnInPhase, BlindRelease
<1>6. GuardAfterGrant' /\ RowNamesGuard' /\ ReleasedLeaseIsGone'
  BY <1>0, <1>2 DEF IInv, GuardAfterGrant, RowNamesGuard, ReleasedLeaseIsGone
<1>7. QED
  BY <1>2, <1>3, <1>4, <1>5, <1>6 DEF IInv

(* Every step of every run, the clock and a stutter preserve it.           *)
LEMMA NextInv == IInv /\ [Next]_vars => IInv'
<1> SUFFICES ASSUME IInv, [Next]_vars PROVE IInv'
  OBVIOUS
<1>1. CASE Tick /\ UNCHANGED runVars
  <2>1. StoreInv'
    BY <1>1, TickInv DEF IInv
  <2>2. row' = row /\ txn' = txn
    BY <1>1 DEF Tick
  <2>3. TypeOK'
    BY <1>1, <2>1 DEF IInv, TypeOK, StoreInv, runVars
  <2>4. QED
    BY <1>1, <2>1, <2>2, <2>3
       DEF IInv, runVars, MainTxnInPhase, GuardAfterGrant, RowNamesGuard,
           BlindRelease, ReleasedLeaseIsGone
<1>2. ASSUME NEW r \in Owner, MainStep(r) PROVE IInv'
  BY <1>2, LocalStepInv, StatementInv, AcquiredInv, KeepingStepInv, ReleaseInv
     DEF MainStep
<1>3. ASSUME NEW r \in Owner, BeatStep(r) PROVE IInv'
  BY <1>3, LocalStepInv, StatementInv, KeepingStepInv DEF BeatStep
<1>4. ASSUME NEW r \in Owner,
             MainTxnFails(r) \/ HeartbeatWake(r) \/ HeartbeatFails(r) \/ Crash(r)
      PROVE  IInv'
  BY <1>4, LocalStepInv, KeepingStepInv, CrashInv
<1>5. CASE UNCHANGED vars
  BY <1>5 DEF vars, storeVars, runVars, IInv, TypeOK, StoreInv, StoreTypeOK,
              RowShape, LockHolder, FreshTxn, LockedReadIsStable, ReadShape,
              TakeoverBounded, MainTxnInPhase, GuardAfterGrant, RowNamesGuard,
              BlindRelease, ReleasedLeaseIsGone
<1>6. QED
  BY <1>1, <1>2, <1>3, <1>4, <1>5 DEF Next

(* The inductive invariant of the lease row and its runs holds always.     *)
THEOREM Inductive == Spec => []IInv
BY InitInv, NextInv, PTL DEF Spec

(* Every variable keeps its type, for any set of runs.                     *)
THEOREM TypeCorrect == Spec => []TypeOK
<1>1. IInv => TypeOK
  BY DEF IInv
<1>2. QED
  BY <1>1, Inductive, PTL

(* The row lock isolates every lease transaction.                          *)
THEOREM Isolation == Spec => []LockedReadIsStable
<1>1. IInv => LockedReadIsStable
  BY DEF IInv, StoreInv
<1>2. QED
  BY <1>1, Inductive, PTL

(* No lease blocks the others for longer than Ttl from now.                *)
THEOREM Takeover == Spec => []TakeoverBounded
<1>1. IInv => TakeoverBounded
  BY DEF IInv, StoreInv
<1>2. QED
  BY <1>1, Inductive, PTL

(* A released lease does not come back.                                    *)
THEOREM ReleaseIsFinal == Spec => []ReleasedLeaseIsGone
<1>1. IInv => ReleasedLeaseIsGone
  BY DEF IInv
<1>2. QED
  BY <1>1, Inductive, PTL

----------------------------------------------------------------------------
(* What a step does to the owner of the row: nothing, a run is granted the *)
(* lease, or the row is vacated.                                           *)
LEMMA OwnerStep ==
    ASSUME IInv, [Next]_vars
    PROVE  \/ row'.owner = row.owner /\ guard' = guard
           \/ \E r \in Owner : Acquired(r)
           \/ row'.owner = Nobody /\ guard' = guard /\ written' = written
<1>1. CASE \E r \in Owner : Acquired(r)
  BY <1>1
<1>2. ASSUME NEW r \in Owner,
             \/ StartRun(r) \/ NextItem(r) \/ StopWork(r) \/ SkipItem(r)
             \/ JoinHeartbeat(r) \/ HeartbeatStop(r) \/ HeartbeatWake(r)
      PROVE  row'.owner = row.owner /\ guard' = guard
  BY <1>2 DEF StartRun, NextItem, StopWork, SkipItem, JoinHeartbeat,
              HeartbeatStop, HeartbeatWake, storeVars
<1>3. ASSUME NEW r \in Owner, MainStatement(r) \/ BeatStatement(r)
      PROVE  row'.owner = row.owner /\ guard' = guard
  BY <1>3, LeaseKept, Sessions DEF MainStatement, BeatStatement, runVars, IInv
<1>4. ASSUME NEW r \in Owner,
             \/ NotAcquired(r) \/ GuardedWrite(r) \/ WriteLeaseLost(r)
             \/ MainTxnFails(r) \/ HeartbeatRefreshed(r)
             \/ HeartbeatRefused(r) \/ HeartbeatFails(r)
      PROVE  row'.owner = row.owner /\ guard' = guard
  BY <1>4, LeaseKept, RefreshInv, Sessions
     DEF NotAcquired, GuardedWrite, WriteLeaseLost, MainTxnFails,
         HeartbeatRefreshed, HeartbeatRefused, HeartbeatFails, HeartbeatEnds,
         AcquireRefused, GuardedCommit, GuardLost, AbortTxn, IInv
<1>5. ASSUME NEW r \in Owner, Release(r) \/ Crash(r)
      PROVE  /\ row'.owner = row.owner \/ row'.owner = Nobody
             /\ guard' = guard /\ written' = written
  BY <1>5, ReleaseInv, CrashInv DEF Release, Crash
<1>6. CASE (Tick /\ UNCHANGED runVars) \/ UNCHANGED vars
  BY <1>6 DEF Tick, vars, storeVars, runVars
<1>7. QED
  BY <1>1, <1>2, <1>3, <1>4, <1>5, <1>6 DEF Next, MainStep, BeatStep

(* Only an accepted guarded write counts, and it is the row owner's.       *)
LEMMA WriteStep ==
    ASSUME IInv, [Next]_vars, written' # written
    PROVE  \E r \in Owner :
              /\ row.owner = r /\ row'.owner = row.owner /\ guard' = guard
              /\ written' = [written EXCEPT ![r] = @ + 1]
<1>1. PICK r \in Owner : GuardedWrite(r)
  BY DEF Next, MainStep, BeatStep, StartRun, MainStatement, Acquired,
         NotAcquired, NextItem, StopWork, WriteLeaseLost, SkipItem,
         JoinHeartbeat, Release, MainTxnFails, HeartbeatStop, HeartbeatWake,
         BeatStatement, HeartbeatRefreshed, HeartbeatRefused, HeartbeatFails,
         HeartbeatEnds, Crash, runVars, vars, storeVars
<1>2. txn[Main(r)].step = "read" /\ txn[Main(r)].seen.owner = r /\ row' = row
  BY <1>1 DEF GuardedWrite, GuardedCommit, GuardIsCurrent,
              kv_lease_guard_is_current, CommitUnchanged
<1>3. row.owner = r
  BY <1>2, Sessions, DeleterHoldsLock DEF IInv
<1>4. QED
  BY <1>1, <1>2, <1>3 DEF GuardedWrite

(* Every step is one of FencedWriters, or changes nothing it sees.         *)
LEMMA FencedStep == IInv /\ [Next]_vars => [Fenced!Next]_(Fenced!vars)
<1> SUFFICES ASSUME IInv, [Next]_vars
             PROVE  Fenced!Next \/ UNCHANGED Fenced!vars
  OBVIOUS
<1> USE DEF Fenced!Next, Fenced!vars, Fenced!Grant, Fenced!Write, Fenced!Vacate
<1>1. CASE written' # written
  BY <1>1, WriteStep
<1>2. CASE written' = written /\ \E r \in Owner : Acquired(r)
  <2>1. PICK r \in Owner : Acquired(r)
    BY <1>2
  <2>2. /\ row'.owner = r /\ guard[r] = 0 /\ guard'[r] # 0
        /\ \A q \in Owner : q # r => guard'[q] = guard[q]
    BY <2>1, GrantInv, Sessions DEF Acquired, IInv, TypeOK, GuardAfterGrant
  <2>3. {q \in Owner : guard'[q] # 0} = {q \in Owner : guard[q] # 0} \cup {r}
    BY <2>2
  <2>4. Fenced!Grant(r)
    BY <2>2, <2>3, <1>2
  <2>5. QED
    BY <2>4
<1>3. CASE written' = written /\ ~\E r \in Owner : Acquired(r)
  BY <1>3, OwnerStep
<1>4. QED
  BY <1>1, <1>2, <1>3

(* A stale holder's guarded write is never accepted.                       *)
THEOREM Fencing == Spec => FencedSpec
<1>1. Init => Fenced!Init
  BY EmptyRows DEF Init, StoreInit, Fenced!Init
<1>2. QED
  BY <1>1, FencedStep, Inductive, PTL DEF Spec, FencedSpec, Fenced!Spec

(* An active lease is lost only to an acquisition that read no row.        *)
THEOREM ActiveLease == Spec => ActiveLeaseOnlyLostToBlindAcquire
<1>1. ASSUME IInv, [Next]_vars, NEW r \in Owner, NEW q \in Owner,
             lease_is_active(row, now), row.owner = r, row'.owner = q, q # r
      PROVE  ~txn[Main(q)].seen.present
  <2>1. Acquired(q)
    BY <1>1, OwnerStep, GrantInv, Sessions, NobodyAssumption DEF IInv, Acquired
  <2>2. SUFFICES ASSUME txn[Main(q)].seen.present PROVE FALSE
    OBVIOUS
  <2>m. Main(q) \in Session /\ StoreInv
    BY <1>1, Sessions DEF IInv
  <2>3. txn[Main(q)].seen = row /\ txn[Main(q)].at <= now
    BY <2>1, <2>2, <2>m
       DEF Acquired, AcquireGranted, StoreInv, LockedReadIsStable, ReadShape
  <2>4. /\ row.expires \in Nat /\ now \in Nat /\ txn[Main(q)].at \in Nat
        /\ row.expires > now
    BY <1>1, Sessions DEF IInv, StoreInv, StoreTypeOK, KvLeaseRecord, Txn,
                          lease_is_active
  <2>5. HeldByAnother(Main(q), q)
    BY <1>1, <2>3, <2>4, NobodyAssumption DEF HeldByAnother, lease_is_active
  <2>6. QED
    BY <2>1, <2>5 DEF Acquired, AcquireGranted
<1>2. IInv /\ [Next]_vars => [OnlyLostToBlindAcquire]_vars
  BY <1>1 DEF OnlyLostToBlindAcquire
<1>3. QED
  BY <1>2, Inductive, PTL DEF Spec, ActiveLeaseOnlyLostToBlindAcquire

----------------------------------------------------------------------------
(* PlanCacheWriter. *)

(* The sessions of the passes are distinct. *)
LEMMA Connections ==
    ASSUME NEW p \in Owner, NEW q \in Owner
    PROVE  Conn(p) \in Session /\ (p # q => Conn(p) # Conn(q))
BY PassAssumption DEF Conn

PlanInv == StoreInv /\ PlanTypeOK

LEMMA PlanInitInv == PlanInit => PlanInv
<1> SUFFICES ASSUME PlanInit PROVE PlanInv
  OBVIOUS
<1>1. StoreInv
  BY StoreInitInv DEF PlanInit
<1> QED
  BY <1>1 DEF PlanInit, PlanInv, PlanTypeOK, StoreInv

(* A release deletes the row of its own lease, or writes nothing.          *)
LEMMA ReleaseEffect ==
    ASSUME StoreInv, NEW p \in Owner, NEW f,
           release_kv_lease_guard(Conn(p), p, f)
    PROVE  /\ StoreInv'
           /\ \/ /\ row.owner = p /\ lock = Conn(p)
                 /\ delete_kv_txn(Conn(p))
              \/ CommitUnchanged(Conn(p)) /\ row' = row
<1> USE Connections
<1>1. CASE txn[Conn(p)].seen.owner = p /\ txn[Conn(p)].seen.fence = f
  <2>1. delete_kv_txn(Conn(p))
    BY <1>1 DEF release_kv_lease_guard
  <2>2. lock = Conn(p) /\ row.owner = p
    BY <1>1, DeleterHoldsLock DEF release_kv_lease_guard
  <2> QED
    BY <2>1, <2>2, DeleteInv
<1>2. CASE ~(txn[Conn(p)].seen.owner = p /\ txn[Conn(p)].seen.fence = f)
  <2>1. CommitUnchanged(Conn(p))
    BY <1>2 DEF release_kv_lease_guard
  <2> QED
    BY <2>1, CommitInv DEF CommitUnchanged
<1> QED
  BY <1>1, <1>2

LEMMA PlanStep ==
    ASSUME PlanInv, [PlanNext]_planVars
    PROVE  PlanInv'
<1> USE Connections DEF PlanInv
<1>1. ASSUME StoreInv', UNCHANGED <<token, loaded, cache, saved>>, NEW p \in Owner,
             \E a \in {"acquiring", "done", "releasing"} :
                pass' = [pass EXCEPT ![p] = a]
      PROVE  PlanInv'
  BY <1>1 DEF PlanTypeOK, StoreInv
<1>2. ASSUME NEW p \in Owner, StartPass(p) PROVE PlanInv'
  <2>1. StoreInv'
    BY <1>2 DEF StartPass, storeVars, StoreInv, StoreTypeOK, RowShape,
                LockHolder, FreshTxn, LockedReadIsStable, ReadShape,
                TakeoverBounded
  <2> QED BY <1>1, <1>2, <2>1 DEF StartPass
<1>3. ASSUME NEW p \in Owner, PassStatement(p) PROVE PlanInv'
  <2>1. StoreInv'
    BY <1>3, EnsureInv, WaitInv, SelectInv DEF PassStatement
  <2> QED BY <1>3, <2>1 DEF PassStatement, passVars, PlanTypeOK, StoreInv
<1>4. ASSUME NEW p \in Owner, PassAcquires(p) PROVE PlanInv'
  <2>1. /\ StoreInv'
        /\ next_lease_fence_token(txn[Conn(p)].seen) \in Nat
    BY <1>4, GrantInv DEF PassAcquires
  <2>2. pass' \in [Owner -> {"new", "acquiring", "loading", "saving",
                             "releasing", "done"}]
    BY <1>4 DEF PassAcquires, PlanTypeOK
  <2>3. token' \in [Owner -> Nat]
    BY <1>4, <2>1 DEF PassAcquires, PlanTypeOK
  <2> QED BY <1>4, <2>1, <2>2, <2>3 DEF PassAcquires, PlanTypeOK, StoreInv
<1>5. ASSUME NEW p \in Owner, PassRefused(p) \/ PassFails(p) PROVE PlanInv'
  <2>1. StoreInv'
    BY <1>5, RollbackInv DEF PassRefused, PassFails, AcquireRefused, AbortTxn
  <2> QED BY <1>1, <1>5, <2>1 DEF PassRefused, PassFails
<1>6. ASSUME NEW p \in Owner, LoadPlan(p) \/ SavePlan(p) PROVE PlanInv'
  <2>1. StoreInv'
    BY <1>6 DEF LoadPlan, SavePlan, storeVars, StoreInv, StoreTypeOK, RowShape,
                LockHolder, FreshTxn, LockedReadIsStable, ReadShape,
                TakeoverBounded
  <2> QED BY <1>6, <2>1 DEF LoadPlan, SavePlan, PlanTypeOK, StoreInv
<1>7. ASSUME NEW p \in Owner, ReleasePass(p) PROVE PlanInv'
  <2>1. StoreInv'
    BY <1>7, ReleaseEffect DEF ReleasePass
  <2> QED BY <1>1, <1>7, <2>1 DEF ReleasePass
<1>8. ASSUME Tick, UNCHANGED passVars PROVE PlanInv'
  BY <1>8, TickInv DEF passVars, PlanTypeOK, StoreInv
<1>9. ASSUME UNCHANGED planVars PROVE PlanInv'
  BY <1>9 DEF planVars, passVars, storeVars, PlanTypeOK, StoreInv, StoreTypeOK,
              RowShape, LockHolder, FreshTxn, LockedReadIsStable, ReadShape,
              TakeoverBounded
<1> QED
  BY <1>2, <1>3, <1>4, <1>5, <1>6, <1>7, <1>8, <1>9 DEF PlanNext

(* While the lease is kept, the pass that loaded the cache is the one the  *)
(* row names, so it is alone and saves over what it loaded.                *)
LoaderIsOwner == \A p \in Owner : Writing(p) => row.owner = p
LoadedIsCache == \A p \in Owner : pass[p] = "saving" => loaded[p] = cache

KeepInv == LoaderIsOwner /\ LoadedIsCache /\ NoClobberedVerdicts

LEMMA KeepInit == PlanInit => KeepInv
BY DEF PlanInit, KeepInv, LoaderIsOwner, LoadedIsCache, NoClobberedVerdicts,
       Writing

LEMMA KeepStep ==
    ASSUME ~LoadFails, PlanInv, KeepInv, [PlanNext]_planVars, ~StealsLease
    PROVE  KeepInv'
<1> USE Connections DEF KeepInv, LoaderIsOwner, LoadedIsCache,
        NoClobberedVerdicts, Writing
<1>0. pass \in [Owner -> {"new", "acquiring", "loading", "saving",
                          "releasing", "done"}]
      /\ loaded \in [Owner -> SUBSET Owner] /\ StoreInv
  BY DEF PlanInv, PlanTypeOK
<1>1. ASSUME NEW p \in Owner, UNCHANGED <<loaded, cache, saved>>,
             \E a \in {"acquiring", "done"} : pass' = [pass EXCEPT ![p] = a],
             row'.owner = row.owner
      PROVE  KeepInv'
  BY <1>0, <1>1
<1>2. ASSUME NEW p \in Owner, StartPass(p) PROVE KeepInv'
  BY <1>1, <1>2 DEF StartPass, storeVars
<1>3. ASSUME NEW p \in Owner, PassStatement(p) PROVE KeepInv'
  <2>1. row'.owner = row.owner
    BY <1>0, <1>3, LeaseKept DEF PassStatement
  <2> QED BY <1>3, <2>1 DEF PassStatement, passVars
<1>4. ASSUME NEW p \in Owner, PassAcquires(p) PROVE KeepInv'
  <2>1. row'.owner = p
    BY <1>0, <1>4, GrantInv DEF PassAcquires
  <2>2. \A q \in Owner \ {p} : ~Writing(q)
    BY <2>1 DEF StealsLease
  <2>3. \A q \in Owner \ {p} : ~Writing(q)' /\ pass'[q] # "saving"
    BY <1>0, <1>4, <2>2 DEF PassAcquires
  <2> QED BY <1>0, <1>4, <2>1, <2>3 DEF PassAcquires
<1>5. ASSUME NEW p \in Owner, PassRefused(p) \/ PassFails(p) PROVE KeepInv'
  <2>1. row'.owner = row.owner
    BY <1>0, <1>5, LeaseKept DEF PassRefused, PassFails, AcquireRefused, AbortTxn
  <2> QED BY <1>1, <1>5, <2>1 DEF PassRefused, PassFails
<1>6. ASSUME NEW p \in Owner, LoadPlan(p) PROVE KeepInv'
  <2>1. loaded' = [loaded EXCEPT ![p] = cache]
    BY <1>6 DEF LoadPlan
  <2> QED BY <1>0, <1>6, <2>1 DEF LoadPlan, storeVars
<1>7. ASSUME NEW p \in Owner, SavePlan(p) PROVE KeepInv'
  <2>1. \A q \in Owner \ {p} : pass[q] # "saving" /\ ~Writing(q)
    BY <1>7 DEF SavePlan
  <2>2. loaded[p] = cache
    BY <1>7 DEF SavePlan
  <2> QED BY <1>0, <1>7, <2>1, <2>2 DEF SavePlan, storeVars
<1>8. ASSUME NEW p \in Owner, ReleasePass(p) PROVE KeepInv'
  <2>1. row.owner = p \/ row' = row
    BY <1>0, <1>8, ReleaseEffect DEF ReleasePass
  <2>2. \A q \in Owner \ {p} : Writing(q) => row'.owner = q
    BY <2>1
  <2> QED BY <1>0, <1>8, <2>2 DEF ReleasePass
<1>9. ASSUME UNCHANGED <<passVars, row>> PROVE KeepInv'
  BY <1>9 DEF passVars
<1> QED
  BY <1>2, <1>3, <1>4, <1>5, <1>6, <1>7, <1>8, <1>9
  DEF PlanNext, Tick, planVars, storeVars

(* NoClobberedVerdicts, for any number of passes, leases that expire and   *)
(* statements that fail: as long as no pass is granted the lease of one    *)
(* that is between its load and its save (LeaseIsKept), and loads succeed, *)
(* no verdict is lost, although the save is not guarded by the lease.      *)
THEOREM VerdictsAreKeptWithTheLease ==
    ASSUME ~LoadFails
    PROVE  PlanSpec /\ LeaseIsKept => []NoClobberedVerdicts
<1>1. KeepInv => NoClobberedVerdicts
  BY DEF KeepInv
<1>2. [PlanNext]_planVars /\ [~StealsLease]_planVars /\ PlanInv /\ KeepInv
         => KeepInv'
  <2>1. CASE UNCHANGED planVars
    BY <2>1 DEF planVars, passVars, storeVars, KeepInv, LoaderIsOwner,
                LoadedIsCache, NoClobberedVerdicts, Writing
  <2>2. CASE ~StealsLease
    BY <2>2, KeepStep
  <2> QED BY <2>1, <2>2
<1>3. PlanInv /\ [PlanNext]_planVars => PlanInv'
  BY PlanStep
<1> QED
  BY <1>1, <1>2, <1>3, PlanInitInv, KeepInit, PTL DEF PlanSpec, LeaseIsKept

(* What keeps the lease: two passes, neither of which outlives its lease.  *)
TwoPasses == \A p, q, r \in Owner : p = q \/ q = r \/ p = r
InTime == MaxTime < Ttl

(* The select of a pass that is acquiring has returned no row, or would.   *)
Unseen(p) ==
    /\ pass[p] = "acquiring"
    /\ \/ txn[Conn(p)].step \in {"ensured", "waiting"} /\ ~Visible(Conn(p))
       \/ txn[Conn(p)].step = "read" /\ ~txn[Conn(p)].seen.present

NewIsIdle == \A p \in Owner : pass[p] = "new" => txn[Conn(p)].step = "idle"

(* Only the release of another pass makes a row go away, and with two      *)
(* passes that was the last thing anybody else did.                        *)
UnseenIsAlone ==
    \A p \in Owner : Unseen(p) =>
        row.owner = Nobody /\ \A q \in Owner \ {p} : pass[q] = "done"

LeasesLast == now <= MaxTime /\ (row.owner # Nobody => row.expires >= Ttl)

PairInv == NewIsIdle /\ UnseenIsAlone /\ LeasesLast

LEMMA PairInit == PlanInit => PairInv
BY EmptyRows, IdleTxnType, Connections, MaxTimeAssumption
DEF PlanInit, StoreInit, PairInv, NewIsIdle, UnseenIsAlone, Unseen, LeasesLast

(* What the lease operations of one session leave alone.                   *)
LEMMA OthersTxn ==
    ASSUME StoreInv, NEW s \in Session, NEW t \in Session \ {s},
           \/ ensure_kv_row_exists_txn(s) \/ WaitForRowLock(s)
           \/ get_kv_for_update_txn(s) \/ EndTxn(s)
    PROVE  txn'[t] = txn[t]
BY DEF ensure_kv_row_exists_txn, WaitForRowLock, get_kv_for_update_txn, EndTxn,
       StoreInv, StoreTypeOK

(* A row that a session can see goes away only when another deletes it.    *)
LEMMA SeenStays ==
    ASSUME StoreInv, NEW s \in Session, NEW t \in Session \ {s}, Visible(t),
           \/ ensure_kv_row_exists_txn(s) \/ WaitForRowLock(s)
           \/ get_kv_for_update_txn(s) \/ Rollback(s) \/ CommitUnchanged(s)
           \/ \E v \in KvLeaseRecord : v.present /\ set_kv_txn(s, v)
    PROVE  Visible(t)'
<1> USE NoSessionAssumption, IdleTxnType
<1>0. /\ row.present /\ txn \in [Session -> Txn]
      /\ lock \in Session \cup {NoSession}
      /\ \A u \in Session : txn[u].fresh => lock = u
      /\ ~txn[s].fresh
  BY DEF Visible, UncommittedInsert, StoreInv, StoreTypeOK, FreshTxn
<1>1. CASE ensure_kv_row_exists_txn(s)
  <2>1. row' = row /\ lock' = lock /\ \A u \in Session : txn'[u].fresh => txn[u].fresh
    BY <1>0, <1>1 DEF ensure_kv_row_exists_txn, Txn
  <2> QED BY <1>0, <2>1 DEF Visible, UncommittedInsert
<1>2. CASE WaitForRowLock(s) \/ get_kv_for_update_txn(s)
  <2>1. /\ row' = row /\ lock' \in {lock, s}
        /\ \A u \in Session : txn'[u].fresh = txn[u].fresh
    BY <1>0, <1>2 DEF WaitForRowLock, get_kv_for_update_txn, Txn
  <2> QED BY <1>0, <2>1 DEF Visible, UncommittedInsert
<1>3. CASE Rollback(s) \/ CommitUnchanged(s)
  <2>1. /\ row' = row /\ lock' \in {lock, NoSession}
        /\ \A u \in Session : txn'[u].fresh => txn[u].fresh
    BY <1>0, <1>3 DEF Rollback, CommitUnchanged, EndTxn, Txn
  <2> QED BY <1>0, <2>1 DEF Visible, UncommittedInsert
<1>4. CASE \E v \in KvLeaseRecord : v.present /\ set_kv_txn(s, v)
  <2>1. row'.present /\ lock' = NoSession
    BY <1>0, <1>4 DEF set_kv_txn, EndTxn
  <2> QED BY <2>1 DEF Visible, UncommittedInsert
<1> QED BY <1>1, <1>2, <1>3, <1>4

(* What a session that sees the row reads is a row; without one it has     *)
(* nobody's lease before it.                                               *)
LEMMA OwnStatement ==
    ASSUME StoreInv, NEW s \in Session,
           \/ ensure_kv_row_exists_txn(s) \/ WaitForRowLock(s)
           \/ get_kv_for_update_txn(s)
    PROVE  /\ row'.owner = row.owner /\ row'.expires = row.expires
           /\ txn[s].step = "idle" => Visible(s)' /\ txn'[s].step = "ensured"
           /\ txn[s].step \in {"ensured", "waiting"} /\ Visible(s) =>
                 \/ Visible(s)' /\ txn'[s].step = "waiting"
                 \/ txn'[s].step = "read" /\ txn'[s].seen.present
           /\ txn[s].step # "read"
<1> USE NoSessionAssumption, IdleTxnType, EmptyRows
<1>0. /\ txn \in [Session -> Txn] /\ row \in KvLeaseRecord
      /\ lock \in Session \cup {NoSession}
      /\ RowShape /\ LockHolder
  BY DEF StoreInv, StoreTypeOK
<1>1. CASE ensure_kv_row_exists_txn(s)
  <2>1. lock # s
    BY <1>0, <1>1 DEF LockHolder, ensure_kv_row_exists_txn
  <2>2. CASE row.present
    <3>1. row' = row /\ lock' = lock /\ txn'[s].step = "ensured"
          /\ \A u \in Session \ {s} : txn'[u] = txn[u]
      BY <1>0, <1>1, <2>2 DEF ensure_kv_row_exists_txn, Txn
    <3>2. Visible(s)'
      BY <1>0, <1>1, <2>1, <2>2, <3>1
      DEF Visible, UncommittedInsert, ensure_kv_row_exists_txn
    <3> QED BY <1>1, <3>1, <3>2 DEF ensure_kv_row_exists_txn
  <2>3. CASE ~row.present
    <3>1. row' = Blank /\ lock' = s /\ txn'[s].step = "ensured"
      BY <1>0, <1>1, <2>3 DEF ensure_kv_row_exists_txn, Txn
    <3> QED BY <1>0, <1>1, <2>3, <3>1
            DEF RowShape, Visible, ensure_kv_row_exists_txn
  <2> QED BY <2>2, <2>3
<1>2. CASE WaitForRowLock(s)
  <2>1. /\ row' = row /\ lock' = lock /\ txn'[s].step = "waiting"
        /\ \A u \in Session : txn'[u].fresh = txn[u].fresh
        /\ txn[s].step = "ensured"
    BY <1>0, <1>2 DEF WaitForRowLock, Txn
  <2> QED BY <1>0, <2>1 DEF Visible, UncommittedInsert
<1>3. CASE get_kv_for_update_txn(s)
  <2>1. /\ row' = row /\ txn'[s].step = "read"
        /\ txn[s].step \in {"ensured", "waiting"}
        /\ Visible(s) => txn'[s].seen = row
    BY <1>0, <1>3 DEF get_kv_for_update_txn, Txn
  <2> QED BY <2>1 DEF Visible
<1> QED BY <1>1, <1>2, <1>3

(* A step of another pass makes no pass unseen, except that its release    *)
(* deletes the row: then there is nobody else.                             *)
LEMMA OtherPass ==
    ASSUME TwoPasses, PlanInv, PairInv, NEW p \in Owner, NEW r \in Owner \ {p},
           \/ StartPass(r) \/ PassStatement(r) \/ PassAcquires(r)
           \/ PassRefused(r) \/ LoadPlan(r) \/ SavePlan(r) \/ ReleasePass(r)
           \/ PassFails(r),
           Unseen(p)'
    PROVE  row'.owner = Nobody /\ \A q \in Owner \ {p} : pass'[q] = "done"
<1> USE DEF PlanInv
<1>0. /\ Conn(p) \in Session /\ Conn(r) \in Session \ {Conn(p)}
      /\ pass \in [Owner -> {"new", "acquiring", "loading", "saving",
                              "releasing", "done"}]
  BY Connections DEF PlanTypeOK
<1>1. pass'[p] = pass[p] /\ pass[r] # "done"
  BY <1>0 DEF StartPass, PassStatement, PassAcquires, PassRefused, LoadPlan,
              SavePlan, ReleasePass, PassFails, passVars
<1>2. pass[p] = "acquiring" /\ ~Unseen(p)
  BY <1>1 DEF Unseen, PairInv, UnseenIsAlone
<1>3. ASSUME txn'[Conn(p)] = txn[Conn(p)], Visible(Conn(p)) => Visible(Conn(p))'
      PROVE  FALSE
  BY <1>2, <1>3 DEF Unseen
<1>4. CASE StartPass(r) \/ LoadPlan(r) \/ SavePlan(r)
  BY <1>3, <1>4
  DEF StartPass, LoadPlan, SavePlan, storeVars, Visible, UncommittedInsert
<1>5. CASE PassStatement(r)
  <2>1. \/ ensure_kv_row_exists_txn(Conn(r)) \/ WaitForRowLock(Conn(r))
        \/ get_kv_for_update_txn(Conn(r))
    BY <1>5 DEF PassStatement
  <2>2. txn'[Conn(p)] = txn[Conn(p)]
    BY <1>0, <2>1, OthersTxn
  <2>3. Visible(Conn(p)) => Visible(Conn(p))'
    BY <1>0, <2>1, SeenStays
  <2> QED
    BY <1>3, <2>2, <2>3
<1>6. CASE PassAcquires(r)
  <2>1. set_kv_txn(Conn(r), [present |-> TRUE, owner |-> r,
            expires |-> txn[Conn(r)].at + Ttl,
            fence |-> next_lease_fence_token(txn[Conn(r)].seen)])
    BY <1>6 DEF PassAcquires, AcquireGranted
  <2>2. EndTxn(Conn(r)) /\ row'.present /\ lock' = NoSession
    BY <2>1, <1>0 DEF set_kv_txn, EndTxn
  <2>3. Visible(Conn(p))'
    BY <2>2 DEF Visible, UncommittedInsert
  <2> QED
    BY <1>0, <1>3, <2>2, <2>3, OthersTxn
<1>7. CASE PassRefused(r) \/ PassFails(r)
  <2>1. Rollback(Conn(r)) /\ EndTxn(Conn(r))
    BY <1>7 DEF PassRefused, PassFails, AcquireRefused, AbortTxn, Rollback
  <2> QED
    BY <1>0, <1>3, <2>1, OthersTxn, SeenStays
<1>8. CASE ReleasePass(r)
  <2>1. CASE delete_kv_txn(Conn(r))
    <3>1. row'.owner = Nobody
      BY <2>1, EmptyRows DEF delete_kv_txn
    <3>2. pass'[r] = "done" /\ \A q \in Owner \ {p} : q = r
      BY <1>0, <1>8 DEF ReleasePass, TwoPasses
    <3> QED BY <3>1, <3>2
  <2>2. CASE CommitUnchanged(Conn(r))
    <3>1. EndTxn(Conn(r))
      BY <2>2 DEF CommitUnchanged
    <3> QED
      BY <1>0, <1>3, <2>2, <3>1, OthersTxn, SeenStays
  <2> QED
    BY <1>0, <1>8, <2>1, <2>2, ReleaseEffect DEF ReleasePass
<1> QED
  BY <1>4, <1>5, <1>6, <1>7, <1>8

(* Its own step makes no pass unseen.                                      *)
LEMMA OwnPass ==
    ASSUME PlanInv, PairInv, NEW p \in Owner,
           \/ StartPass(p) \/ PassStatement(p) \/ PassAcquires(p)
           \/ PassRefused(p) \/ LoadPlan(p) \/ SavePlan(p) \/ ReleasePass(p)
           \/ PassFails(p),
           Unseen(p)'
    PROVE  row'.owner = Nobody /\ \A q \in Owner \ {p} : pass'[q] = "done"
<1> USE DEF PlanInv
<1>0. /\ Conn(p) \in Session /\ txn[Conn(p)] \in Txn
      /\ pass \in [Owner -> {"new", "acquiring", "loading", "saving",
                              "releasing", "done"}]
  BY Connections DEF PlanTypeOK, StoreTypeOK
<1>1. pass'[p] = "acquiring"
  BY DEF Unseen
<1>2. CASE StartPass(p)
  BY <1>0, <1>2 DEF StartPass, storeVars, Unseen, PairInv, NewIsIdle
<1>3. CASE PassStatement(p)
  <2>1. pass' = pass /\ pass[p] = "acquiring"
    BY <1>1, <1>3 DEF PassStatement, passVars
  <2>2. Unseen(p)
    <3>1. txn[Conn(p)].step \in {"ensured", "waiting"} /\ ~Visible(Conn(p))
      BY <1>0, <1>3, OwnStatement DEF PassStatement, Unseen, Txn
    <3> QED BY <2>1, <3>1 DEF Unseen
  <2>3. row.owner = Nobody /\ \A q \in Owner \ {p} : pass[q] = "done"
    BY <2>2 DEF PairInv, UnseenIsAlone
  <2>4. row'.owner = row.owner
    BY <1>0, <1>3, OwnStatement DEF PassStatement
  <2> QED BY <2>1, <2>3, <2>4
<1>4. CASE \/ PassAcquires(p) \/ PassRefused(p) \/ LoadPlan(p) \/ SavePlan(p)
           \/ ReleasePass(p) \/ PassFails(p)
  BY <1>0, <1>1, <1>4 DEF PassAcquires, PassRefused, LoadPlan, SavePlan,
                          ReleasePass, PassFails
<1> QED
  BY <1>2, <1>3, <1>4

LEMMA AloneStep ==
    ASSUME TwoPasses, PlanInv, PairInv, [PlanNext]_planVars
    PROVE  UnseenIsAlone'
<1> SUFFICES ASSUME NEW p \in Owner, Unseen(p)'
             PROVE  row'.owner = Nobody
                    /\ \A q \in Owner \ {p} : pass'[q] = "done"
  BY DEF UnseenIsAlone
<1>1. ASSUME UNCHANGED <<passVars, row, lock, txn>>
      PROVE  row'.owner = Nobody /\ \A q \in Owner \ {p} : pass'[q] = "done"
  BY <1>1 DEF passVars, PairInv, UnseenIsAlone, Unseen, Visible,
              UncommittedInsert
<1>2. ASSUME NEW r \in Owner,
             \/ StartPass(r) \/ PassStatement(r) \/ PassAcquires(r)
             \/ PassRefused(r) \/ LoadPlan(r) \/ SavePlan(r) \/ ReleasePass(r)
             \/ PassFails(r)
      PROVE  row'.owner = Nobody /\ \A q \in Owner \ {p} : pass'[q] = "done"
  BY <1>2, OtherPass, OwnPass
<1> QED
  BY <1>1, <1>2 DEF PlanNext, Tick, planVars, storeVars

LEMMA PairStep ==
    ASSUME TwoPasses, InTime, PlanInv, PairInv, [PlanNext]_planVars
    PROVE  PairInv'
<1> USE Connections, TtlAssumption, MaxTimeAssumption DEF PlanInv, PairInv
<1>0. /\ pass \in [Owner -> {"new", "acquiring", "loading", "saving",
                              "releasing", "done"}]
      /\ now \in Nat /\ row \in KvLeaseRecord /\ txn \in [Session -> Txn]
  BY DEF PlanTypeOK, StoreTypeOK
<1>1. NewIsIdle'
  <2> SUFFICES ASSUME NEW p \in Owner, pass'[p] = "new"
               PROVE  txn'[Conn(p)].step = "idle"
    BY DEF NewIsIdle
  <2>1. pass[p] = "new" /\ txn[Conn(p)].step = "idle"
    BY <1>0 DEF NewIsIdle, PlanNext, StartPass, PassStatement, PassAcquires,
                PassRefused, LoadPlan, SavePlan, ReleasePass, PassFails,
                planVars, passVars
  <2>2. ASSUME UNCHANGED <<passVars, txn>> \/ UNCHANGED txn
        PROVE  txn'[Conn(p)].step = "idle"
    BY <2>1, <2>2
  <2>3. ASSUME NEW r \in Owner,
               \/ PassStatement(r) \/ PassAcquires(r) \/ PassRefused(r)
               \/ ReleasePass(r) \/ PassFails(r)
        PROVE  txn'[Conn(p)].step = "idle"
    <3>1. r # p
      BY <1>0, <2>1, <2>3 DEF PassStatement, PassAcquires, PassRefused, passVars,
                              ReleasePass, PassFails
    <3>2. CASE PassStatement(r)
      BY <2>1, <3>1, <3>2, OthersTxn DEF PassStatement
    <3>3. CASE PassAcquires(r) \/ PassRefused(r) \/ PassFails(r)
      <4>1. EndTxn(Conn(r))
        BY <3>3 DEF PassAcquires, PassRefused, PassFails, AcquireGranted,
                    AcquireRefused, AbortTxn, Rollback, set_kv_txn
      <4> QED BY <2>1, <3>1, <4>1, OthersTxn
    <3>4. CASE ReleasePass(r)
      <4>1. CASE delete_kv_txn(Conn(r))
        BY <1>0, <2>1, <3>1, <4>1 DEF delete_kv_txn
      <4>2. CASE CommitUnchanged(Conn(r))
        BY <2>1, <3>1, <4>2, OthersTxn DEF CommitUnchanged
      <4> QED BY <3>4, <4>1, <4>2, ReleaseEffect DEF ReleasePass
    <3> QED BY <2>3, <3>2, <3>3, <3>4
  <2> QED
    BY <2>2, <2>3 DEF PlanNext, Tick, StartPass, LoadPlan, SavePlan, planVars,
                      storeVars
<1>2. LeasesLast'
  <2>1. ASSUME row'.owner = row.owner, row'.expires = row.expires, now' <= MaxTime
        PROVE  LeasesLast'
    BY <2>1 DEF LeasesLast
  <2>2. ASSUME NEW r \in Owner, PassStatement(r) PROVE LeasesLast'
    <3>1. row'.owner = row.owner /\ row'.expires = row.expires
      BY <2>2, OwnStatement DEF PassStatement
    <3>2. now' = now
      BY <2>2 DEF PassStatement, ensure_kv_row_exists_txn, WaitForRowLock,
                  get_kv_for_update_txn
    <3> QED BY <2>1, <3>1, <3>2 DEF LeasesLast
  <2>3. ASSUME NEW r \in Owner, PassAcquires(r) PROVE LeasesLast'
    <3>1. row'.expires = txn[Conn(r)].at + Ttl /\ now' = now
      BY <2>3 DEF PassAcquires, AcquireGranted, set_kv_txn
    <3>2. txn[Conn(r)].at \in Nat
      BY <1>0 DEF Txn
    <3> QED BY <3>1, <3>2 DEF LeasesLast
  <2>4. ASSUME NEW r \in Owner, PassRefused(r) \/ PassFails(r)
        PROVE  LeasesLast'
    <3>1. Rollback(Conn(r)) /\ now' = now
      BY <2>4 DEF PassRefused, PassFails, AcquireRefused, AbortTxn, Rollback
    <3>2. row' = row \/ row'.owner = Nobody
      BY <3>1, EmptyRows DEF Rollback
    <3> QED BY <3>1, <3>2 DEF LeasesLast
  <2>5. ASSUME NEW r \in Owner, ReleasePass(r) PROVE LeasesLast'
    <3>1. row' = row \/ row'.owner = Nobody
      BY <2>5, ReleaseEffect, EmptyRows DEF ReleasePass, delete_kv_txn
    <3>2. now' = now
      BY <2>5, ReleaseEffect DEF ReleasePass, delete_kv_txn, CommitUnchanged
    <3> QED BY <3>1, <3>2 DEF LeasesLast
  <2>6. ASSUME Tick PROVE LeasesLast'
    BY <1>0, <2>1, <2>6 DEF Tick
  <2>7. ASSUME UNCHANGED <<now, row>> PROVE LeasesLast'
    BY <2>7 DEF LeasesLast
  <2> QED
    BY <2>2, <2>3, <2>4, <2>5, <2>6, <2>7
    DEF PlanNext, StartPass, LoadPlan, SavePlan, planVars, storeVars
<1> QED
  BY <1>1, <1>2, AloneStep

(* Whoever is granted the lease of another pass saw no row, or saw one     *)
(* whose lease had run out.                                                *)
LEMMA Stolen ==
    ASSUME PlanInv, [PlanNext]_planVars, NEW p \in Owner, NEW q \in Owner,
           p # q, row.owner = q, row'.owner = p
    PROVE  /\ PassAcquires(p) /\ txn[Conn(p)].step = "read"
           /\ txn[Conn(p)].seen.present => ~lease_is_active(row, now)
<1> USE Connections, NobodyAssumption DEF PlanInv
<1>0. now \in Nat /\ txn \in [Session -> Txn] /\ row \in KvLeaseRecord
  BY DEF PlanTypeOK, StoreTypeOK
<1>1. ASSUME NEW r \in Owner, PassAcquires(r)
      PROVE  /\ PassAcquires(p) /\ txn[Conn(p)].step = "read"
             /\ txn[Conn(p)].seen.present => ~lease_is_active(row, now)
  <2>1. p = r /\ txn[Conn(p)].step = "read" /\ ~HeldByAnother(Conn(p), p)
    BY <1>1 DEF PassAcquires, AcquireGranted, set_kv_txn
  <2>2. ASSUME txn[Conn(p)].seen.present
        PROVE  ~lease_is_active(row, now)
    <3>1. txn[Conn(p)].seen = row /\ txn[Conn(p)].at <= now
      BY <2>1, <2>2 DEF StoreInv, LockedReadIsStable, ReadShape
    <3>2. txn[Conn(p)].at \in Nat /\ row.expires \in Nat
      BY <1>0 DEF Txn, KvLeaseRecord
    <3>3. ~lease_is_active(row, txn[Conn(p)].at)
      BY <2>1, <3>1 DEF HeldByAnother
    <3> QED BY <1>0, <3>1, <3>2, <3>3 DEF lease_is_active
  <2> QED BY <1>1, <2>1, <2>2
<1>2. row'.owner \notin {row.owner, Nobody}
  OBVIOUS
<1>3. ASSUME NEW r \in Owner, PassStatement(r) PROVE FALSE
  BY <1>2, <1>3, OwnStatement DEF PassStatement
<1>4. ASSUME NEW r \in Owner, PassRefused(r) \/ PassFails(r) PROVE FALSE
  BY <1>2, <1>4, EmptyRows DEF PassRefused, PassFails, AcquireRefused, AbortTxn,
                              Rollback
<1>5. ASSUME NEW r \in Owner, ReleasePass(r) PROVE FALSE
  BY <1>2, <1>5, ReleaseEffect, EmptyRows DEF ReleasePass, delete_kv_txn
<1> QED
  BY <1>1, <1>2, <1>3, <1>4, <1>5
  DEF PlanNext, Tick, StartPass, LoadPlan, SavePlan, planVars, storeVars

(* Any number of passes: a lease that has not run out is granted to        *)
(* another only if its acquisition read no row                             *)
(* (acquire_kv_lease_guard, which decides on a row that get_kv_for_update  *)
(* found absent without having locked anything).                           *)
THEOREM ActiveLeaseIsLostBlindly ==
    PlanSpec => [][\A p, q \in Owner :
                      (/\ p # q /\ row.owner = q /\ row'.owner = p
                       /\ lease_is_active(row, now))
                         => ~txn[Conn(p)].seen.present]_planVars
<1>1. ASSUME PlanInv, [PlanNext]_planVars
      PROVE  \A p, q \in Owner :
                (/\ p # q /\ row.owner = q /\ row'.owner = p
                 /\ lease_is_active(row, now))
                   => ~txn[Conn(p)].seen.present
  <2> SUFFICES ASSUME NEW p \in Owner, NEW q \in Owner, p # q,
                      row.owner = q, row'.owner = p, lease_is_active(row, now)
               PROVE  ~txn[Conn(p)].seen.present
    OBVIOUS
  <2> QED
    BY <1>1, Stolen
<1>2. PlanInv /\ [PlanNext]_planVars => PlanInv'
  BY PlanStep
<1> QED
  BY <1>1, <1>2, PlanInitInv, PTL DEF PlanSpec

(* A lease that is held has not run out, and a pass that read no row is    *)
(* the only one left.                                                      *)
LEMMA NothingIsStolen ==
    ASSUME InTime, PlanInv, PairInv, [PlanNext]_planVars
    PROVE  ~StealsLease
<1> SUFFICES ASSUME NEW p \in Owner, NEW q \in Owner, p # q, Writing(q),
                    row.owner = q, row'.owner = p
             PROVE  FALSE
  BY DEF StealsLease
<1>1. /\ PassAcquires(p) /\ txn[Conn(p)].step = "read"
      /\ txn[Conn(p)].seen.present => ~lease_is_active(row, now)
  BY Stolen
<1>2. lease_is_active(row, now)
  <2>1. now \in Nat /\ row.expires \in Nat
    BY DEF PlanInv, PlanTypeOK, StoreTypeOK, KvLeaseRecord
  <2>2. now <= MaxTime /\ row.expires >= Ttl
    BY NobodyAssumption DEF PairInv, LeasesLast
  <2> QED
    BY <2>1, <2>2, TtlAssumption, MaxTimeAssumption, NobodyAssumption
    DEF InTime, lease_is_active
<1>3. Unseen(p)
  BY <1>1, <1>2 DEF PassAcquires, Unseen
<1> QED
  BY <1>3, NobodyAssumption DEF PairInv, UnseenIsAlone

(* LeaseIsKept for two passes that end before their leases do: although    *)
(* the row is deleted on release and an absent row locks nothing, neither  *)
(* is granted the lease of the other.  A third pass is what the deletion   *)
(* lets in (finding on kv_leases.rs, get_kv_for_update_txn).               *)
THEOREM TwoPassesKeepTheLease ==
    ASSUME TwoPasses, InTime
    PROVE  PlanSpec => LeaseIsKept
<1>1. PlanInit => PlanInv /\ PairInv
  BY PlanInitInv, PairInit
<1>2. PlanInv /\ PairInv /\ [PlanNext]_planVars => PlanInv' /\ PairInv'
  BY PlanStep, PairStep
<1>3. PlanInv /\ PairInv /\ [PlanNext]_planVars => [~StealsLease]_planVars
  BY NothingIsStolen
<1> QED
  BY <1>1, <1>2, <1>3, PTL DEF PlanSpec, LeaseIsKept

(* NoClobberedVerdicts for two passes that end before their leases do and  *)
(* whose loads succeed: what the comment of                                *)
(* update_reflect_followup_plan_cache_guarded promises for any number.     *)
THEOREM TwoPassesKeepVerdicts ==
    ASSUME TwoPasses, InTime, ~LoadFails
    PROVE  PlanSpec => []NoClobberedVerdicts
<1>1. PlanSpec => LeaseIsKept
  BY TwoPassesKeepTheLease
<1>2. PlanSpec /\ LeaseIsKept => []NoClobberedVerdicts
  BY VerdictsAreKeptWithTheLease
<1> QED
  BY <1>1, <1>2, PTL

(* The types of the plan cache and its passes, and of the lease store.     *)
THEOREM PlanTypeCorrect == PlanSpec => []PlanTypeOK
<1>1. PlanInv => PlanTypeOK
  BY DEF PlanInv
<1>2. PlanInv /\ [PlanNext]_planVars => PlanInv'
  BY PlanStep
<1> QED
  BY <1>1, <1>2, PlanInitInv, PTL DEF PlanSpec
=============================================================================
