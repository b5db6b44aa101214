---------------------- MODULE SentinelWatchers_proofs ----------------------
(***************************************************************************)
(* Proofs about SentinelWatchers: the types, that no wakeup is lost, that  *)
(* polls keep their distance, that verdicts are final and that a one-shot  *)
(* definition fires once in the life of a process.                         *)
(*                                                                         *)
(* None but NoLostWakeup is inductive.  The poller acts on what it read    *)
(* earlier (the due watchers, the clone of begin_poll) while users replace *)
(* and delete the watchers, and a restart brings back whatever row was     *)
(* written last.  The argument rests on the number of a definition: it is  *)
(* given out once, and wherever a copy of the watcher lies (in the map, in *)
(* a row, in a snapshot on its way there, in the clone) it stays with the  *)
(* same id and the same repeat.                                            *)
(***************************************************************************)
EXTENDS SentinelWatchers, TLAPS

Polling == pc \in {"external", "matched", "triggered"}

(* Copies of a watcher. *)
Holds(w, d, r) == w.status # "Absent" /\ w.def = d /\ w.repeat = r

Copy(d, id, r) ==
    \/ Holds(watchers[id], d, r)
    \/ Holds(rows[id], d, r)
    \/ \E p \in Proc : Holds(op[p].snap[id], d, r)
    \/ poll = [id |-> id, def |-> d, repeat |-> r]

(* A definition has been given out, to one id, which it used up. *)
CopiesAgree ==
    \A d \in Nat, id \in Ids, r \in BOOLEAN :
        Copy(d, id, r) =>
            /\ d \in 1..calls
            /\ id \notin fresh
            /\ \A id2 \in Ids, r2 \in BOOLEAN :
                  Copy(d, id2, r2) => id2 = id /\ r2 = r

(* While a poll is on, its watcher is known and not to be polled again. *)
PollKnown ==
    /\ calls <= MaxCalls
    /\ todo \cap fresh = {}
    /\ Polling => poll \in Poll /\ poll.id \notin todo

(* What begin_poll would ask of the clock, whatever the status. *)
Rested(w) ==
    /\ w.notBefore <= now
    /\ w.lastPoll = Never \/ now >= w.lastPoll + Interval

DueAreRested ==
    pc = "poll" \/ Polling => \A id \in todo : Rested(watchers[id])

(* The verdict of the watcher in poll is still open. *)
VerdictOpen ==
    pc \in {"external", "matched"} =>
        watchers[poll.id].status \notin {"Triggered", "TimedOut"}

(* What may still fire has not fired in this process: the watcher in poll  *)
(* too, whatever users have put in its place.                              *)
Alive(id) == watchers[id].status \in {"Active", "Paused"}
MayFire(id) ==
    \/ Alive(id)
    \/ pc \in {"external", "matched"} /\ poll.id = id /\ Present(id)
AliveNotFired ==
    \A id \in Ids :
        MayFire(id) /\ ~watchers[id].repeat
            => spawned[watchers[id].def] # "live"
TriggeredNotAlive ==
    pc = "triggered" /\ ~poll.repeat =>
        \A id \in Ids : Alive(id) => watchers[id].def # poll.def
UnusedNotFired ==
    \A d \in Definition : d > calls => spawned[d] # "live"

PollInv == TypeOK /\ PollKnown /\ CopiesAgree
FiredInv ==
    /\ AliveNotFired /\ TriggeredNotAlive /\ UnusedNotFired
    /\ OneShotFiresOnce

----------------------------------------------------------------------------
(* Constants and helpers. *)

LEMMA Constants ==
    /\ Interval \in Nat /\ Timeout \in Nat /\ MaxTimeout \in Nat
    /\ MinBackoff \in Nat /\ MaxBackoff \in Nat /\ Retention \in Nat
    /\ MaxCalls \in Nat /\ MaxTime \in Nat
    /\ MaxSleep \in Nat /\ PausedSleep \in Nat /\ MaxRestarts \in Nat
    /\ PauseAfter \in Nat \ {0} /\ FailCap \in Nat /\ FailCap >= PauseAfter
    /\ Poller \in Proc /\ Caller \subseteq Proc /\ Poller \notin Caller
    /\ Poller \notin Ids
BY TimesAssumption, SleepAssumption, PauseAfterAssumption, FailCapAssumption,
   ProcAssumption, PollerAssumption

LEMMA SmallerTyped == \A a, b \in Nat : Smaller(a, b) \in Nat
BY DEF Smaller

LEMMA BackoffTyped == \A fails \in Nat \ {0} : BackoffSecs(fails) \in Nat
<1> TAKE fails \in Nat \ {0}
<1> DEFINE k == Smaller(fails, 7)
           base == Larger(Interval, MinBackoff)
<1>1. k \in 1..7
    BY DEF Smaller
<1>2. Multiplier[k] \in Nat
    BY <1>1 DEF Multiplier
<1>3. base \in Nat
    BY Constants DEF Larger
<1> HIDE DEF k, base
<1>4. base * Multiplier[k] \in Nat
    BY <1>2, <1>3
<1>5. BackoffSecs(fails) = Smaller(base * Multiplier[k], MaxBackoff)
    BY DEF BackoffSecs, k, base
<1> QED
    BY <1>4, <1>5, SmallerTyped, Constants

LEMMA AbsentTyped == Absent \in Watcher /\ Absent.status = "Absent"
BY DEF Absent, Watcher, Status, Never

LEMMA IdleTyped ==
    /\ Idle \in Op /\ NoSnap \in [Ids -> Watcher] /\ Idle.snap = NoSnap
    /\ Idle.notify = FALSE
    /\ \A id \in Ids : NoSnap[id] = Absent
BY AbsentTyped DEF Idle, Op, NoSnap

LEMMA NewWatcherTyped ==
    ASSUME TypeOK, NEW shape \in Shape
    PROVE  /\ NewWatcher(shape) \in Watcher
           /\ [NewWatcher(shape) EXCEPT !.lastPoll = Never] \in Watcher
           /\ NewWatcher(shape).status = "Active"
           /\ NewWatcher(shape).def = calls + 1
           /\ NewWatcher(shape).notBefore = Never
           /\ NewWatcher(shape).repeat = shape.repeat
           /\ shape.repeat \in BOOLEAN
<1>1. /\ shape.repeat \in BOOLEAN /\ shape.baseline \in BOOLEAN
      /\ now \in Nat /\ calls + 1 \in Nat /\ Timeout \in Nat
    BY Constants, ShapeAssumption DEF TypeOK, ManagerTypeOK
<1> DEFINE last == IF shape.baseline THEN now ELSE Never
<1>2. last \in Nat
    BY <1>1 DEF Never
<1> QED
    BY <1>1, <1>2 DEF NewWatcher, Watcher, Status, Never

LEMMA EditTyped ==
    ASSUME NEW w \in Watcher, NEW s \in Status, NEW t \in Nat, NEW n \in Nat
    PROVE  /\ [w EXCEPT !.status = s, !.notBefore = t] \in Watcher
           /\ [w EXCEPT !.status = s, !.fails = n, !.notBefore = t] \in Watcher
           /\ [w EXCEPT !.lastPoll = t, !.fails = n] \in Watcher
           /\ [w EXCEPT !.lastPoll = t, !.fails = n, !.notBefore = Never]
                \in Watcher
           /\ [w EXCEPT !.status = s, !.notBefore = Never] \in Watcher
           /\ [w EXCEPT !.lastPoll = t] \in Watcher
           /\ [w EXCEPT !.lastPoll = Never] \in Watcher
           /\ [w EXCEPT !.notBefore = t] \in Watcher
           /\ [w EXCEPT !.notified = t] \in Watcher
           /\ [w EXCEPT !.status = s] \in Watcher
BY DEF Watcher, Never

(* What is left of an operation after its change. *)
LEMMA ThenTyped ==
    ASSUME TypeOK, NEW p \in Proc, NEW read \in SUBSET Ids,
           NEW drop \in SUBSET Ids, NEW notify \in BOOLEAN,
           Then(p, read, drop, notify)
    PROVE  /\ op' \in [Proc -> Op]
           /\ op'[p].notify = notify
           /\ op'[p].snap = NoSnap
           /\ \A q \in Proc \ {p} : op'[q] = op[q]
<1> DEFINE rest == [Idle EXCEPT !.read = read, !.drop = drop,
                                !.notify = notify]
<1>1. rest \in Op /\ rest.notify = notify /\ rest.snap = NoSnap
    BY IdleTyped DEF Op, Idle
<1>2. op \in [Proc -> Op] /\ op' = [op EXCEPT ![p] = rest]
    BY DEF Then, TypeOK, ManagerTypeOK
<1> HIDE DEF rest
<1> QED
    BY <1>1, <1>2

----------------------------------------------------------------------------
(* What a user's operation does to a watcher: nothing, remove it, edit it, *)
(* or put a new definition in its place.                                   *)
Edited(id) ==
    /\ watchers[id].status \in {"Active", "Paused"}
    /\ watchers'[id].status \in {"Active", "Paused", "Cancelled"}
    /\ watchers'[id].def = watchers[id].def
    /\ watchers'[id].repeat = watchers[id].repeat
    /\ watchers'[id].lastPoll \in {watchers[id].lastPoll, Never}
    /\ watchers'[id].notBefore \in {watchers[id].notBefore, Never}

Moved(id) ==
    watchers'[id] = watchers[id] \/ watchers'[id] = Absent \/ Edited(id)

Created(id) ==
    /\ watchers'[id].status = "Active"
    /\ watchers'[id].def = calls + 1
    /\ watchers'[id].notBefore = Never
    /\ id \notin fresh'
    /\ watchers'[id].lastPoll = Never \/ id \in fresh

UserEffect(p) ==
    /\ op[p] = Idle
    /\ op' \in [Proc -> Op]
    /\ op'[p].snap = NoSnap /\ op'[p].notify = TRUE
    /\ \A q \in Proc \ {p} : op'[q] = op[q]
    /\ watchers' \in [Ids -> Watcher]
    /\ \E id \in Ids :
          /\ Moved(id) \/ Created(id)
          /\ \A i \in Ids \ {id} : Moved(i)
    /\ fresh' \subseteq fresh
    /\ calls' = calls + 1 /\ calls' <= MaxCalls
    /\ UNCHANGED <<now, rows, permit>>

LEMMA CallCounts ==
    ASSUME TypeOK, Call
    PROVE  calls' = calls + 1 /\ calls' <= MaxCalls
BY Constants DEF Call, TypeOK, ManagerTypeOK

LEMMA ChangeEffect ==
    ASSUME TypeOK, NEW p \in Proc, NEW id \in Ids, NEW w \in Watcher,
           NEW notify \in BOOLEAN, Change(p, id, w, notify)
    PROVE  /\ op[p] = Idle
           /\ op' \in [Proc -> Op]
           /\ op'[p].snap = NoSnap /\ op'[p].notify = notify
           /\ \A q \in Proc \ {p} : op'[q] = op[q]
           /\ watchers' = [watchers EXCEPT ![id] = w]
           /\ watchers' \in [Ids -> Watcher]
           /\ watchers'[id] = w
           /\ \A i \in Ids \ {id} : watchers'[i] = watchers[i]
           /\ UNCHANGED <<now, rows, permit>>
<1>1. Then(p, {id}, {}, notify)
    BY DEF Change
<1>2. {id} \in SUBSET Ids /\ {} \in SUBSET Ids
    OBVIOUS
<1>3. watchers \in [Ids -> Watcher] /\ watchers' = [watchers EXCEPT ![id] = w]
    BY DEF Change, TypeOK, ManagerTypeOK
<1>4. /\ op' \in [Proc -> Op]
      /\ op'[p].snap = NoSnap /\ op'[p].notify = notify
      /\ \A q \in Proc \ {p} : op'[q] = op[q]
    BY <1>1, <1>2, ThenTyped
<1> QED
    BY <1>3, <1>4 DEF Change

(* The single-watcher operations. *)
LEMMA UserChangeEffect ==
    ASSUME TypeOK, NEW p \in Proc, NEW id \in Ids, NEW w \in Watcher,
           UserChange(p, id, w),
           \/ w = watchers[id]
           \/ /\ watchers[id].status \in {"Active", "Paused"}
              /\ w.status \in {"Active", "Paused", "Cancelled"}
              /\ w.def = watchers[id].def /\ w.repeat = watchers[id].repeat
              /\ w.lastPoll \in {watchers[id].lastPoll, Never}
              /\ w.notBefore \in {watchers[id].notBefore, Never}
    PROVE  UserEffect(p)
<1>1. Call /\ Change(p, id, w, TRUE) /\ fresh' = fresh
    BY DEF UserChange
<1>2. calls' = calls + 1 /\ calls' <= MaxCalls
    BY <1>1, CallCounts
<1>3. PICK b \in BOOLEAN : b = TRUE
    OBVIOUS
<1>4. Change(p, id, w, b)
    BY <1>1, <1>3
<1>5. /\ op[p] = Idle
      /\ op' \in [Proc -> Op]
      /\ op'[p].snap = NoSnap /\ op'[p].notify = b
      /\ \A q \in Proc \ {p} : op'[q] = op[q]
      /\ watchers' \in [Ids -> Watcher]
      /\ watchers'[id] = w
      /\ \A i \in Ids \ {id} : watchers'[i] = watchers[i]
      /\ UNCHANGED <<now, rows, permit>>
    BY <1>4, ChangeEffect
<1>6. Moved(id)
    BY <1>5 DEF Moved, Edited
<1>7. \A i \in Ids \ {id} : Moved(i)
    BY <1>5 DEF Moved
<1> QED
    BY <1>1, <1>2, <1>3, <1>5, <1>6, <1>7 DEF UserEffect

LEMMA InMapIsUsed ==
    ASSUME TypeOK, CopiesAgree, NEW id \in Ids, watchers[id].status # "Absent"
    PROVE  id \notin fresh /\ watchers[id].def \in 1..calls
<1>1. watchers[id].def \in Nat /\ watchers[id].repeat \in BOOLEAN
    BY DEF TypeOK, ManagerTypeOK, Watcher
<1>2. Copy(watchers[id].def, id, watchers[id].repeat)
    BY DEF Copy, Holds
<1> QED
    BY <1>1, <1>2 DEF CopiesAgree

LEMMA UserStep ==
    ASSUME TypeOK, CopiesAgree, NEW p \in Proc, UserOperation(p)
    PROVE  UserEffect(p)
<1>1. ASSUME NEW id \in Ids, add(p, id) PROVE UserEffect(p)
  <2>1. PICK shape \in Shape : Change(p, id, NewWatcher(shape), TRUE)
    BY <1>1 DEF add
  <2>2. PICK b \in BOOLEAN : b = TRUE
    OBVIOUS
  <2>3. Change(p, id, NewWatcher(shape), b)
    BY <2>1, <2>2
  <2> DEFINE w == NewWatcher(shape)
  <2>4. w \in Watcher /\ w.status = "Active" /\ w.def = calls + 1
        /\ w.notBefore = Never
    BY NewWatcherTyped
  <2> HIDE DEF w
  <2>5. Change(p, id, w, b)
    BY <2>3 DEF w
  <2>6. /\ op[p] = Idle
        /\ op' \in [Proc -> Op]
        /\ op'[p].snap = NoSnap /\ op'[p].notify = b
        /\ \A q \in Proc \ {p} : op'[q] = op[q]
        /\ watchers' \in [Ids -> Watcher]
        /\ watchers'[id] = w
        /\ \A i \in Ids \ {id} : watchers'[i] = watchers[i]
        /\ UNCHANGED <<now, rows, permit>>
    BY <2>4, <2>5, ChangeEffect
  <2>7. id \in fresh /\ fresh' = fresh \ {id} /\ Call
    BY <1>1 DEF add
  <2>8. calls' = calls + 1 /\ calls' <= MaxCalls
    BY <2>7, CallCounts
  <2>9. Created(id) /\ \A i \in Ids \ {id} : Moved(i)
    BY <2>4, <2>6, <2>7 DEF Created, Moved
  <2> QED
    BY <2>2, <2>6, <2>7, <2>8, <2>9 DEF UserEffect
<1>2. ASSUME NEW id \in Ids, upsert_similar(p, id) PROVE UserEffect(p)
  <2>1. PICK duplicates \in SUBSET (WithStatus({"Active", "Paused"}) \ {id}),
             shape \in Shape :
          /\ watchers' = [i \in Ids |->
                             IF i = id
                             THEN [NewWatcher(shape) EXCEPT !.lastPoll = Never]
                             ELSE IF i \in duplicates THEN Absent
                             ELSE watchers[i]]
          /\ Then(p, {id}, duplicates, TRUE)
    BY <1>2 DEF upsert_similar
  <2> DEFINE w == [NewWatcher(shape) EXCEPT !.lastPoll = Never]
  <2>2. w \in Watcher /\ w.status = "Active" /\ w.def = calls + 1
        /\ w.notBefore = Never /\ w.lastPoll = Never
    BY NewWatcherTyped DEF NewWatcher
  <2> HIDE DEF w
  <2>3. watchers' = [i \in Ids |-> IF i = id THEN w
                                   ELSE IF i \in duplicates THEN Absent
                                   ELSE watchers[i]]
    BY <2>1 DEF w
  <2>4. watchers' \in [Ids -> Watcher]
    BY <2>2, <2>3, AbsentTyped DEF TypeOK, ManagerTypeOK
  <2>5. PICK b \in BOOLEAN : b = TRUE
    OBVIOUS
  <2>6. Then(p, {id}, duplicates, b) /\ duplicates \in SUBSET Ids
    BY <2>1, <2>5 DEF WithStatus
  <2>7. /\ op' \in [Proc -> Op]
        /\ op'[p].snap = NoSnap /\ op'[p].notify = b
        /\ \A q \in Proc \ {p} : op'[q] = op[q]
    BY <2>6, ThenTyped
  <2>8. op[p] = Idle /\ Call /\ watchers[id].status # "Absent"
        /\ UNCHANGED <<now, rows, permit, fresh>>
    BY <1>2 DEF upsert_similar, Present
  <2>9. calls' = calls + 1 /\ calls' <= MaxCalls
    BY <2>8, CallCounts
  <2>10. \A i \in Ids \ {id} : Moved(i)
    BY <2>3 DEF Moved
  <2>11. id \notin fresh
    BY <2>8, InMapIsUsed
  <2>12. Created(id)
    BY <2>2, <2>3, <2>8, <2>11 DEF Created
  <2> QED
    BY <2>4, <2>5, <2>7, <2>8, <2>9, <2>10, <2>12 DEF UserEffect
<1>3. ASSUME NEW id \in Ids, cancel(p, id) PROVE UserEffect(p)
  <2>1. [watchers[id] EXCEPT !.status = "Cancelled"] \in Watcher
    <3>1. watchers[id] \in Watcher /\ "Cancelled" \in Status
      BY DEF TypeOK, ManagerTypeOK, Status
    <3> QED BY <3>1, EditTyped
  <2> QED
    BY <1>3, <2>1, UserChangeEffect DEF cancel, TypeOK, ManagerTypeOK, Watcher
<1>4. ASSUME NEW id \in Ids, pause(p, id) PROVE UserEffect(p)
  <2>1. [watchers[id] EXCEPT !.status = "Paused", !.notBefore = Never]
            \in Watcher
    <3>1. watchers[id] \in Watcher /\ "Paused" \in Status
      BY DEF TypeOK, ManagerTypeOK, Status
    <3> QED BY <3>1, EditTyped
  <2> QED
    BY <1>4, <2>1, UserChangeEffect DEF pause, TypeOK, ManagerTypeOK, Watcher
<1>5. ASSUME NEW id \in Ids, resume(p, id) PROVE UserEffect(p)
  <2>1. [watchers[id] EXCEPT !.status = "Active", !.fails = 0,
                             !.notBefore = Never] \in Watcher
    BY EditTyped DEF TypeOK, ManagerTypeOK, Status, Never
  <2> QED
    BY <1>5, <2>1, UserChangeEffect DEF resume, TypeOK, ManagerTypeOK, Watcher
<1>6. ASSUME NEW id \in Ids, run_now(p, id) PROVE UserEffect(p)
  <2>1. [watchers[id] EXCEPT !.lastPoll = Never] \in Watcher
    <3>1. watchers[id] \in Watcher /\ "Active" \in Status
      BY DEF TypeOK, ManagerTypeOK, Status
    <3> QED BY <3>1, EditTyped
  <2> QED
    BY <1>6, <2>1, UserChangeEffect DEF run_now, TypeOK, ManagerTypeOK, Watcher
<1>7. ASSUME NEW id \in Ids, extend_timeout(p, id) PROVE UserEffect(p)
  <2>1. watchers[id] \in Watcher /\ watchers[id].timeout + Timeout \in Nat
    BY Constants DEF TypeOK, ManagerTypeOK, Watcher
  <2>2. PICK t \in {Smaller(watchers[id].timeout + Timeout, MaxTimeout),
                    MaxTimeout} :
             UserChange(p, id, [watchers[id] EXCEPT !.timeout = t])
    BY <1>7 DEF extend_timeout
  <2>3. t \in Nat
    BY <2>1, <2>2, SmallerTyped, Constants
  <2>4. [watchers[id] EXCEPT !.timeout = t] \in Watcher
    BY <2>1, <2>3 DEF Watcher
  <2> QED
    BY <1>7, <2>1, <2>2, <2>4, UserChangeEffect DEF extend_timeout, Watcher
<1>8. ASSUME NEW id \in Ids, Rebind(p, id) PROVE UserEffect(p)
    BY <1>8, UserChangeEffect DEF Rebind, TypeOK, ManagerTypeOK
<1>9. ASSUME NEW id \in Ids, delete(p, id) PROVE UserEffect(p)
  <2>1. PICK b \in BOOLEAN : b = TRUE
    OBVIOUS
  <2>2. Then(p, {}, {id}, b) /\ {id} \in SUBSET Ids /\ {} \in SUBSET Ids
    BY <1>9, <2>1 DEF delete
  <2>3. /\ op' \in [Proc -> Op]
        /\ op'[p].snap = NoSnap /\ op'[p].notify = b
        /\ \A q \in Proc \ {p} : op'[q] = op[q]
    BY <2>2, ThenTyped
  <2>4. watchers' \in [Ids -> Watcher] /\ \A i \in Ids : Moved(i)
    BY <1>9, AbsentTyped DEF delete, TypeOK, ManagerTypeOK, Moved
  <2>5. calls' = calls + 1 /\ calls' <= MaxCalls
    BY <1>9, CallCounts DEF delete
  <2> QED
    BY <1>9, <2>1, <2>3, <2>4, <2>5 DEF delete, UserEffect
<1>10. ASSUME pause_all(p) \/ resume_all(p) PROVE UserEffect(p)
  <2>1. PICK from, to \in {"Active", "Paused"} : SetAll(p, from, to)
    BY <1>10 DEF pause_all, resume_all
  <2>2. watchers' = [id \in Ids |-> IF watchers[id].status = from
                                    THEN [watchers[id] EXCEPT !.status = to]
                                    ELSE watchers[id]]
    BY <2>1 DEF SetAll
  <2>3. \A id \in Ids : [watchers[id] EXCEPT !.status = to] \in Watcher
    BY DEF TypeOK, ManagerTypeOK, Watcher, Status
  <2>4. watchers' \in [Ids -> Watcher]
    BY <2>2, <2>3 DEF TypeOK, ManagerTypeOK
  <2>5. \A id \in Ids : Moved(id)
    BY <2>2 DEF Moved, Edited, TypeOK, ManagerTypeOK, Watcher
  <2>6. [Idle EXCEPT !.all = TRUE, !.notify = TRUE] \in Op
    BY IdleTyped DEF Op
  <2>7. op' = [op EXCEPT ![p] = [Idle EXCEPT !.all = TRUE, !.notify = TRUE]]
    BY <2>1 DEF SetAll
  <2>8. /\ op' \in [Proc -> Op]
        /\ op'[p].snap = NoSnap /\ op'[p].notify = TRUE
        /\ \A q \in Proc \ {p} : op'[q] = op[q]
    BY <2>6, <2>7 DEF TypeOK, ManagerTypeOK, Idle
  <2>9. calls' = calls + 1 /\ calls' <= MaxCalls
    BY <2>1, CallCounts DEF SetAll
  <2>10. \E id \in Ids : TRUE
    BY <2>1 DEF SetAll, WithStatus
  <2> QED
    BY <2>1, <2>4, <2>5, <2>8, <2>9, <2>10 DEF SetAll, UserEffect
<1> QED
    BY <1>1, <1>2, <1>3, <1>4, <1>5, <1>6, <1>7, <1>8, <1>9, <1>10
       DEF UserOperation

----------------------------------------------------------------------------
(* What an operation of the poller does: w takes the place of the watcher  *)
(* if there is one, and nobody is told.                                    *)
PollerEffect(p, id, w) ==
    /\ op[p] = Idle
    /\ op' \in [Proc -> Op]
    /\ op'[p].snap = NoSnap /\ op'[p].notify = FALSE
    /\ \A q \in Proc \ {p} : op'[q] = op[q]
    /\ watchers' \in [Ids -> Watcher]
    /\ watchers'[id] = IF Present(id) THEN w ELSE Absent
    /\ \A i \in Ids \ {id} : watchers'[i] = watchers[i]
    /\ UNCHANGED <<now, rows, permit, fresh, calls>>

SameDefinition(id, w) ==
    w.def = watchers[id].def /\ w.repeat = watchers[id].repeat

LEMMA PollerChangeEffect ==
    ASSUME TypeOK, NEW p \in Proc, NEW id \in Ids, NEW w \in Watcher,
           PollerChange(p, id, w)
    PROVE  PollerEffect(p, id, w)
<1>1. PICK b \in BOOLEAN : b = FALSE
    OBVIOUS
<1> DEFINE v == IF Present(id) THEN w ELSE Absent
<1>2. v \in Watcher
    BY AbsentTyped
<1>3. Change(p, id, v, FALSE) /\ UNCHANGED <<fresh, calls>>
    BY DEF PollerChange
<1> HIDE DEF v
<1>4. Change(p, id, v, b)
    BY <1>1, <1>3
<1>5. /\ op[p] = Idle
      /\ op' \in [Proc -> Op]
      /\ op'[p].snap = NoSnap /\ op'[p].notify = b
      /\ \A q \in Proc \ {p} : op'[q] = op[q]
      /\ watchers' \in [Ids -> Watcher]
      /\ watchers'[id] = v
      /\ \A i \in Ids \ {id} : watchers'[i] = watchers[i]
      /\ UNCHANGED <<now, rows, permit>>
    BY <1>2, <1>4, ChangeEffect
<1> QED
    BY <1>1, <1>3, <1>5 DEF PollerEffect, v

LEMMA BeginPollEffect ==
    ASSUME TypeOK, NEW p \in Proc, NEW id \in Ids, begin_poll(p, id)
    PROVE  /\ watchers[id].status = "Active"
           /\ \E w \in Watcher :
                 /\ PollerEffect(p, id, w) /\ SameDefinition(id, w)
                 /\ w.status = "Active"
<1> DEFINE w == [watchers[id] EXCEPT !.lastPoll = now]
<1>1. watchers[id] \in Watcher /\ now \in Nat
    BY DEF TypeOK, ManagerTypeOK
<1>2. w \in Watcher
    BY <1>1, EditTyped DEF Watcher
<1>3. w.status = watchers[id].status /\ SameDefinition(id, w)
    BY <1>1 DEF Watcher, SameDefinition
<1>4. PollerChange(p, id, w) /\ watchers[id].status = "Active"
    BY DEF begin_poll
<1> HIDE DEF w
<1> QED
    BY <1>2, <1>3, <1>4, PollerChangeEffect

LEMMA PollResultEffect ==
    ASSUME TypeOK, NEW p \in Proc, NEW id \in Ids,
           record_poll_success(p, id) \/ record_poll_error(p, id)
    PROVE  \E w \in Watcher :
              /\ PollerEffect(p, id, w) /\ SameDefinition(id, w)
              /\ w.status \in {watchers[id].status, "Paused"}
<1>1. /\ watchers[id] \in Watcher /\ watchers[id].status \in Status
      /\ watchers[id].fails \in Nat /\ now \in Nat
      /\ 0 \in Nat /\ Never \in Nat /\ "Paused" \in Status
    BY DEF TypeOK, ManagerTypeOK, Watcher, Never, Status
<1>2. CASE record_poll_success(p, id)
  <2> DEFINE w == [watchers[id] EXCEPT !.lastPoll = now, !.fails = 0,
                                       !.notBefore = Never]
  <2>1. w \in Watcher
    BY <1>1, EditTyped
  <2>2. w.status = watchers[id].status /\ SameDefinition(id, w)
    BY <1>1 DEF Watcher, SameDefinition
  <2>3. PollerChange(p, id, w)
    BY <1>2 DEF record_poll_success
  <2> HIDE DEF w
  <2> QED
    BY <2>1, <2>2, <2>3, PollerChangeEffect
<1>3. CASE record_poll_error(p, id)
  <2> DEFINE n == Smaller(watchers[id].fails + 1, FailCap)
             failed == [watchers[id] EXCEPT !.lastPoll = now, !.fails = n]
             w1 == [failed EXCEPT !.status = "Paused", !.notBefore = Never]
             w2 == [failed EXCEPT !.notBefore = now + BackoffSecs(n)]
  <2>1. n \in Nat \ {0}
    BY <1>1, Constants DEF Smaller
  <2>2. PollerChange(p, id, w1) \/ PollerChange(p, id, w2)
    BY <1>3 DEF record_poll_error
  <2> HIDE DEF n
  <2>3. now + BackoffSecs(n) \in Nat
    BY <1>1, <2>1, BackoffTyped
  <2>4. failed \in Watcher
    BY <1>1, <2>1, EditTyped
  <2>5. failed.status = watchers[id].status /\ SameDefinition(id, failed)
    BY <1>1 DEF Watcher, SameDefinition
  <2> HIDE DEF failed
  <2>6. w1 \in Watcher /\ w2 \in Watcher
    BY <1>1, <2>3, <2>4, EditTyped
  <2>7. /\ w1.status = "Paused" /\ SameDefinition(id, w1)
        /\ w2.status = failed.status /\ SameDefinition(id, w2)
    BY <2>4, <2>5 DEF Watcher, SameDefinition
  <2> HIDE DEF w1, w2
  <2>8. CASE PollerChange(p, id, w1)
    BY <2>6, <2>7, <2>8, PollerChangeEffect
  <2>9. CASE PollerChange(p, id, w2)
    BY <2>5, <2>6, <2>7, <2>9, PollerChangeEffect
  <2> QED
    BY <2>2, <2>8, <2>9
<1> QED
    BY <1>2, <1>3

LEMMA MarkTriggeredEffect ==
    ASSUME TypeOK, NEW p \in Proc, NEW id \in Ids, mark_triggered(p, id)
    PROVE  \E w \in Watcher :
              /\ PollerEffect(p, id, w) /\ SameDefinition(id, w)
              /\ w.status = IF watchers[id].repeat THEN watchers[id].status
                                                   ELSE "Triggered"
<1> DEFINE s == IF watchers[id].repeat THEN watchers[id].status
                                       ELSE "Triggered"
           w == [watchers[id] EXCEPT !.status = s]
<1>1. watchers[id] \in Watcher /\ s \in Status
    BY DEF TypeOK, ManagerTypeOK, Watcher, Status
<1>2. PollerChange(p, id, w)
    BY <1>1 DEF mark_triggered, Watcher
<1> HIDE DEF s
<1>3. w \in Watcher
    BY <1>1 DEF Watcher
<1>4. w.status = s /\ SameDefinition(id, w)
    BY <1>1 DEF Watcher, SameDefinition
<1> HIDE DEF w
<1> QED
    BY <1>2, <1>3, <1>4, PollerChangeEffect DEF s

LEMMA PushEffect ==
    ASSUME TypeOK, NEW p \in Proc, NEW id \in Ids,
           push_notification_attempt(p, id)
    PROVE  \E w \in Watcher :
              /\ PollerEffect(p, id, w) /\ SameDefinition(id, w)
              /\ w.status = watchers[id].status
              /\ w.created = watchers[id].created
              /\ w.timeout = watchers[id].timeout
              /\ w.lastPoll = watchers[id].lastPoll
              /\ w.notBefore = watchers[id].notBefore
<1> DEFINE w == [watchers[id] EXCEPT !.notified = now]
<1>1. watchers[id] \in Watcher /\ now \in Nat
    BY DEF TypeOK, ManagerTypeOK
<1>2. w \in Watcher
    BY <1>1 DEF Watcher
<1>3. /\ SameDefinition(id, w)
      /\ w.status = watchers[id].status
      /\ w.created = watchers[id].created
      /\ w.timeout = watchers[id].timeout
      /\ w.lastPoll = watchers[id].lastPoll
      /\ w.notBefore = watchers[id].notBefore
    BY <1>1 DEF Watcher, SameDefinition
<1>4. PollerChange(p, id, w)
    BY DEF push_notification_attempt
<1> HIDE DEF w
<1> QED
    BY <1>2, <1>3, <1>4, PollerChangeEffect

SweepEffect(p) ==
    /\ op[p] = Idle
    /\ op' \in [Proc -> Op]
    /\ op'[p].snap = NoSnap /\ op'[p].notify = FALSE
    /\ \A q \in Proc \ {p} : op'[q] = op[q]
    /\ watchers' \in [Ids -> Watcher]
    /\ UNCHANGED <<now, rows, permit, fresh, calls>>

LEMMA ExpireEffect ==
    ASSUME TypeOK, NEW p \in Proc, expire_watchers(p)
    PROVE  /\ SweepEffect(p)
           /\ \A id \in Ids :
                 \/ watchers'[id] = watchers[id]
                 \/ /\ watchers[id].status = "Active"
                    /\ watchers'[id].status = "TimedOut"
                    /\ SameDefinition(id, watchers'[id])
<1>1. PICK b \in BOOLEAN : b = FALSE
    OBVIOUS
<1>2. Then(p, Expired, {}, b) /\ Expired \in SUBSET Ids /\ {} \in SUBSET Ids
    BY <1>1 DEF expire_watchers, Expired
<1>3. /\ op' \in [Proc -> Op]
      /\ op'[p].snap = NoSnap /\ op'[p].notify = b
      /\ \A q \in Proc \ {p} : op'[q] = op[q]
    BY <1>2, ThenTyped
<1>4. \A id \in Ids :
        /\ watchers[id] \in Watcher
        /\ [watchers[id] EXCEPT !.status = "TimedOut"] \in Watcher
    BY EditTyped DEF TypeOK, ManagerTypeOK, Status
<1>5. watchers' = [id \in Ids |-> IF id \in Expired
                          THEN [watchers[id] EXCEPT !.status = "TimedOut"]
                          ELSE watchers[id]]
    BY DEF expire_watchers
<1>6. watchers' \in [Ids -> Watcher]
    BY <1>4, <1>5
<1>7. ASSUME NEW id \in Ids
      PROVE  \/ watchers'[id] = watchers[id]
             \/ /\ watchers[id].status = "Active"
                /\ watchers'[id].status = "TimedOut"
                /\ SameDefinition(id, watchers'[id])
    BY <1>4, <1>5 DEF Expired, SameDefinition, Watcher
<1> QED
    BY <1>1, <1>3, <1>6, <1>7 DEF expire_watchers, SweepEffect

LEMMA CleanupEffect ==
    ASSUME TypeOK, NEW p \in Proc, cleanup(p)
    PROVE  /\ SweepEffect(p)
           /\ \A id \in Ids : watchers'[id] \in {watchers[id], Absent}
<1>1. PICK b \in BOOLEAN : b = FALSE
    OBVIOUS
<1>2. Then(p, {}, Stale, b) /\ Stale \in SUBSET Ids /\ {} \in SUBSET Ids
    BY <1>1 DEF cleanup, Stale, WithStatus
<1>3. /\ op' \in [Proc -> Op]
      /\ op'[p].snap = NoSnap /\ op'[p].notify = b
      /\ \A q \in Proc \ {p} : op'[q] = op[q]
    BY <1>2, ThenTyped
<1>4. watchers' = [id \in Ids |-> IF id \in Stale THEN Absent
                                                  ELSE watchers[id]]
    BY DEF cleanup
<1>5. watchers' \in [Ids -> Watcher]
    BY <1>4, AbsentTyped DEF TypeOK, ManagerTypeOK
<1> QED
    BY <1>1, <1>3, <1>4, <1>5 DEF cleanup, SweepEffect

(* What persisting moves: copies from the map to snapshots, and from       *)
(* snapshots to rows; the change is announced at the end.                  *)
LEMMA PersistEffect ==
    ASSUME TypeOK, NEW p \in Proc, Persist(p)
    PROVE  /\ op' \in [Proc -> Op]
           /\ rows' \in [Ids -> Watcher]
           /\ permit' \in BOOLEAN
           /\ UNCHANGED <<now, watchers, fresh, calls>>
           /\ \A q \in Proc, id \in Ids :
                 op'[q].snap[id] \in {op[q].snap[id], watchers[id], Absent}
           /\ \A id \in Ids :
                 \/ rows'[id] = rows[id]
                 \/ \E q \in Proc : rows'[id] = op[q].snap[id]
           /\ \A q \in Proc : op[q].notify => op'[q].notify \/ permit'
           /\ permit => permit'
<1>1. /\ op \in [Proc -> Op] /\ op[p] \in Op
      /\ rows \in [Ids -> Watcher] /\ watchers \in [Ids -> Watcher]
      /\ permit \in BOOLEAN
    BY DEF TypeOK, ManagerTypeOK
<1>2. ASSUME NEW id \in Ids, Snapshot(p, id)
      PROVE  /\ op' \in [Proc -> Op]
             /\ \A q \in Proc, i \in Ids :
                  op'[q].snap[i] \in {op[q].snap[i], watchers[i], Absent}
             /\ \A q \in Proc : op'[q].notify = op[q].notify
  <2> DEFINE rest == [op[p] EXCEPT !.read = @ \ {id}, !.write = {id},
                                  !.snap[id] = watchers[id]]
  <2>1. op' = [op EXCEPT ![p] = rest]
    BY <1>2 DEF Snapshot
  <2>2. rest \in Op
    BY <1>1 DEF Op
  <2>3. /\ rest.notify = op[p].notify
        /\ \A i \in Ids : rest.snap[i] \in {op[p].snap[i], watchers[i]}
    BY <1>1 DEF Op
  <2> HIDE DEF rest
  <2> QED
    BY <1>1, <2>1, <2>2, <2>3
<1>3. ASSUME SnapshotAll(p)
      PROVE  /\ op' \in [Proc -> Op]
             /\ \A q \in Proc, i \in Ids :
                  op'[q].snap[i] \in {op[q].snap[i], watchers[i], Absent}
             /\ \A q \in Proc : op'[q].notify = op[q].notify
  <2> DEFINE present == {id \in Ids : Present(id)}
             rest == [op[p] EXCEPT !.all = FALSE, !.write = present,
                                  !.snap = watchers]
  <2>1. op' = [op EXCEPT ![p] = rest]
    BY <1>3 DEF SnapshotAll
  <2>2. present \subseteq Ids
    OBVIOUS
  <2> HIDE DEF present
  <2>3. rest \in Op /\ rest.notify = op[p].notify /\ rest.snap = watchers
    BY <1>1, <2>2 DEF Op
  <2> HIDE DEF rest
  <2> QED
    BY <1>1, <2>1, <2>3
<1>4. ASSUME NEW id \in Ids, DropNext(p, id)
      PROVE  /\ op' \in [Proc -> Op]
             /\ \A q \in Proc, i \in Ids :
                  op'[q].snap[i] \in {op[q].snap[i], watchers[i], Absent}
             /\ \A q \in Proc : op'[q].notify = op[q].notify
  <2> DEFINE rest == [op[p] EXCEPT !.drop = @ \ {id}, !.write = {id}]
  <2>1. op' = [op EXCEPT ![p] = rest]
    BY <1>4 DEF DropNext
  <2>2. rest \in Op /\ rest.notify = op[p].notify /\ rest.snap = op[p].snap
    BY <1>1 DEF Op
  <2> HIDE DEF rest
  <2> QED
    BY <1>1, <2>1, <2>2
<1>5. ASSUME NEW id \in Ids, WriteRow(p, id)
      PROVE  /\ op' \in [Proc -> Op]
             /\ rows' \in [Ids -> Watcher]
             /\ \A q \in Proc, i \in Ids :
                  op'[q].snap[i] \in {op[q].snap[i], watchers[i], Absent}
             /\ \A i \in Ids : rows'[i] = rows[i] \/ rows'[i] = op[p].snap[i]
             /\ \A q \in Proc : op'[q].notify = op[q].notify
  <2> DEFINE rest == [op[p] EXCEPT !.write = @ \ {id}, !.snap[id] = Absent]
  <2>1. op' = [op EXCEPT ![p] = rest]
    BY <1>5 DEF WriteRow
  <2>2. rest \in Op
    BY <1>1, AbsentTyped DEF Op
  <2>3. /\ rest.notify = op[p].notify
        /\ \A i \in Ids : rest.snap[i] \in {op[p].snap[i], Absent}
    BY <1>1 DEF Op
  <2>4. op[p].snap \in [Ids -> Watcher]
    BY <1>1 DEF Op
  <2>5. rows' = rows \/ rows' = [rows EXCEPT ![id] = op[p].snap[id]]
    BY <1>5 DEF WriteRow
  <2> HIDE DEF rest
  <2> QED
    BY <1>1, <2>1, <2>2, <2>3, <2>4, <2>5
<1>6. ASSUME notify_changed(p)
      PROVE  /\ op' \in [Proc -> Op]
             /\ permit' = TRUE
             /\ \A q \in Proc, i \in Ids :
                  op'[q].snap[i] \in {op[q].snap[i], watchers[i], Absent}
    BY <1>1, <1>6, IdleTyped DEF notify_changed
<1> QED
    BY <1>1, <1>2, <1>3, <1>4, <1>5, <1>6
       DEF Persist, Snapshot, SnapshotAll, DropNext, WriteRow, notify_changed

----------------------------------------------------------------------------
(* Copies of a definition. *)

LEMMA CopiesStay ==
    ASSUME TypeOK, CopiesAgree,
           \A q \in Proc, id \in Ids :
              op'[q].snap[id] \in {op[q].snap[id], watchers[id], Absent},
           \A id \in Ids : \/ rows'[id] = rows[id]
                           \/ \E q \in Proc : rows'[id] = op[q].snap[id],
           \A id \in Ids :
              \/ watchers'[id] \in {watchers[id], rows[id], Absent}
              \/ /\ watchers[id].status # "Absent"
                 /\ SameDefinition(id, watchers'[id]),
           \/ poll' \in {poll, NoPoll}
           \/ \E id \in Ids : /\ watchers[id].status # "Absent"
                              /\ poll' = [id |-> id, def |-> watchers[id].def,
                                          repeat |-> watchers[id].repeat],
           calls' \in Nat, calls <= calls', fresh' \subseteq fresh
    PROVE  CopiesAgree'
<1>1. ASSUME NEW d \in Nat, NEW id \in Ids, NEW r \in BOOLEAN, Copy(d, id, r)'
      PROVE  Copy(d, id, r)
  <2>1. CASE Holds(watchers[id], d, r)'
    BY <2>1, AbsentTyped DEF Copy, Holds, SameDefinition
  <2>2. CASE Holds(rows[id], d, r)'
    BY <2>2 DEF Copy, Holds
  <2>3. CASE \E p \in Proc : Holds(op[p].snap[id], d, r)'
    BY <2>3, AbsentTyped DEF Copy, Holds
  <2>4. CASE poll' = [id |-> id, def |-> d, repeat |-> r]
    <3>1. poll' # NoPoll
      BY <2>4, Constants DEF NoPoll
    <3>2. CASE poll' = poll
      BY <2>4, <3>2 DEF Copy
    <3>3. ASSUME NEW i \in Ids, watchers[i].status # "Absent",
                 poll' = [id |-> i, def |-> watchers[i].def,
                          repeat |-> watchers[i].repeat]
          PROVE  Copy(d, id, r)
      <4>1. i = id /\ watchers[i].def = d /\ watchers[i].repeat = r
        BY <2>4, <3>3
      <4> QED
        BY <3>3, <4>1 DEF Copy, Holds
    <3> QED
      BY <3>1, <3>2, <3>3
  <2> QED
    BY <1>1, <2>1, <2>2, <2>3, <2>4 DEF Copy
<1>2. calls \in Nat
    BY DEF TypeOK, ManagerTypeOK
<1> SUFFICES ASSUME NEW d \in Nat, NEW id \in Ids, NEW r \in BOOLEAN,
                    Copy(d, id, r)'
             PROVE  /\ d \in 1..calls'
                    /\ id \notin fresh'
                    /\ \A id2 \in Ids, r2 \in BOOLEAN :
                          Copy(d, id2, r2)' => id2 = id /\ r2 = r
    BY DEF CopiesAgree
<1>3. Copy(d, id, r)
    BY <1>1
<1>4. d \in 1..calls /\ id \notin fresh
    BY <1>3 DEF CopiesAgree
<1>5. \A id2 \in Ids, r2 \in BOOLEAN : Copy(d, id2, r2)' => id2 = id /\ r2 = r
    BY <1>1, <1>3 DEF CopiesAgree
<1> QED
    BY <1>2, <1>4, <1>5

LEMMA UserCopies ==
    ASSUME TypeOK, CopiesAgree, NEW p \in Proc, UserEffect(p), poll' = poll
    PROVE  CopiesAgree'
<1>1. PICK target \in Ids : /\ Moved(target) \/ Created(target)
                         /\ \A i \in Ids \ {target} : Moved(i)
    BY DEF UserEffect
<1>2. /\ calls \in Nat /\ calls' = calls + 1 /\ fresh' \subseteq fresh
      /\ rows' = rows /\ watchers' \in [Ids -> Watcher]
    BY DEF UserEffect, TypeOK, ManagerTypeOK
<1> DEFINE rep == watchers'[target].repeat
           IsNew(d, id, r) == /\ d = calls + 1 /\ id = target /\ r = rep
                              /\ target \notin fresh'
<1>3. ASSUME NEW d \in Nat, NEW id \in Ids, NEW r \in BOOLEAN, Copy(d, id, r)'
      PROVE  Copy(d, id, r) \/ IsNew(d, id, r)
  <2>1. CASE Holds(watchers[id], d, r)'
    <3>1. CASE Moved(id)
      BY <2>1, <3>1, AbsentTyped DEF Copy, Holds, Moved, Edited
    <3>2. CASE id = target /\ Created(target)
      BY <2>1, <3>2 DEF Holds, Created
    <3> QED
      BY <1>1, <3>1, <3>2
  <2>2. CASE Holds(rows[id], d, r)'
    BY <1>2, <2>2 DEF Copy, Holds
  <2>3. ASSUME NEW q \in Proc, Holds(op[q].snap[id], d, r)'
        PROVE  Copy(d, id, r)
    <3>1. q # p
      BY <2>3, IdleTyped, AbsentTyped DEF UserEffect, Holds
    <3>2. op'[q] = op[q]
      BY <3>1 DEF UserEffect
    <3> QED
      BY <2>3, <3>2 DEF Copy, Holds
  <2>4. CASE poll' = [id |-> id, def |-> d, repeat |-> r]
    BY <2>4 DEF Copy
  <2> QED
    BY <1>3, <2>1, <2>2, <2>3, <2>4 DEF Copy
<1>4. ASSUME NEW d \in Nat, NEW id \in Ids, NEW r \in BOOLEAN, Copy(d, id, r)
      PROVE  /\ d \in 1..calls /\ id \notin fresh
             /\ \A id2 \in Ids, r2 \in BOOLEAN :
                   Copy(d, id2, r2) => id2 = id /\ r2 = r
    BY <1>4 DEF CopiesAgree
<1> SUFFICES ASSUME NEW d \in Nat, NEW id \in Ids, NEW r \in BOOLEAN,
                    Copy(d, id, r)'
             PROVE  /\ d \in 1..calls'
                    /\ id \notin fresh'
                    /\ \A id2 \in Ids, r2 \in BOOLEAN :
                          Copy(d, id2, r2)' => id2 = id /\ r2 = r
    BY DEF CopiesAgree
<1>5. CASE Copy(d, id, r)
  <2>1. d \in 1..calls /\ id \notin fresh
    BY <1>4, <1>5
  <2>2. ASSUME NEW id2 \in Ids, NEW r2 \in BOOLEAN, Copy(d, id2, r2)'
        PROVE  id2 = id /\ r2 = r
    <3>1. ~IsNew(d, id2, r2)
      BY <1>2, <2>1
    <3>2. Copy(d, id2, r2)
      BY <1>3, <2>2, <3>1
    <3> QED
      BY <1>4, <1>5, <3>2
  <2> QED
    BY <1>2, <2>1, <2>2
<1>6. CASE IsNew(d, id, r)
  <2>1. ASSUME NEW id2 \in Ids, NEW r2 \in BOOLEAN, Copy(d, id2, r2)'
        PROVE  id2 = id /\ r2 = r
    <3>1. ~Copy(d, id2, r2)
      <4>1. SUFFICES ASSUME Copy(d, id2, r2) PROVE FALSE
        OBVIOUS
      <4>2. d \in 1..calls
        BY <1>4, <4>1
      <4> QED
        BY <1>2, <1>6, <4>2
    <3>2. IsNew(d, id2, r2)
      BY <1>3, <2>1, <3>1
    <3> QED
      BY <1>6, <3>2
  <2> QED
    BY <1>2, <1>6, <2>1
<1> QED
    BY <1>3, <1>5, <1>6

LEMMA QuietCopies ==
    ASSUME TypeOK, CopiesAgree, UNCHANGED <<watchers, rows, fresh, calls>>,
           \A q \in Proc, id \in Ids :
              op'[q].snap[id] \in {op[q].snap[id], Absent},
           poll' \in {poll, NoPoll}
    PROVE  CopiesAgree'
<1>1. calls' \in Nat /\ calls <= calls' /\ fresh' \subseteq fresh
    BY DEF TypeOK, ManagerTypeOK
<1> QED
    BY <1>1, CopiesStay

LEMMA PollerCopies ==
    ASSUME TypeOK, CopiesAgree, NEW p \in Proc, NEW id \in Ids,
           NEW w \in Watcher, PollerEffect(p, id, w), SameDefinition(id, w),
           \/ poll' \in {poll, NoPoll}
           \/ /\ watchers[id].status # "Absent"
              /\ poll' = [id |-> id, def |-> watchers[id].def,
                          repeat |-> watchers[id].repeat]
    PROVE  CopiesAgree'
<1>1. calls' \in Nat /\ calls <= calls' /\ fresh' \subseteq fresh
    BY DEF TypeOK, ManagerTypeOK, PollerEffect
<1>2. \A q \in Proc, i \in Ids :
         op'[q].snap[i] \in {op[q].snap[i], watchers[i], Absent}
    BY IdleTyped DEF PollerEffect
<1>3. \A i \in Ids :
         \/ watchers'[i] \in {watchers[i], rows[i], Absent}
         \/ /\ watchers[i].status # "Absent"
            /\ SameDefinition(i, watchers'[i])
    BY DEF PollerEffect, Present
<1> QED
    BY <1>1, <1>2, <1>3, CopiesStay DEF PollerEffect

LEMMA SweepCopies ==
    ASSUME TypeOK, CopiesAgree, NEW p \in Proc, SweepEffect(p),
           \A id \in Ids :
              \/ watchers'[id] \in {watchers[id], Absent}
              \/ /\ watchers[id].status = "Active"
                 /\ SameDefinition(id, watchers'[id]),
           poll' = poll
    PROVE  CopiesAgree'
<1>1. calls' \in Nat /\ calls <= calls' /\ fresh' \subseteq fresh
    BY DEF TypeOK, ManagerTypeOK, SweepEffect
<1>2. \A q \in Proc, i \in Ids :
         op'[q].snap[i] \in {op[q].snap[i], watchers[i], Absent}
    BY IdleTyped DEF SweepEffect
<1>3. \A i \in Ids :
         \/ watchers'[i] \in {watchers[i], rows[i], Absent}
         \/ /\ watchers[i].status # "Absent"
            /\ SameDefinition(i, watchers'[i])
    OBVIOUS
<1> QED
    BY <1>1, <1>2, <1>3, CopiesStay DEF SweepEffect

----------------------------------------------------------------------------
(* The types and the poll. *)

LEMMA PollInvInit == Init => PollInv
<1> SUFFICES ASSUME Init PROVE PollInv
    OBVIOUS
<1>1. TypeOK
    BY AbsentTyped, IdleTyped
       DEF Init, ManagerInit, TypeOK, ManagerTypeOK, Never, Step, NoPoll
<1>2. PollKnown
    BY Constants DEF Init, ManagerInit, PollKnown, Polling
<1>3. \A d \in Nat, id \in Ids, r \in BOOLEAN : ~Copy(d, id, r)
    BY AbsentTyped, IdleTyped, Constants
       DEF Init, ManagerInit, Copy, Holds, NoPoll
<1> QED
    BY <1>1, <1>2, <1>3 DEF PollInv, CopiesAgree

(* Steps of users and of their follow-ups. *)
LEMMA PollInvUser ==
    ASSUME PollInv, NEW p \in Caller, CallerStep(p)
    PROVE  PollInv'
<1>1. p \in Proc /\ TypeOK /\ PollKnown /\ CopiesAgree
    BY Constants DEF PollInv
<1>2. CASE UserOperation(p) /\ UNCHANGED loopVars
  <2>1. UserEffect(p) /\ poll' = poll /\ UNCHANGED loopVars
    BY <1>1, <1>2, UserStep DEF loopVars
  <2>2. CopiesAgree'
    BY <1>1, <2>1, UserCopies
  <2>3. TypeOK'
    BY <1>1, <2>1 DEF UserEffect, loopVars, followupVars, TypeOK, ManagerTypeOK
  <2>4. PollKnown'
    BY <1>1, <2>1
       DEF UserEffect, loopVars, followupVars, PollKnown, Polling
  <2> QED
    BY <2>2, <2>3, <2>4 DEF PollInv
<1>3. ASSUME NEW f \in queued, Followup(p, f) PROVE PollInv'
  <2>1. f.id \in Ids /\ f \in Poll
    BY <1>1 DEF TypeOK, Poll
  <2>2. PICK w \in Watcher : /\ PollerEffect(p, f.id, w)
                             /\ SameDefinition(f.id, w)
    BY <1>1, <1>3, <2>1, PushEffect DEF Followup
  <2>3. CopiesAgree'
    BY <1>1, <1>3, <2>1, <2>2, PollerCopies DEF Followup
  <2>4. TypeOK'
    BY <1>1, <1>3, <2>2 DEF Followup, PollerEffect, TypeOK, ManagerTypeOK
  <2>5. PollKnown'
    BY <1>1, <1>3, <2>2 DEF Followup, PollerEffect, PollKnown, Polling
  <2> QED
    BY <2>3, <2>4, <2>5 DEF PollInv
<1> QED
    BY <1>2, <1>3 DEF CallerStep

(* Steps that leave the watchers alone. *)
Idling ==
    \/ Wake \/ Nap \/ TickStart \/ TickRefused \/ TickPaused
    \/ get_due_watchers \/ (\E id \in Ids : SkipPoll(id))
    \/ SpawnFollowup \/ DropTick \/ Sleep
    \/ (\E f \in queued : FollowupTimeout(f))
    \/ SwitchAutonomy
    \/ Tick /\ UNCHANGED loopVars

(* Steps of the loop that do something to them. *)
Working ==
    \/ Expire \/ (\E id \in Ids : Notice(id) \/ BeginPoll(id))
    \/ PollFailed \/ PollSucceeded \/ Trigger \/ Cleanup

LEMMA StepKinds ==
    ASSUME Next
    PROVE  \/ Idling \/ Working \/ Restart
           \/ \E p \in Caller : CallerStep(p)
           \/ \E p \in Proc : Persist(p) /\ UNCHANGED loopVars
BY DEF Next, PollerStep, Idling, Working

LEMMA NextWakeupTyped ==
    ASSUME NEW w \in Watcher, NEW t \in Nat
    PROVE  NextWakeupAt(w, t) \in Nat
BY Constants DEF NextWakeupAt, TimedOutAt, Smaller, Larger, Watcher

LEMMA IdlingWatchers ==
    ASSUME TypeOK, Idling
    PROVE  /\ UNCHANGED <<watchers, rows, fresh>>
           /\ op' \in [Proc -> Op]
           /\ \A q \in Proc, id \in Ids :
                 op'[q].snap[id] \in {op[q].snap[id], Absent}
           /\ \A q \in Caller : op'[q] = op[q]
           /\ poll' \in {poll, NoPoll}
<1>1. Poller \notin Caller /\ Poller \in Proc
    BY Constants
<1>2. ASSUME DropTick
      PROVE  /\ op' \in [Proc -> Op]
             /\ \A q \in Proc, id \in Ids :
                   op'[q].snap[id] \in {op[q].snap[id], Absent}
             /\ \A q \in Caller : op'[q] = op[q]
    BY <1>1, <1>2, IdleTyped, Constants DEF DropTick, TypeOK, ManagerTypeOK
<1> QED
    BY <1>2
       DEF Idling, Wake, Nap, TickStart, TickRefused, TickPaused,
           get_due_watchers, SkipPoll, SpawnFollowup, DropTick, Sleep,
           FollowupTimeout, SwitchAutonomy, Tick, loopVars, managerVars,
           TypeOK, ManagerTypeOK

LEMMA PollInvIdling ==
    ASSUME PollInv, Idling
    PROVE  PollInv'
<1>1. TypeOK /\ PollKnown /\ CopiesAgree
    BY DEF PollInv
<1> USE <1>1 DEF At, Goto, managerVars, loopVars, followupVars
<1>2. /\ UNCHANGED <<watchers, rows, fresh>>
      /\ op' \in [Proc -> Op]
      /\ \A q \in Proc, id \in Ids :
            op'[q].snap[id] \in {op[q].snap[id], Absent}
      /\ poll' \in {poll, NoPoll}
    BY IdlingWatchers
<1> HIDE <1>1
<1>3. CASE SwitchAutonomy
  <2>1. calls' \in Nat /\ calls <= calls' /\ calls' <= MaxCalls
    BY <1>1, <1>3, CallCounts DEF SwitchAutonomy, TypeOK, ManagerTypeOK
  <2>2. CopiesAgree'
    <3>1. /\ \A q \in Proc, id \in Ids :
                op'[q].snap[id] \in {op[q].snap[id], watchers[id], Absent}
          /\ \A id \in Ids : rows'[id] = rows[id]
          /\ \A id \in Ids : watchers'[id] = watchers[id]
          /\ fresh' \subseteq fresh
        BY <1>2
    <3> QED
        BY <1>1, <1>2, <2>1, <3>1, CopiesStay
  <2>3. TypeOK' /\ PollKnown'
    BY <1>1, <1>2, <1>3, <2>1
       DEF SwitchAutonomy, TypeOK, ManagerTypeOK, PollKnown, Polling
  <2> QED
    BY <2>2, <2>3 DEF PollInv
<1>4. CASE ~SwitchAutonomy
  <2>1. calls' = calls
    BY <1>4 DEF Idling, Wake, Nap, TickStart, TickRefused, TickPaused,
           get_due_watchers, SkipPoll, SpawnFollowup, DropTick, Sleep,
           FollowupTimeout, Tick
  <2>2. CopiesAgree'
    BY <1>1, <1>2, <2>1, QuietCopies
  <2> SUFFICES TypeOK' /\ PollKnown'
    BY <2>2 DEF PollInv
  <2>3. CASE Wake
    BY <1>1, <1>2, <2>3
       DEF Wake, TypeOK, ManagerTypeOK, PollKnown, Polling, Never, Step
  <2>4. CASE Nap \/ Sleep
    <3>1. deadline' \in Nat
      <4>1. CASE Nap
        BY <1>1, <4>1, Constants, SmallerTyped
           DEF Nap, TypeOK, ManagerTypeOK
      <4>2. CASE Sleep
        BY <1>1, <4>2, Constants, NextWakeupTyped
           DEF Sleep, Earliest, Wakeups, WithStatus, TypeOK, ManagerTypeOK
      <4> QED BY <2>4, <4>1, <4>2
    <3> QED
      BY <1>1, <1>2, <2>4, <3>1
         DEF Nap, Sleep, TypeOK, ManagerTypeOK, PollKnown, Polling, Step
  <2>5. CASE TickStart \/ TickRefused \/ TickPaused
    BY <1>1, <1>2, <2>5
       DEF TickStart, TickRefused, TickPaused, TypeOK, ManagerTypeOK,
           PollKnown, Polling, Step
  <2>6. CASE get_due_watchers
    <3>1. todo' \subseteq Ids /\ todo' \cap fresh = {}
      BY <1>1, <2>6, InMapIsUsed DEF get_due_watchers, IsDue
    <3> QED
      BY <1>1, <1>2, <2>6, <3>1
         DEF get_due_watchers, TypeOK, ManagerTypeOK, PollKnown, Polling, Step
  <2>7. CASE \E id \in Ids : SkipPoll(id)
    BY <1>1, <1>2, <2>7
       DEF SkipPoll, TypeOK, ManagerTypeOK, PollKnown, Polling
  <2>8. CASE SpawnFollowup
    <3>1. poll \in Poll
      BY <1>1, <2>8 DEF SpawnFollowup, PollKnown, Polling
    <3>2. spawned' \in [Definition -> {"never", "live", "past"}]
      BY <1>1, <2>8 DEF SpawnFollowup, TypeOK
    <3> QED
      BY <1>1, <1>2, <2>8, <3>1, <3>2
         DEF SpawnFollowup, TypeOK, ManagerTypeOK, PollKnown, Polling, Step
  <2>9. CASE DropTick
    BY <1>1, <1>2, <2>9
       DEF DropTick, TypeOK, ManagerTypeOK, PollKnown, Polling, Step
  <2>10. CASE \E f \in queued : FollowupTimeout(f)
    BY <1>1, <1>2, <2>10
       DEF FollowupTimeout, TypeOK, ManagerTypeOK, PollKnown, Polling
  <2>11. CASE Tick /\ UNCHANGED loopVars
    BY <1>1, <1>2, <2>11
       DEF Tick, TypeOK, ManagerTypeOK, PollKnown, Polling
  <2> QED
    BY <1>4, <2>3, <2>4, <2>5, <2>6, <2>7, <2>8, <2>9, <2>10, <2>11
       DEF Idling
<1> QED
    BY <1>3, <1>4

LEMMA PollInvWorking ==
    ASSUME PollInv, Working
    PROVE  PollInv'
<1>1. TypeOK /\ PollKnown /\ CopiesAgree /\ Poller \in Proc
    BY Constants DEF PollInv
<1> USE DEF At, Goto, followupVars
<1>2. CASE Expire
  <2>1. /\ SweepEffect(Poller)
        /\ \A id \in Ids :
              \/ watchers'[id] = watchers[id]
              \/ /\ watchers[id].status = "Active"
                 /\ watchers'[id].status = "TimedOut"
                 /\ SameDefinition(id, watchers'[id])
    BY <1>1, <1>2, ExpireEffect DEF Expire
  <2>2. CopiesAgree'
    BY <1>1, <1>2, <2>1, SweepCopies DEF Expire
  <2>3. todo' \subseteq Ids /\ todo' \cap fresh = {}
    BY <1>1, <1>2, InMapIsUsed DEF Expire, Expired
  <2>4. TypeOK'
    BY <1>1, <1>2, <2>1, <2>3
       DEF Expire, SweepEffect, TypeOK, ManagerTypeOK, Step
  <2>5. PollKnown'
    BY <1>1, <1>2, <2>1, <2>3 DEF Expire, SweepEffect, PollKnown, Polling
  <2> QED
    BY <2>2, <2>4, <2>5 DEF PollInv
<1>3. ASSUME NEW id \in Ids, Notice(id) PROVE PollInv'
  <2>1. PICK w \in Watcher : /\ PollerEffect(Poller, id, w)
                             /\ SameDefinition(id, w)
    BY <1>1, <1>3, PushEffect DEF Notice
  <2>2. CopiesAgree'
    BY <1>1, <1>3, <2>1, PollerCopies DEF Notice
  <2>3. TypeOK' /\ PollKnown'
    BY <1>1, <1>3, <2>1
       DEF Notice, PollerEffect, TypeOK, ManagerTypeOK, PollKnown, Polling
  <2> QED
    BY <2>2, <2>3 DEF PollInv
<1>4. ASSUME NEW id \in Ids, BeginPoll(id) PROVE PollInv'
  <2>1. watchers[id].status = "Active"
    BY <1>1, <1>4, BeginPollEffect DEF BeginPoll
  <2>2. PICK w \in Watcher : /\ PollerEffect(Poller, id, w)
                             /\ SameDefinition(id, w)
    BY <1>1, <1>4, BeginPollEffect DEF BeginPoll
  <2>3. CopiesAgree'
    BY <1>1, <1>4, <2>1, <2>2, PollerCopies DEF BeginPoll
  <2>4. watchers[id].def \in Definition /\ watchers[id].repeat \in BOOLEAN
    <3>1. watchers[id].def \in 1..calls
      BY <1>1, <2>1, InMapIsUsed
    <3>2. calls \in Nat /\ calls <= MaxCalls
      BY <1>1 DEF TypeOK, ManagerTypeOK, PollKnown
    <3>3. watchers[id].repeat \in BOOLEAN
      BY <1>1 DEF TypeOK, ManagerTypeOK, Watcher
    <3> QED
      BY <3>1, <3>2, <3>3, Constants DEF Definition
  <2>5. poll' \in Poll /\ poll'.id \notin todo'
    BY <1>4, <2>4 DEF BeginPoll, Poll
  <2>6. TypeOK' /\ PollKnown'
    BY <1>1, <1>4, <2>2, <2>5
       DEF BeginPoll, PollerEffect, TypeOK, ManagerTypeOK, PollKnown, Polling,
           Step
  <2> QED
    BY <2>3, <2>6 DEF PollInv
<1>5. CASE PollFailed \/ PollSucceeded
  <2>1. poll \in Poll /\ poll.id \in Ids
    BY <1>1, <1>5 DEF PollFailed, PollSucceeded, PollKnown, Polling, Poll
  <2>2. PICK w \in Watcher : /\ PollerEffect(Poller, poll.id, w)
                             /\ SameDefinition(poll.id, w)
    BY <1>1, <1>5, <2>1, PollResultEffect DEF PollFailed, PollSucceeded
  <2>3. poll' \in {poll, NoPoll}
    BY <1>5 DEF PollFailed, PollSucceeded
  <2>4. CopiesAgree'
    BY <1>1, <2>1, <2>2, <2>3, PollerCopies
  <2>5. TypeOK' /\ PollKnown'
    BY <1>1, <1>5, <2>1, <2>2
       DEF PollFailed, PollSucceeded, PollerEffect, TypeOK, ManagerTypeOK,
           PollKnown, Polling, Step
  <2> QED
    BY <2>4, <2>5 DEF PollInv
<1>6. CASE Trigger
  <2>1. poll \in Poll /\ poll.id \in Ids
    BY <1>1, <1>6 DEF Trigger, PollKnown, Polling, Poll
  <2>2. PICK w \in Watcher : /\ PollerEffect(Poller, poll.id, w)
                             /\ SameDefinition(poll.id, w)
    BY <1>1, <1>6, <2>1, MarkTriggeredEffect DEF Trigger
  <2>3. CopiesAgree'
    BY <1>1, <1>6, <2>1, <2>2, PollerCopies DEF Trigger
  <2>4. TypeOK' /\ PollKnown'
    BY <1>1, <1>6, <2>1, <2>2
       DEF Trigger, PollerEffect, TypeOK, ManagerTypeOK, PollKnown, Polling,
           Step
  <2> QED
    BY <2>3, <2>4 DEF PollInv
<1>7. CASE Cleanup
  <2>1. /\ SweepEffect(Poller)
        /\ \A id \in Ids : watchers'[id] \in {watchers[id], Absent}
    BY <1>1, <1>7, CleanupEffect DEF Cleanup
  <2>2. CopiesAgree'
    BY <1>1, <1>7, <2>1, SweepCopies DEF Cleanup
  <2>3. TypeOK' /\ PollKnown'
    BY <1>1, <1>7, <2>1
       DEF Cleanup, SweepEffect, TypeOK, ManagerTypeOK, PollKnown, Polling,
           Step
  <2> QED
    BY <2>2, <2>3 DEF PollInv
<1> QED
    BY <1>2, <1>3, <1>4, <1>5, <1>6, <1>7 DEF Working

LEMMA PollInvPersist ==
    ASSUME PollInv, NEW p \in Proc, Persist(p), UNCHANGED loopVars
    PROVE  PollInv'
<1>1. TypeOK /\ PollKnown /\ CopiesAgree
    BY DEF PollInv
<1>2. /\ op' \in [Proc -> Op]
      /\ rows' \in [Ids -> Watcher]
      /\ permit' \in BOOLEAN
      /\ UNCHANGED <<now, watchers, fresh, calls>>
      /\ \A q \in Proc, id \in Ids :
            op'[q].snap[id] \in {op[q].snap[id], watchers[id], Absent}
      /\ \A id \in Ids : \/ rows'[id] = rows[id]
                         \/ \E q \in Proc : rows'[id] = op[q].snap[id]
    BY <1>1, PersistEffect
<1>3. TypeOK' /\ PollKnown'
    BY <1>1, <1>2
       DEF loopVars, followupVars, TypeOK, ManagerTypeOK, PollKnown, Polling
<1>4. /\ calls' \in Nat /\ calls <= calls' /\ fresh' \subseteq fresh
      /\ \A id \in Ids : watchers'[id] = watchers[id]
      /\ poll' = poll
    BY <1>1, <1>2 DEF TypeOK, ManagerTypeOK, loopVars
<1>5. CopiesAgree'
    BY <1>1, <1>2, <1>4, CopiesStay
<1> QED
    BY <1>3, <1>5 DEF PollInv

LEMMA RestartEffect ==
    ASSUME TypeOK, Restart
    PROVE  /\ watchers' \in [Ids -> Watcher]
           /\ \A id \in Ids : watchers'[id] \in {rows[id], Absent}
           /\ op' \in [Proc -> Op]
           /\ \A q \in Proc : op'[q] = Idle
           /\ \A d \in Definition : spawned'[d] # "live"
           /\ spawned' \in [Definition -> {"never", "live", "past"}]
<1>1. \/ watchers' = rows
      \/ watchers' = [id \in Ids |-> Absent]
    BY DEF Restart, new
<1>2. watchers' \in [Ids -> Watcher]
      /\ \A id \in Ids : watchers'[id] \in {rows[id], Absent}
    BY <1>1, AbsentTyped DEF TypeOK, ManagerTypeOK
<1>3. op' \in [Proc -> Op] /\ \A q \in Proc : op'[q] = Idle
    BY IdleTyped DEF Restart, new
<1>4. spawned' = [d \in Definition |->
                     IF spawned[d] = "live" THEN "past" ELSE spawned[d]]
    BY DEF Restart
<1> QED
    BY <1>2, <1>3, <1>4 DEF TypeOK

LEMMA PollInvRestart ==
    ASSUME PollInv, Restart
    PROVE  PollInv'
<1>1. TypeOK /\ PollKnown /\ CopiesAgree
    BY DEF PollInv
<1>2. /\ watchers' \in [Ids -> Watcher]
      /\ \A id \in Ids : watchers'[id] \in {rows[id], Absent}
      /\ op' \in [Proc -> Op]
      /\ \A q \in Proc : op'[q] = Idle
      /\ spawned' \in [Definition -> {"never", "live", "past"}]
    BY <1>1, RestartEffect
<1>3. /\ restarts' = restarts + 1 /\ pc' = "woken"
      /\ todo' = {} /\ queued' = {} /\ deadline' = Never
      /\ poll' = NoPoll /\ paused' = paused /\ permit' = FALSE
      /\ UNCHANGED <<now, rows, fresh, calls>>
    BY DEF Restart, new
<1>4. ManagerTypeOK'
    BY <1>1, <1>2, <1>3 DEF TypeOK, ManagerTypeOK
<1>5. TypeOK'
    BY <1>1, <1>2, <1>3, <1>4 DEF TypeOK, Never, Step
<1>6. PollKnown'
    BY <1>1, <1>3 DEF PollKnown, Polling
<1>7. /\ calls' \in Nat /\ calls <= calls' /\ fresh' \subseteq fresh
      /\ \A q \in Proc, id \in Ids : op'[q].snap[id] = Absent
      /\ \A id \in Ids : rows'[id] = rows[id]
      /\ poll' = NoPoll
    BY <1>1, <1>2, IdleTyped DEF TypeOK, ManagerTypeOK, Restart, new
<1>8. CopiesAgree'
    BY <1>1, <1>2, <1>7, CopiesStay
<1> QED
    BY <1>5, <1>6, <1>8 DEF PollInv

LEMMA PollInvStep == PollInv /\ [Next]_vars => PollInv'
<1> SUFFICES ASSUME PollInv, [Next]_vars PROVE PollInv'
    OBVIOUS
<1>1. CASE Next
    BY <1>1, StepKinds, PollInvIdling, PollInvWorking, PollInvRestart,
       PollInvUser, PollInvPersist
<1>2. CASE UNCHANGED vars
  <2>1. TypeOK' /\ PollKnown'
    BY <1>2
       DEF vars, managerVars, loopVars, followupVars, PollInv, TypeOK,
           ManagerTypeOK, PollKnown, Polling
  <2>2. CopiesAgree'
    BY <1>2 DEF vars, managerVars, loopVars, PollInv, CopiesAgree, Copy, Holds
  <2> QED
    BY <2>1, <2>2 DEF PollInv
<1> QED
    BY <1>1, <1>2

LEMMA PollInvHolds == Spec => []PollInv
BY PollInvInit, PollInvStep, PTL DEF Spec

(* The watchers, their rows and snapshots, the clone being polled and the  *)
(* follow-ups waiting keep their types, for any number of watchers and     *)
(* callers.                                                                *)
THEOREM TypeCorrect == Spec => []TypeOK
<1>1. PollInv => TypeOK
    BY DEF PollInv
<1> QED
    BY <1>1, PollInvHolds, PTL

----------------------------------------------------------------------------
(* No wakeup is lost. *)

(* The next wakeup of a watcher does not come nearer by waiting. *)
LEMMA WakeupMonotone ==
    ASSUME NEW w \in Watcher, NEW t \in Nat
    PROVE  NextWakeupAt(w, t) <= NextWakeupAt(w, t + 1)
<1> DEFINE end == TimedOutAt(w)
           next(u) == IF w.lastPoll = Never THEN u ELSE w.lastPoll + Interval
           poll1(u) == Larger(next(u), w.notBefore)
<1>1. end \in Nat /\ w.notBefore \in Nat /\ w.lastPoll \in Nat
    BY DEF Watcher, TimedOutAt
<1>2. next(t) \in Nat /\ next(t + 1) \in Nat /\ next(t) <= next(t + 1)
    BY <1>1, Constants
<1>3. \A u \in Nat : NextWakeupAt(w, u) = IF end <= u THEN u
                                          ELSE Smaller(poll1(u), end)
    BY DEF NextWakeupAt
<1> HIDE DEF end, next
<1>4. /\ poll1(t) \in Nat /\ poll1(t + 1) \in Nat /\ poll1(t) <= poll1(t + 1)
    BY <1>1, <1>2 DEF Larger
<1> HIDE DEF poll1
<1> QED
    BY <1>1, <1>3, <1>4 DEF Smaller

LEMMA NoLostWakeupStep ==
    ASSUME TypeOK, CopiesAgree, NoLostWakeup, [Next]_vars
    PROVE  NoLostWakeup'
<1> USE DEF At, Goto, followupVars
<1>1. Caller \subseteq Proc
    BY Constants
<1>2. ASSUME NEW p \in Caller, CallerStep(p) PROVE NoLostWakeup'
  <2>1. CASE UserOperation(p)
    BY <1>1, <2>1, UserStep DEF UserEffect, NoLostWakeup
  <2>2. ASSUME NEW f \in queued, Followup(p, f) PROVE NoLostWakeup'
    <3>1. f.id \in Ids /\ p \in Proc
      BY <1>1 DEF TypeOK, Poll
    <3>2. PICK w \in Watcher : /\ PollerEffect(p, f.id, w)
                               /\ w.status = watchers[f.id].status
                               /\ w.created = watchers[f.id].created
                               /\ w.timeout = watchers[f.id].timeout
                               /\ w.lastPoll = watchers[f.id].lastPoll
                               /\ w.notBefore = watchers[f.id].notBefore
      BY <2>2, <3>1, PushEffect DEF Followup
    <3>3. \A id \in Ids : watchers'[id].status = "Active" =>
              /\ watchers[id].status = "Active"
              /\ NextWakeupAt(watchers'[id], now')
                    = NextWakeupAt(watchers[id], now)
      BY <3>1, <3>2, AbsentTyped
         DEF PollerEffect, Present, NextWakeupAt, TimedOutAt
    <3>4. \A q \in Caller : op[q].notify => op'[q].notify
      <4>1. ~op[p].notify
        BY <3>2, IdleTyped DEF PollerEffect
      <4>2. \A q \in Proc \ {p} : op'[q] = op[q]
        BY <3>2 DEF PollerEffect
      <4> QED
        BY <1>1, <4>1, <4>2
    <3>5. UNCHANGED <<pc, deadline, permit>>
      BY <2>2, <3>2 DEF Followup, PollerEffect
    <3> QED
      BY <3>3, <3>4, <3>5 DEF NoLostWakeup, WithStatus
  <2> QED
    BY <1>2, <2>1, <2>2 DEF CallerStep
<1>3. ASSUME NEW p \in Proc, Persist(p), UNCHANGED loopVars
      PROVE  NoLostWakeup'
  <2>1. /\ UNCHANGED <<now, watchers>>
        /\ \A q \in Proc : op[q].notify => op'[q].notify \/ permit'
        /\ permit => permit'
    BY <1>3, PersistEffect
  <2> QED
    BY <1>1, <1>3, <2>1 DEF NoLostWakeup, WithStatus, loopVars
<1>4. CASE Sleep
  <2>1. \A id \in WithStatus({"Active"}) :
            deadline' <= NextWakeupAt(watchers[id], now)
    BY <1>4 DEF Sleep, Earliest, Wakeups
  <2> QED
    BY <1>4, <2>1 DEF Sleep, managerVars, NoLostWakeup, WithStatus
<1>5. CASE Tick /\ UNCHANGED loopVars
  <2>1. UNCHANGED <<watchers, op, permit, pc, deadline>> /\ now' = now + 1
    BY <1>5 DEF Tick, loopVars
  <2>2. ASSUME NEW id \in Ids, deadline <= NextWakeupAt(watchers[id], now)
        PROVE  deadline' <= NextWakeupAt(watchers[id], now')
    <3>1. watchers[id] \in Watcher /\ now \in Nat /\ deadline \in Nat
      BY DEF TypeOK, ManagerTypeOK
    <3>2. NextWakeupAt(watchers[id], now) <= NextWakeupAt(watchers[id], now + 1)
      BY <3>1, WakeupMonotone
    <3>3. /\ NextWakeupAt(watchers[id], now) \in Nat
          /\ NextWakeupAt(watchers[id], now + 1) \in Nat
      BY <3>1, NextWakeupTyped
    <3> QED
      BY <2>1, <2>2, <3>1, <3>2, <3>3
  <2> QED
    BY <2>1, <2>2 DEF NoLostWakeup, WithStatus
<1>6. CASE SwitchAutonomy \/ \E f \in queued : FollowupTimeout(f)
  <2>1. UNCHANGED <<now, watchers, op, permit, pc, deadline>>
    BY <1>6 DEF SwitchAutonomy, FollowupTimeout, managerVars
  <2> QED
    BY <2>1 DEF NoLostWakeup, WithStatus
<1>7. CASE \/ Wake \/ Nap \/ TickStart \/ TickRefused \/ TickPaused
           \/ get_due_watchers \/ (\E id \in Ids : SkipPoll(id))
           \/ SpawnFollowup \/ DropTick \/ Working \/ Restart
  <2>1. pc' # "asleep"
    BY <1>7
       DEF Wake, Nap, TickStart, TickRefused, TickPaused, get_due_watchers,
           SkipPoll, SpawnFollowup, DropTick, Working, Restart, Expire,
           Notice, BeginPoll, PollFailed, PollSucceeded, Trigger, Cleanup
  <2> QED
    BY <2>1 DEF NoLostWakeup
<1>8. CASE UNCHANGED vars
    BY <1>8 DEF vars, managerVars, loopVars, NoLostWakeup, WithStatus
<1> QED
    BY <1>2, <1>3, <1>4, <1>5, <1>6, <1>7, <1>8, StepKinds DEF Idling

(* While the loop sleeps, its timer, the permit or a change on its way     *)
(* covers every active watcher (SentinelWatchers.NoLostWakeup), whatever   *)
(* the intervals, timeouts and backoffs are.                               *)
THEOREM WakeupsAreNotLost == Spec => []NoLostWakeup
<1>1. Init => NoLostWakeup
    BY DEF Init, NoLostWakeup
<1>2. PollInv /\ NoLostWakeup /\ [Next]_vars => NoLostWakeup'
    BY NoLostWakeupStep DEF PollInv
<1> QED
    BY <1>1, <1>2, PollInvHolds, PTL DEF Spec

----------------------------------------------------------------------------
(* Polls keep their distance. *)

LEMMA AbsentRested == TypeOK => Rested(Absent)
BY DEF TypeOK, ManagerTypeOK, Rested, Absent, Never

(* Watchers nothing is polled of may be replaced. *)
LEMMA RestedStep ==
    ASSUME TypeOK, DueAreRested, NEW id \in Ids, NEW w \in Watcher,
           NEW p \in Proc, PollerEffect(p, id, w), id \notin todo',
           todo' \subseteq todo, pc \in {"poll"} \/ Polling
    PROVE  DueAreRested'
<1>1. \A i \in todo' : i # id /\ watchers'[i] = watchers[i] /\ now' = now
    BY DEF PollerEffect, TypeOK
<1> QED
    BY <1>1 DEF DueAreRested, Rested

LEMMA DueAreRestedStep ==
    ASSUME PollInv, DueAreRested, [Next]_vars
    PROVE  DueAreRested'
<1> USE DEF At, Goto, followupVars
<1>1. TypeOK /\ PollKnown /\ CopiesAgree /\ Caller \subseteq Proc
      /\ Poller \in Proc /\ now \in Nat
    BY Constants DEF PollInv, TypeOK, ManagerTypeOK
<1>2. ASSUME NEW p \in Caller, CallerStep(p) PROVE DueAreRested'
  <2>1. CASE UserOperation(p) /\ UNCHANGED loopVars
    <3>1. UserEffect(p)
      BY <1>1, <2>1, UserStep
    <3>2. ASSUME NEW id \in todo, Rested(watchers[id])
          PROVE  Rested(watchers'[id])
      <4>1. id \in Ids /\ id \notin fresh
        BY <1>1 DEF TypeOK, PollKnown
      <4>2. Moved(id) \/ Created(id)
        BY <3>1, <4>1 DEF UserEffect
      <4>3. CASE Moved(id)
        BY <1>1, <3>2, <4>3, AbsentRested DEF Moved, Edited, Rested, Never
      <4>4. CASE Created(id)
        BY <1>1, <4>1, <4>4 DEF Created, Rested, Never
      <4> QED
        BY <4>2, <4>3, <4>4
    <3> QED
      BY <2>1, <3>1, <3>2
         DEF UserEffect, loopVars, DueAreRested, Polling, Rested
  <2>2. ASSUME NEW f \in queued, Followup(p, f) PROVE DueAreRested'
    <3>1. f.id \in Ids /\ p \in Proc
      BY <1>1 DEF TypeOK, Poll
    <3>2. PICK w \in Watcher : /\ PollerEffect(p, f.id, w)
                               /\ w.lastPoll = watchers[f.id].lastPoll
                               /\ w.notBefore = watchers[f.id].notBefore
      BY <1>1, <2>2, <3>1, PushEffect DEF Followup
    <3>3. \A id \in Ids : Rested(watchers[id]) => Rested(watchers'[id])
      BY <1>1, <3>2, AbsentRested DEF PollerEffect, Rested
    <3> QED
      BY <1>1, <2>2, <3>2, <3>3
         DEF Followup, PollerEffect, DueAreRested, Polling, Rested, TypeOK
  <2> QED
    BY <1>2, <2>1, <2>2 DEF CallerStep
<1>3. ASSUME NEW p \in Proc, Persist(p), UNCHANGED loopVars
      PROVE  DueAreRested'
  <2>1. UNCHANGED <<now, watchers>>
    BY <1>1, <1>3, PersistEffect
  <2> QED
    BY <1>3, <2>1 DEF DueAreRested, Polling, Rested, loopVars
<1>4. CASE get_due_watchers
  <2>1. \A id \in todo' : id \in Ids /\ IsDue(watchers[id], now)
    BY <1>4 DEF get_due_watchers
  <2>2. \A id \in Ids : IsDue(watchers[id], now) => Rested(watchers[id])
    BY <1>1, Constants
       DEF TypeOK, ManagerTypeOK, Watcher, IsDue, Rested, Never
  <2> QED
    BY <1>4, <2>1, <2>2
       DEF get_due_watchers, managerVars, DueAreRested, Rested
<1>5. CASE \/ \E id \in Ids : SkipPoll(id)
           \/ SpawnFollowup
           \/ SwitchAutonomy
           \/ \E f \in queued : FollowupTimeout(f)
           \/ UNCHANGED vars
  <2>1. /\ UNCHANGED <<now, watchers>> /\ todo' \subseteq todo
        /\ pc' = "poll" \/ Polling' => pc = "poll" \/ Polling
    BY <1>5
       DEF SkipPoll, SpawnFollowup, SwitchAutonomy, FollowupTimeout, vars,
           managerVars, loopVars, Polling
  <2> QED
    BY <2>1 DEF DueAreRested, Rested
<1>6. CASE Tick /\ UNCHANGED loopVars
  <2>1. now' = now + 1 /\ UNCHANGED <<watchers, pc, todo>>
    BY <1>6 DEF Tick, loopVars
  <2>2. \A id \in todo : watchers[id] \in Watcher
    BY <1>1 DEF TypeOK, ManagerTypeOK
  <2>3. \A id \in todo : Rested(watchers[id]) => Rested(watchers[id])'
    BY <1>1, <2>1, <2>2, Constants DEF Rested, Watcher
  <2> QED
    BY <2>1, <2>3 DEF DueAreRested, Polling
<1>7. ASSUME NEW id \in Ids, BeginPoll(id) PROVE DueAreRested'
  <2>1. PICK w \in Watcher : PollerEffect(Poller, id, w)
    BY <1>1, <1>7, BeginPollEffect DEF BeginPoll
  <2> QED
    BY <1>1, <1>7, <2>1, RestedStep DEF BeginPoll
<1>8. CASE PollFailed \/ PollSucceeded
  <2>1. poll \in Poll /\ poll.id \in Ids /\ poll.id \notin todo /\ Polling
    BY <1>1, <1>8 DEF PollFailed, PollSucceeded, PollKnown, Polling, Poll
  <2>2. PICK w \in Watcher : PollerEffect(Poller, poll.id, w)
    BY <1>1, <1>8, <2>1, PollResultEffect DEF PollFailed, PollSucceeded
  <2> QED
    BY <1>1, <1>8, <2>1, <2>2, RestedStep DEF PollFailed, PollSucceeded
<1>9. CASE Trigger
  <2>1. poll \in Poll /\ poll.id \in Ids /\ poll.id \notin todo /\ Polling
    BY <1>1, <1>9 DEF Trigger, PollKnown, Polling, Poll
  <2>2. PICK w \in Watcher : PollerEffect(Poller, poll.id, w)
    BY <1>1, <1>9, <2>1, MarkTriggeredEffect DEF Trigger
  <2> QED
    BY <1>1, <1>9, <2>1, <2>2, RestedStep DEF Trigger
<1>10. CASE \/ Wake \/ Nap \/ TickStart \/ TickRefused \/ TickPaused
            \/ Expire \/ (\E id \in Ids : Notice(id)) \/ Cleanup \/ DropTick
            \/ Sleep \/ Restart
  <2>1. pc' # "poll" /\ ~Polling'
    BY <1>10
       DEF Wake, Nap, TickStart, TickRefused, TickPaused, Expire, Notice,
           Cleanup, DropTick, Sleep, Restart, Polling
  <2> QED
    BY <2>1 DEF DueAreRested
<1> QED
    BY <1>2, <1>3, <1>4, <1>5, <1>6, <1>7, <1>8, <1>9, <1>10, StepKinds
       DEF Idling, Working

LEMMA DueAreRestedHolds == Spec => [](PollInv /\ DueAreRested)
<1>1. Init => DueAreRested
    BY DEF Init, DueAreRested, Polling
<1>2. PollInv /\ DueAreRested /\ [Next]_vars => DueAreRested'
    BY DueAreRestedStep
<1> QED
    BY <1>1, <1>2, PollInvHolds, PTL DEF Spec

(* No poll starts inside the interval or the backoff of its watcher        *)
(* (SentinelWatchers.PollsAreSpaced), though begin_poll looks only at the  *)
(* status and runs long after get_due_watchers.                            *)
THEOREM PollsKeepTheirDistance == Spec => PollsAreSpaced
<1>1. TypeOK /\ DueAreRested => SpacedPoll
  <2> SUFFICES ASSUME TypeOK, DueAreRested, NEW id \in Ids, BeginPoll(id)
               PROVE  /\ watchers[id].notBefore <= now
                      /\ \/ watchers[id].lastPoll = Never
                         \/ now >= watchers[id].lastPoll + Interval
    BY DEF SpacedPoll
  <2> QED
    BY DEF BeginPoll, At, DueAreRested, Rested
<1>2. PollInv /\ DueAreRested /\ [Next]_vars => [SpacedPoll]_vars
    BY <1>1 DEF PollInv
<1> QED
    BY <1>2, DueAreRestedHolds, PTL DEF Spec, PollsAreSpaced

----------------------------------------------------------------------------
(* Verdicts are final. *)

LEMMA VerdictOpenStep ==
    ASSUME PollInv, VerdictOpen, [Next]_vars
    PROVE  VerdictOpen'
<1> USE DEF At, Goto, followupVars
<1>1. TypeOK /\ PollKnown /\ CopiesAgree /\ Caller \subseteq Proc
      /\ Poller \in Proc
    BY Constants DEF PollInv
<1>2. pc \in {"external", "matched"} => poll.id \in Ids
    BY <1>1 DEF PollKnown, Polling, Poll
<1>3. ASSUME NEW p \in Caller, CallerStep(p) PROVE VerdictOpen'
  <2>1. CASE UserOperation(p) /\ UNCHANGED loopVars
    <3>1. UserEffect(p)
      BY <1>1, <2>1, UserStep
    <3>2. \A id \in Ids : Moved(id) \/ Created(id)
      BY <3>1 DEF UserEffect
    <3> QED
      BY <1>2, <2>1, <3>2, AbsentTyped
         DEF loopVars, VerdictOpen, Moved, Edited, Created
  <2>2. ASSUME NEW f \in queued, Followup(p, f) PROVE VerdictOpen'
    <3>1. f.id \in Ids /\ p \in Proc
      BY <1>1 DEF TypeOK, Poll
    <3>2. PICK w \in Watcher : /\ PollerEffect(p, f.id, w)
                               /\ w.status = watchers[f.id].status
      BY <1>1, <2>2, <3>1, PushEffect DEF Followup
    <3> QED
      BY <1>2, <2>2, <3>2, AbsentTyped DEF Followup, PollerEffect, VerdictOpen
  <2> QED
    BY <1>3, <2>1, <2>2 DEF CallerStep
<1>4. ASSUME NEW p \in Proc, Persist(p), UNCHANGED loopVars
      PROVE  VerdictOpen'
    BY <1>1, <1>4, PersistEffect DEF VerdictOpen, loopVars
<1>5. CASE \/ SwitchAutonomy
           \/ \E f \in queued : FollowupTimeout(f)
           \/ Tick /\ UNCHANGED loopVars
           \/ UNCHANGED vars
    BY <1>5
       DEF SwitchAutonomy, FollowupTimeout, Tick, vars, managerVars, loopVars,
           VerdictOpen
<1>6. ASSUME NEW id \in Ids, BeginPoll(id) PROVE VerdictOpen'
  <2>1. PICK w \in Watcher : PollerEffect(Poller, id, w) /\ w.status = "Active"
    BY <1>1, <1>6, BeginPollEffect DEF BeginPoll
  <2>2. poll'.id = id
    BY <1>6 DEF BeginPoll
  <2> QED
    BY <2>1, <2>2, AbsentTyped DEF PollerEffect, VerdictOpen
<1>7. CASE PollSucceeded
  <2>1. PICK w \in Watcher : /\ PollerEffect(Poller, poll.id, w)
                             /\ w.status \in {watchers[poll.id].status,
                                              "Paused"}
    BY <1>1, <1>2, <1>7, PollResultEffect DEF PollSucceeded
  <2>2. poll' = poll \/ pc' = "poll"
    BY <1>7 DEF PollSucceeded
  <2>3. watchers[poll.id].status \notin {"Triggered", "TimedOut"}
    BY <1>7 DEF PollSucceeded, VerdictOpen
  <2> QED
    BY <2>1, <2>2, <2>3, AbsentTyped DEF PollerEffect, VerdictOpen
<1>8. CASE \/ Wake \/ Nap \/ TickStart \/ TickRefused \/ TickPaused \/ Expire
           \/ (\E id \in Ids : Notice(id) \/ SkipPoll(id)) \/ PollFailed
           \/ get_due_watchers \/ Trigger \/ SpawnFollowup \/ Cleanup
           \/ DropTick \/ Sleep \/ Restart
  <2>1. pc' \notin {"external", "matched"}
    BY <1>8
       DEF Wake, Nap, TickStart, TickRefused, TickPaused, Expire, Notice,
           SkipPoll, PollFailed, get_due_watchers, Trigger, SpawnFollowup,
           Cleanup, DropTick, Sleep, Restart
  <2> QED
    BY <2>1 DEF VerdictOpen
<1> QED
    BY <1>3, <1>4, <1>5, <1>6, <1>7, <1>8, StepKinds DEF Idling, Working

LEMMA VerdictKeptStep ==
    ASSUME PollInv, VerdictOpen, Next
    PROVE  VerdictKept
<1> USE DEF At, followupVars
<1>1. TypeOK /\ PollKnown /\ CopiesAgree /\ Caller \subseteq Proc
      /\ Poller \in Proc
    BY Constants DEF PollInv
<1> SUFFICES ASSUME ~Restart, NEW id \in Ids,
                    watchers[id].status \in {"Triggered", "TimedOut"},
                    watchers'[id].def = watchers[id].def
             PROVE  watchers'[id].status = watchers[id].status
    BY DEF VerdictKept
<1>2. watchers[id].def \in 1..calls /\ calls \in Nat
    BY <1>1, InMapIsUsed DEF TypeOK, ManagerTypeOK
<1>3. watchers'[id] # Absent
    BY <1>2 DEF Absent
<1>4. CASE watchers'[id] = watchers[id]
    BY <1>4
<1>5. ASSUME NEW p \in Caller, CallerStep(p), watchers'[id] # watchers[id]
      PROVE  watchers'[id].status = watchers[id].status
  <2>1. CASE UserOperation(p)
    <3>1. UserEffect(p)
      BY <1>1, <2>1, UserStep
    <3>2. Moved(id) \/ Created(id)
      BY <3>1 DEF UserEffect
    <3> QED
      BY <1>2, <1>3, <1>5, <3>2 DEF Moved, Edited, Created
  <2>2. ASSUME NEW f \in queued, Followup(p, f)
        PROVE  watchers'[id].status = watchers[id].status
    <3>1. f.id \in Ids /\ p \in Proc
      BY <1>1 DEF TypeOK, Poll
    <3>2. PICK w \in Watcher : /\ PollerEffect(p, f.id, w)
                               /\ w.status = watchers[f.id].status
      BY <1>1, <2>2, <3>1, PushEffect DEF Followup
    <3> QED
      BY <1>3, <3>1, <3>2 DEF PollerEffect
  <2> QED
    BY <1>5, <2>1, <2>2 DEF CallerStep
<1>6. ASSUME NEW p \in Proc, Persist(p) PROVE watchers'[id] = watchers[id]
    BY <1>1, <1>6, PersistEffect
<1>7. CASE Idling
    BY <1>1, <1>7, IdlingWatchers
<1>8. CASE Expire
    BY <1>1, <1>8, ExpireEffect DEF Expire
<1>9. ASSUME NEW i \in Ids, Notice(i)
      PROVE  watchers'[id].status = watchers[id].status
  <2>1. PICK w \in Watcher : /\ PollerEffect(Poller, i, w)
                             /\ w.status = watchers[i].status
    BY <1>1, <1>9, PushEffect DEF Notice
  <2> QED
    BY <1>3, <2>1 DEF PollerEffect
<1>10. ASSUME NEW i \in Ids, BeginPoll(i)
       PROVE  watchers'[id].status = watchers[id].status
  <2>1. i # id
    BY <1>1, <1>10, BeginPollEffect DEF BeginPoll
  <2>2. PICK w \in Watcher : PollerEffect(Poller, i, w)
    BY <1>1, <1>10, BeginPollEffect DEF BeginPoll
  <2> QED
    BY <2>1, <2>2 DEF PollerEffect
<1>11. CASE PollFailed \/ PollSucceeded \/ Trigger
  <2>1. poll.id \in Ids /\ pc \in {"external", "matched"}
    BY <1>1, <1>11
       DEF PollFailed, PollSucceeded, Trigger, PollKnown, Polling, Poll
  <2>2. poll.id # id
    BY <2>1 DEF VerdictOpen
  <2>3. PICK w \in Watcher : PollerEffect(Poller, poll.id, w)
    BY <1>1, <1>11, <2>1, PollResultEffect, MarkTriggeredEffect
       DEF PollFailed, PollSucceeded, Trigger
  <2> QED
    BY <2>2, <2>3 DEF PollerEffect
<1>12. CASE Cleanup
    BY <1>1, <1>3, <1>12, CleanupEffect DEF Cleanup
<1> QED
    BY <1>4, <1>5, <1>6, <1>7, <1>8, <1>9, <1>10, <1>11, <1>12, StepKinds
       DEF Working

(* A watcher that triggered or timed out stays so until its definition is  *)
(* replaced or the process restarts (SentinelWatchers.VerdictsAreFinal),   *)
(* though the results of a poll are recorded without a look at the status. *)
THEOREM VerdictsStay == Spec => VerdictsAreFinal
<1>1. Init => VerdictOpen
    BY DEF Init, VerdictOpen
<1>2. PollInv /\ VerdictOpen /\ [Next]_vars => VerdictOpen'
    BY VerdictOpenStep
<1>3. PollInv /\ VerdictOpen /\ [Next]_vars => [VerdictKept]_vars
    BY VerdictKeptStep
<1> QED
    BY <1>1, <1>2, <1>3, PollInvHolds, PTL DEF Spec, VerdictsAreFinal

----------------------------------------------------------------------------
(* A one-shot definition fires once. *)

LEMMA InPollIsUsed ==
    ASSUME PollInv, Polling
    PROVE  /\ poll \in Poll /\ poll.id \in Ids /\ poll.def \in Definition
           /\ poll.def \in 1..calls
           /\ \A id \in Ids :
                 (Present(id) /\ watchers[id].def = poll.def) =>
                     id = poll.id /\ watchers[id].repeat = poll.repeat
<1>1. /\ poll \in Poll /\ poll.id \in Ids /\ poll.def \in Definition
      /\ poll.repeat \in BOOLEAN
      /\ poll = [id |-> poll.id, def |-> poll.def, repeat |-> poll.repeat]
    BY DEF PollInv, PollKnown, Poll
<1>2. poll.def \in Nat
    BY <1>1 DEF Definition
<1>3. Copy(poll.def, poll.id, poll.repeat)
    BY <1>1 DEF Copy
<1>4. /\ poll.def \in 1..calls
      /\ \A id \in Ids, r \in BOOLEAN :
            Copy(poll.def, id, r) => id = poll.id /\ r = poll.repeat
    BY <1>1, <1>2, <1>3 DEF PollInv, CopiesAgree
<1>5. ASSUME NEW id \in Ids, Present(id), watchers[id].def = poll.def
      PROVE  id = poll.id /\ watchers[id].repeat = poll.repeat
  <2>1. watchers[id].repeat \in BOOLEAN
    BY DEF PollInv, TypeOK, ManagerTypeOK, Watcher
  <2>2. Copy(poll.def, id, watchers[id].repeat)
    BY <1>5 DEF Copy, Holds, Present
  <2> QED
    BY <1>4, <2>1, <2>2
<1> QED
    BY <1>1, <1>4, <1>5

(* No definition fires, and no watcher comes alive. *)
LEMMA NothingFires ==
    ASSUME FiredInv, calls \in Nat, calls' \in Nat, calls <= calls',
           UNCHANGED spawned,
           \A id \in Ids : MayFire(id)' =>
              MayFire(id) /\ SameDefinition(id, watchers'[id]),
           Polling' => poll' = poll /\ Polling,
           pc' = "triggered" =>
              /\ pc = "triggered"
              /\ \A id \in Ids : Alive(id)' => Alive(id)
    PROVE  FiredInv'
<1>1. AliveNotFired'
    BY DEF FiredInv, AliveNotFired, SameDefinition
<1>2. TriggeredNotAlive'
    BY DEF FiredInv, TriggeredNotAlive, Polling, SameDefinition, MayFire
<1>3. UnusedNotFired'
    BY DEF FiredInv, UnusedNotFired, Definition
<1>4. OneShotFiresOnce'
    BY DEF FiredInv, OneShotFiresOnce, Polling
<1> QED
    BY <1>1, <1>2, <1>3, <1>4 DEF FiredInv

LEMMA FiredUser ==
    ASSUME PollInv, FiredInv, NEW p \in Caller, CallerStep(p)
    PROVE  FiredInv'
<1>1. TypeOK /\ CopiesAgree /\ p \in Proc /\ calls \in Nat
    BY Constants DEF PollInv, TypeOK, ManagerTypeOK
<1>2. CASE UserOperation(p) /\ UNCHANGED loopVars
  <2>1. /\ calls' = calls + 1 /\ calls' <= MaxCalls
        /\ \A id \in Ids : Moved(id) \/ Created(id)
    BY <1>1, <1>2, UserStep DEF UserEffect
  <2>2. UNCHANGED <<pc, poll, spawned>>
    BY <1>2 DEF loopVars, followupVars
  <2>3. calls + 1 \in Definition /\ spawned[calls + 1] # "live"
    BY <1>1, <2>1, Constants DEF Definition, FiredInv, UnusedNotFired
  <2>4. ASSUME NEW id \in Ids, Moved(id), watchers'[id] # Absent
        PROVE  /\ Alive(id)' => Alive(id)
               /\ MayFire(id)' => MayFire(id)
               /\ SameDefinition(id, watchers'[id])
    BY <2>2, <2>4 DEF Moved, Edited, Alive, MayFire, Present, SameDefinition
  <2>5. AliveNotFired'
    <3> SUFFICES ASSUME NEW id \in Ids, MayFire(id)', ~watchers'[id].repeat
                 PROVE  spawned[watchers'[id].def] # "live"
      BY <2>2 DEF AliveNotFired
    <3>1. watchers'[id] # Absent
      BY AbsentTyped DEF MayFire, Alive, Present
    <3>2. CASE Moved(id)
      BY <2>4, <3>1, <3>2 DEF FiredInv, AliveNotFired, SameDefinition
    <3>3. CASE Created(id)
      BY <2>3, <3>3 DEF Created
    <3> QED
      BY <2>1, <3>2, <3>3
  <2>6. TriggeredNotAlive'
    <3> SUFFICES ASSUME pc = "triggered", ~poll.repeat,
                        NEW id \in Ids, Alive(id)'
                 PROVE  watchers'[id].def # poll.def
      BY <2>2 DEF TriggeredNotAlive
    <3>1. watchers'[id] # Absent
      BY AbsentTyped DEF Alive
    <3>2. CASE Moved(id)
      BY <2>4, <3>1, <3>2 DEF FiredInv, TriggeredNotAlive, SameDefinition
    <3>3. CASE Created(id)
      <4>1. poll.def \in 1..calls
        BY InPollIsUsed DEF Polling
      <4> QED
        BY <1>1, <3>3, <4>1 DEF Created
    <3> QED
      BY <2>1, <3>2, <3>3
  <2>7. UnusedNotFired' /\ OneShotFiresOnce'
    BY <1>1, <2>1, <2>2
       DEF FiredInv, UnusedNotFired, OneShotFiresOnce, Definition
  <2> QED
    BY <2>5, <2>6, <2>7 DEF FiredInv
<1>3. ASSUME NEW f \in queued, Followup(p, f) PROVE FiredInv'
  <2>1. f.id \in Ids
    BY <1>1 DEF TypeOK, Poll
  <2>2. PICK w \in Watcher : /\ PollerEffect(p, f.id, w)
                             /\ SameDefinition(f.id, w)
                             /\ w.status = watchers[f.id].status
    BY <1>1, <1>3, <2>1, PushEffect DEF Followup
  <2>3. UNCHANGED <<pc, poll, spawned, calls>>
    BY <1>3, <2>2 DEF Followup, PollerEffect
  <2>4. \A id \in Ids :
           /\ Alive(id)' => Alive(id) /\ SameDefinition(id, watchers'[id])
           /\ MayFire(id)' => MayFire(id) /\ SameDefinition(id, watchers'[id])
    BY <2>1, <2>2, <2>3, AbsentTyped
       DEF PollerEffect, Alive, MayFire, Present, SameDefinition
  <2> QED
    BY <1>1, <2>3, <2>4, NothingFires DEF Polling
<1> QED
    BY <1>2, <1>3 DEF CallerStep

LEMMA FiredIdling ==
    ASSUME PollInv, FiredInv, Idling
    PROVE  FiredInv'
<1> USE DEF At, Goto, followupVars
<1>1. TypeOK /\ calls \in Nat
    BY DEF PollInv, TypeOK, ManagerTypeOK
<1>2. watchers' = watchers
    BY <1>1, IdlingWatchers
<1>3. CASE SpawnFollowup
  <2>1. /\ poll \in Poll /\ poll.id \in Ids /\ poll.def \in Definition
        /\ poll.def \in 1..calls
        /\ \A id \in Ids :
              (Present(id) /\ watchers[id].def = poll.def) =>
                  id = poll.id /\ watchers[id].repeat = poll.repeat
    BY <1>3, InPollIsUsed DEF SpawnFollowup, Polling
  <2>2. /\ spawned' = [spawned EXCEPT ![poll.def] = "live"]
        /\ pc = "triggered" /\ pc' = "poll" /\ calls' = calls
    BY <1>3 DEF SpawnFollowup, managerVars
  <2>3. \A d \in Definition : d # poll.def => spawned'[d] = spawned[d]
    BY <1>1, <2>2 DEF TypeOK
  <2>4. AliveNotFired'
    <3> SUFFICES ASSUME NEW id \in Ids, Alive(id), ~watchers[id].repeat
                 PROVE  spawned'[watchers[id].def] # "live"
      BY <1>2, <2>2 DEF AliveNotFired, MayFire, Alive
    <3>1. Present(id)
      BY DEF Alive, Present
    <3>2. watchers[id].def # poll.def
      BY <2>1, <2>2, <3>1 DEF FiredInv, TriggeredNotAlive
    <3>3. watchers[id].def \in Definition
      BY <1>1, <3>1, InMapIsUsed, Constants
         DEF PollInv, PollKnown, Present, Definition
    <3>4. spawned[watchers[id].def] # "live"
      BY DEF FiredInv, AliveNotFired, MayFire
    <3> QED
      BY <2>3, <3>2, <3>3, <3>4
  <2>5. UnusedNotFired'
    <3> SUFFICES ASSUME NEW d \in Definition, d > calls
                 PROVE  spawned'[d] # "live"
      BY <2>2 DEF UnusedNotFired, Definition
    <3>1. d # poll.def
      BY <1>1, <2>1 DEF Definition
    <3> QED
      BY <2>3, <3>1 DEF FiredInv, UnusedNotFired
  <2> QED
    BY <2>2, <2>4, <2>5 DEF FiredInv, TriggeredNotAlive, OneShotFiresOnce
<1>4. CASE ~SpawnFollowup
  <2>1. calls' \in Nat /\ calls <= calls'
    <3>1. CASE SwitchAutonomy
      BY <1>1, <3>1, CallCounts DEF SwitchAutonomy
    <3>2. CASE ~SwitchAutonomy
      BY <1>1, <1>4, <3>2
         DEF Idling, Wake, Nap, TickStart, TickRefused, TickPaused,
             get_due_watchers, SkipPoll, DropTick, Sleep, FollowupTimeout,
             Tick, managerVars
    <3> QED
      BY <3>1, <3>2
  <2>2. /\ spawned' = spawned
        /\ pc' \in {"external", "matched", "triggered"} =>
              pc' = pc /\ poll' = poll
    BY <1>4
       DEF Idling, Wake, Nap, TickStart, TickRefused, TickPaused,
           get_due_watchers, SkipPoll, DropTick, Sleep, FollowupTimeout,
           SwitchAutonomy, Tick, loopVars
  <2>3. \A id \in Ids :
           /\ Alive(id)' => Alive(id)
           /\ MayFire(id)' => MayFire(id)
           /\ SameDefinition(id, watchers'[id])
    BY <1>2, <2>2 DEF Alive, MayFire, Present, SameDefinition
  <2> QED
    BY <1>1, <2>1, <2>2, <2>3, NothingFires DEF Polling
<1> QED
    BY <1>3, <1>4

LEMMA FiredWorking ==
    ASSUME PollInv, FiredInv, Working
    PROVE  FiredInv'
<1> USE DEF At, Goto, followupVars
<1>1. TypeOK /\ CopiesAgree /\ calls \in Nat /\ Poller \in Proc
    BY Constants DEF PollInv, TypeOK, ManagerTypeOK
<1>2. CASE Expire \/ Cleanup
  <2>1. /\ SweepEffect(Poller)
        /\ \A id \in Ids :
              \/ watchers'[id] = watchers[id]
              \/ watchers'[id] = Absent
              \/ watchers'[id].status = "TimedOut"
    BY <1>1, <1>2, ExpireEffect, CleanupEffect DEF Expire, Cleanup
  <2>2. pc' \in {"notice", "plan"} /\ spawned' = spawned
    BY <1>2 DEF Expire, Cleanup
  <2>3. \A id \in Ids : MayFire(id)' =>
            MayFire(id) /\ SameDefinition(id, watchers'[id])
    BY <2>1, <2>2, AbsentTyped DEF Alive, MayFire, Present, SameDefinition
  <2> QED
    BY <1>1, <2>1, <2>2, <2>3, NothingFires DEF SweepEffect, Polling
<1>3. ASSUME NEW id \in Ids, Notice(id) PROVE FiredInv'
  <2>1. PICK w \in Watcher : /\ PollerEffect(Poller, id, w)
                             /\ SameDefinition(id, w)
                             /\ w.status = watchers[id].status
    BY <1>1, <1>3, PushEffect DEF Notice
  <2>2. pc' = "notice" /\ spawned' = spawned /\ calls' = calls
    BY <1>3, <2>1 DEF Notice, PollerEffect
  <2>3. \A i \in Ids : MayFire(i)' =>
            MayFire(i) /\ SameDefinition(i, watchers'[i])
    BY <2>1, <2>2, AbsentTyped
       DEF PollerEffect, Alive, MayFire, Present, SameDefinition
  <2> QED
    BY <1>1, <2>2, <2>3, NothingFires DEF Polling
<1>4. ASSUME NEW id \in Ids, BeginPoll(id) PROVE FiredInv'
  <2>1. watchers[id].status = "Active"
    BY <1>1, <1>4, BeginPollEffect DEF BeginPoll
  <2>2. PICK w \in Watcher : /\ PollerEffect(Poller, id, w)
                             /\ SameDefinition(id, w)
                             /\ w.status = "Active"
    BY <1>1, <1>4, BeginPollEffect DEF BeginPoll
  <2>3. /\ pc' = "external" /\ spawned' = spawned /\ calls' = calls
        /\ poll'.id = id /\ poll'.def = watchers[id].def
        /\ poll'.repeat = watchers[id].repeat
    BY <1>4, <2>2 DEF BeginPoll, PollerEffect
  <2>4. \A i \in Ids : MayFire(i)' =>
            MayFire(i) /\ SameDefinition(i, watchers'[i])
    BY <2>1, <2>2, <2>3, AbsentTyped
       DEF PollerEffect, Alive, MayFire, Present, SameDefinition
  <2>5. AliveNotFired'
    BY <2>3, <2>4 DEF FiredInv, AliveNotFired, SameDefinition
  <2>6. OneShotFiresOnce'
    BY <2>1, <2>3 DEF FiredInv, AliveNotFired, MayFire, Alive, OneShotFiresOnce
  <2> QED
    BY <2>3, <2>5, <2>6
       DEF FiredInv, TriggeredNotAlive, UnusedNotFired, Definition
<1>5. CASE PollFailed \/ PollSucceeded
  <2>1. poll.id \in Ids /\ pc = "external"
    BY <1>5, InPollIsUsed DEF PollFailed, PollSucceeded, Polling
  <2>2. PICK w \in Watcher : /\ PollerEffect(Poller, poll.id, w)
                             /\ SameDefinition(poll.id, w)
    BY <1>1, <1>5, <2>1, PollResultEffect DEF PollFailed, PollSucceeded
  <2>3. /\ spawned' = spawned /\ calls' = calls
        /\ pc' = "poll" \/ (pc' = "matched" /\ poll' = poll)
    BY <1>5, <2>2 DEF PollFailed, PollSucceeded, PollerEffect
  <2>4. \A i \in Ids : MayFire(i)' =>
            MayFire(i) /\ SameDefinition(i, watchers'[i])
    BY <2>1, <2>2, <2>3, AbsentTyped
       DEF PollerEffect, Alive, MayFire, Present, SameDefinition
  <2> QED
    BY <1>1, <2>1, <2>3, <2>4, NothingFires DEF Polling
<1>6. CASE Trigger
  <2>1. /\ poll.id \in Ids
        /\ \A id \in Ids :
              (Present(id) /\ watchers[id].def = poll.def) =>
                  id = poll.id /\ watchers[id].repeat = poll.repeat
    BY <1>6, InPollIsUsed DEF Trigger, Polling
  <2>2. PICK w \in Watcher :
            /\ PollerEffect(Poller, poll.id, w)
            /\ SameDefinition(poll.id, w)
            /\ w.status = IF watchers[poll.id].repeat
                            THEN watchers[poll.id].status ELSE "Triggered"
    BY <1>1, <1>6, <2>1, MarkTriggeredEffect DEF Trigger
  <2>3. /\ spawned' = spawned /\ calls' = calls /\ poll' = poll
        /\ pc = "matched" /\ pc' = "triggered"
    BY <1>6, <2>2 DEF Trigger, PollerEffect
  <2>4. \A i \in Ids : Alive(i)' =>
            /\ Alive(i) /\ SameDefinition(i, watchers'[i])
            /\ i = poll.id => watchers[i].repeat
    BY <2>1, <2>2, AbsentTyped DEF PollerEffect, Alive, Present, SameDefinition
  <2>5. AliveNotFired'
    BY <2>3, <2>4 DEF FiredInv, AliveNotFired, MayFire, SameDefinition
  <2>6. TriggeredNotAlive'
    BY <2>1, <2>3, <2>4
       DEF FiredInv, TriggeredNotAlive, Alive, Present, SameDefinition
  <2>7. OneShotFiresOnce' /\ UnusedNotFired'
    BY <2>3 DEF FiredInv, OneShotFiresOnce, UnusedNotFired, Definition
  <2> QED
    BY <2>5, <2>6, <2>7 DEF FiredInv
<1> QED
    BY <1>2, <1>3, <1>4, <1>5, <1>6 DEF Working

LEMMA FiredStep == PollInv /\ PollInv' /\ FiredInv /\ [Next]_vars => FiredInv'
<1> SUFFICES ASSUME PollInv, PollInv', FiredInv, [Next]_vars
             PROVE  FiredInv'
    OBVIOUS
<1>1. TypeOK /\ calls \in Nat
    BY DEF PollInv, TypeOK, ManagerTypeOK
<1>2. ASSUME NEW p \in Proc, Persist(p), UNCHANGED loopVars
      PROVE  FiredInv'
  <2>1. UNCHANGED <<watchers, calls, pc, poll, spawned>>
    BY <1>1, <1>2, PersistEffect DEF loopVars, followupVars
  <2> QED
    BY <2>1 DEF FiredInv, AliveNotFired, MayFire, Alive, Present,
                TriggeredNotAlive, UnusedNotFired, OneShotFiresOnce, Definition
<1>3. CASE Restart
  <2>1. \A d \in Definition : spawned'[d] # "live"
    BY <1>1, <1>3, RestartEffect
  <2>2. pc' = "woken"
    BY <1>3 DEF Restart
  <2>3. ASSUME NEW id \in Ids, Present(id)'
        PROVE  watchers'[id].def \in Definition
    <3>1. watchers'[id].def \in Nat /\ watchers'[id].repeat \in BOOLEAN
      BY DEF PollInv, TypeOK, ManagerTypeOK, Watcher
    <3>2. Copy(watchers[id].def, id, watchers[id].repeat)'
      BY <2>3 DEF Copy, Holds, Present
    <3>3. watchers'[id].def \in 1..calls' /\ calls' \in Nat
          /\ calls' <= MaxCalls
      BY <3>1, <3>2
         DEF PollInv, CopiesAgree, PollKnown, TypeOK, ManagerTypeOK
    <3> QED
      BY <3>3, Constants DEF Definition
  <2>4. AliveNotFired'
    BY <2>1, <2>2, <2>3 DEF AliveNotFired, MayFire, Alive, Present
  <2>5. UnusedNotFired'
    BY <2>1 DEF UnusedNotFired, Definition
  <2> QED
    BY <2>2, <2>4, <2>5 DEF FiredInv, TriggeredNotAlive, OneShotFiresOnce
<1>4. CASE UNCHANGED vars
    BY <1>4 DEF vars, managerVars, loopVars, followupVars, FiredInv,
                AliveNotFired, MayFire, Alive, Present, TriggeredNotAlive,
                UnusedNotFired, OneShotFiresOnce, Definition
<1> QED
    BY <1>2, <1>3, <1>4, StepKinds, FiredUser, FiredIdling, FiredWorking

(* A one-shot definition whose follow-up this process has spawned is not   *)
(* polled again (SentinelWatchers.OneShotFiresOnce): whatever users edit,  *)
(* replace or resume meanwhile, and however often the process has started. *)
THEOREM OneShotsFireOnce == Spec => []OneShotFiresOnce
<1>1. Init => FiredInv
    BY AbsentTyped, Constants
       DEF Init, ManagerInit, FiredInv, AliveNotFired, MayFire, Alive, Present,
           TriggeredNotAlive, UnusedNotFired, OneShotFiresOnce, Definition
<1>2. FiredInv => OneShotFiresOnce
    BY DEF FiredInv
<1> QED
    BY <1>1, <1>2, FiredStep, PollInvHolds, PTL DEF Spec
=============================================================================
