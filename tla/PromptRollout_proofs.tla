------------------------ MODULE PromptRollout_proofs ------------------------
(***************************************************************************)
(* Proofs about PromptRollout: the types, and that a canary which nothing  *)
(* interfered with can be undone.  The four values that the property       *)
(* compares (stable bundle, snapshot, candidate and canary state) are      *)
(* written one by one by operations that overlap, so what is proved is     *)
(* what each of them owes to the others on the way.                        *)
(***************************************************************************)
EXTENDS PromptRollout, TLAPS

(* Of the constants: the names are apart, something is stored at the start *)
(* and None is nobody's version.                                           *)
Setting ==
    /\ Evolver \cap User = {} /\ Judge \notin Evolver \cup User
    /\ None \notin Candidate \cup {Default} \cup Stored0
    /\ MaxRequests \in Nat /\ MaxCuts \in Nat

(* Evolutions do not overlap: with two, the bundle that is offered need    *)
(* not be the candidate of the canary that is activated.                   *)
OneEvolver == Evolver # {} /\ \A e, f \in Evolver : e = f

----------------------------------------------------------------------------
(* What an operation holds: a version of its own once it has read one, and *)
(* only what its kind may do.                                              *)
EvolverHolds(e) ==
    /\ proc[e].at \in {"idle", "evaluating", "keep", "push", "pushed", "offer",
                       "activate", "measured", "install", "close", "record"}
    /\ proc[e].at # "idle" =>
        proc[e].kind \in {"prompt", "import"} /\ proc[e].read # None
    /\ proc[e].at \notin {"idle", "evaluating"} => proc[e].mine \in Candidate
    /\ proc[e].at = "activate" => bundle # None

UserHolds(u) ==
    /\ proc[u].at = "load" => proc[u].kind \in {"accept", "stop"}
    /\ proc[u].at \in {"fetch", "compare", "keep", "push", "pushed", "install"}
        => proc[u].kind = "accept"
    /\ proc[u].at = "fetch" => bundle # None
    /\ proc[u].at \in {"compare", "keep", "push", "pushed", "install"} =>
        proc[u].mine # None

JudgeHolds(j) ==
    /\ proc[j].at \in {"idle", "judging", "undo", "restore", "reload", "close"}
    /\ proc[j].at # "idle" => proc[j].kind = "judge"

ProcessHolds(p) ==
    /\ proc[p].at \in {"keep", "push", "pushed", "restore"} =>
        proc[p].read # None
    /\ proc[p].at = "pushed" => None \notin proc[p].ring

(* Nothing that was stored is ever missing again. *)
Stored ==
    /\ profile # None /\ None \notin ring
    /\ canary.enabled => bundle # None

Holds(p) ==
    /\ p \in Evolver => EvolverHolds(p)
    /\ p \in User => UserHolds(p)
    /\ p = Judge => JudgeHolds(p)
    /\ ProcessHolds(p)

HoldInv == Stored /\ \A p \in Process : Holds(p)

----------------------------------------------------------------------------
(* What the values owe to each other, as long as no operation was cut      *)
(* short.                                                                  *)

(* The stable bundle is the one the evolution has read. *)
ReadIsStable ==
    "evolution" \notin changed =>
        \A e \in Evolver :
            proc[e].at \in {"evaluating", "keep", "push", "pushed", "offer",
                            "activate"}
                => profile = proc[e].read

(* It is the one the canary is measured against, but while a promotion by  *)
(* replay has yet to close it.                                             *)
BaselineIsStable ==
    canary.enabled /\ "canary" \notin changed =>
        \A e \in Evolver : proc[e].at # "close" => profile = canary.baseline

(* An acceptance has put its own bundle in the snapshot, or may, and will  *)
(* install another one.                                                    *)
UserPending ==
    \E u \in User : proc[u].at \in {"push", "pushed", "install"}

ReadIsKept ==
    "evolution" \notin changed /\ ~UserPending =>
        \A e \in Evolver :
            proc[e].at \in {"push", "pushed", "offer", "activate"}
                => snapshot = proc[e].read

BaselineIsKept ==
    canary.enabled /\ "canary" \notin changed /\ ~UserPending =>
        \A e \in Evolver : proc[e].at # "close" => snapshot = canary.baseline

CandidateIsOffered ==
    \A e \in Evolver :
        /\ canary.enabled /\ proc[e].at # "activate" => bundle = canary.candidate
        /\ proc[e].at = "activate" => bundle = proc[e].mine

(* What was changed since the evolution in progress was read was changed   *)
(* since the one of the canary was.                                        *)
ChangedIsOrdered == "evolution" \in changed => "canary" \in changed

UndoInv ==
    cuts = 0 =>
        /\ ChangedIsOrdered
        /\ ReadIsStable /\ BaselineIsStable
        /\ ReadIsKept /\ BaselineIsKept /\ CandidateIsOffered

----------------------------------------------------------------------------
(* Types. *)

Holder == [at : OperationStage, kind : Kind, read : Version, mine : Version,
           state : CanaryState, ring : SUBSET Version]

LEMMA NamesTyped ==
    /\ NoWork \in Holder /\ NoCanary \in CanaryState /\ None \in Version
    /\ \A v \in Version : OrDefault(v) \in Version
    /\ \A c \in Candidate : c \in Version
    /\ Evolver \subseteq Process /\ User \subseteq Process /\ Judge \in Process
BY DEF NoWork, Holder, NoCanary, CanaryState, Version, OrDefault, OperationStage, Kind,
   Process

LEMMA InitTyped == Setting /\ RolloutInit => RolloutTypeOK
<1> SUFFICES ASSUME Setting, RolloutInit PROVE RolloutTypeOK
    OBVIOUS
<1>1. profile \in Version
    BY DEF RolloutInit, Version
<1>2. proc \in [Process -> Holder]
    BY NamesTyped DEF RolloutInit
<1>3. verdict \in [Candidate -> {"none", "worse", "better"}]
    BY DEF RolloutInit
<1>4. requests \in 0..MaxRequests /\ cuts \in 0..MaxCuts
    BY DEF RolloutInit, Setting
<1> QED
    BY <1>1, <1>2, <1>3, <1>4, NamesTyped DEF RolloutInit, RolloutTypeOK, Holder

LEMMA GoTyped ==
    ASSUME RolloutTypeOK, NEW p \in Process, NEW stage \in OperationStage, Go(p, stage)
    PROVE  proc' \in [Process -> Holder]
BY DEF RolloutTypeOK, Go, Holder

LEMMA EndTyped ==
    ASSUME RolloutTypeOK, NEW p \in Process, Finish(p)
    PROVE  proc' \in [Process -> Holder]
BY NamesTyped DEF RolloutTypeOK, Finish, Holder

(* What an operation does to what it holds: it goes on, with a version it  *)
(* read, a candidate it made or the canary state it loaded.                *)
LEMMA BeginTyped ==
    ASSUME NEW h \in Holder, NEW kind \in Kind, NEW stage \in OperationStage,
           NEW v \in Version
    PROVE  /\ [h EXCEPT !.at = stage, !.kind = kind, !.read = v] \in Holder
           /\ [h EXCEPT !.kind = kind, !.at = stage] \in Holder
BY DEF Holder

LEMMA ReadTyped ==
    ASSUME proc \in [Process -> Holder], NEW p \in Process,
           NEW v \in Version, NEW stage \in OperationStage,
           proc' = [proc EXCEPT ![p].read = v, ![p].at = stage]
    PROVE  proc' \in [Process -> Holder]
<1>1. [proc[p] EXCEPT !.read = v, !.at = stage] \in Holder
    BY DEF Holder
<1> QED
    BY <1>1

LEMMA MineTyped ==
    ASSUME proc \in [Process -> Holder], NEW p \in Process,
           NEW v \in Version, NEW stage \in OperationStage,
           proc' = [proc EXCEPT ![p].mine = v, ![p].at = stage]
    PROVE  proc' \in [Process -> Holder]
<1>1. [proc[p] EXCEPT !.mine = v, !.at = stage] \in Holder
    BY DEF Holder
<1> QED
    BY <1>1

LEMMA StateTyped ==
    ASSUME proc \in [Process -> Holder], NEW p \in Process,
           NEW st \in CanaryState, NEW stage \in OperationStage,
           proc' = [proc EXCEPT ![p].state = st, ![p].at = stage]
    PROVE  proc' \in [Process -> Holder]
<1>1. [proc[p] EXCEPT !.state = st, !.at = stage] \in Holder
    BY DEF Holder
<1> QED
    BY <1>1

LEMMA RingTyped ==
    ASSUME proc \in [Process -> Holder], NEW p \in Process,
           NEW R \in SUBSET Version, NEW stage \in OperationStage,
           proc' = [proc EXCEPT ![p].ring = R, ![p].at = stage]
    PROVE  proc' \in [Process -> Holder]
<1>1. [proc[p] EXCEPT !.ring = R, !.at = stage] \in Holder
    BY DEF Holder
<1> QED
    BY <1>1

LEMMA TypedStep ==
    ASSUME Setting, RolloutTypeOK, [RolloutNext]_rolloutVars
    PROVE  RolloutTypeOK'
<1> USE NamesTyped
<1>0. /\ profile \in Version /\ bundle \in Version /\ snapshot \in Version
      /\ canary \in CanaryState /\ ring \subseteq Version
      /\ changed \subseteq {"evolution", "canary"}
      /\ verdict \in [Candidate -> {"none", "worse", "better"}]
      /\ proc \in [Process -> Holder]
      /\ requests \in 0..MaxRequests /\ cuts \in 0..MaxCuts
    BY DEF RolloutTypeOK, Holder
<1>a. {"evaluating", "keep", "offer", "measured", "undo", "pick", "load", "close",
       "fetch", "restore", "pushed", "compare"} \subseteq OperationStage
    BY DEF OperationStage
<1>b. {"prompt", "import", "accept", "stop", "rollback", "revisit"}
            \subseteq Kind
    BY DEF Kind
<1>1. CASE UNCHANGED rolloutVars
    BY <1>1 DEF rolloutVars, keys, RolloutTypeOK
<1>2. ASSUME NEW e \in Evolver, EvolveRead(e) PROVE RolloutTypeOK'
  <2>1. PICK kind \in {"prompt", "import"} :
            proc' = [proc EXCEPT ![e] = [NoWork EXCEPT !.at = "evaluating",
                                         !.kind = kind, !.read = profile]]
      BY <1>2 DEF EvolveRead
  <2>2. [NoWork EXCEPT !.at = "evaluating", !.kind = kind, !.read = profile]
            \in Holder
      BY <1>0, <1>a, <1>b, NamesTyped, BeginTyped
  <2>3. proc' \in [Process -> Holder]
      BY <2>1, <2>2, <1>0
  <2> QED
      BY <1>2, <2>3 DEF EvolveRead, RolloutTypeOK, keys, Holder
<1>3. ASSUME NEW e \in Evolver, Evaluate(e) PROVE RolloutTypeOK'
  <2>1. CASE Finish(e) /\ UNCHANGED proposed
      BY <1>3, <2>1, EndTyped DEF Evaluate, RolloutTypeOK, keys, Holder
  <2>2. ASSUME NEW c \in Candidate, proposed' = proposed \cup {c},
              proc' = [proc EXCEPT ![e].mine = c,
                        ![e].at = IF proc[e].read = None THEN "offer" ELSE "keep"]
        PROVE RolloutTypeOK'
    <3>1. PICK stage \in {"offer", "keep"} :
              proc' = [proc EXCEPT ![e].mine = c, ![e].at = stage]
        BY <2>2
    <3>2. proc' \in [Process -> Holder]
        BY <3>1, <1>0, <1>a, NamesTyped, MineTyped
    <3> QED
        BY <1>3, <2>2, <3>2 DEF Evaluate, RolloutTypeOK, keys, Holder
  <2> QED
      BY <1>3, <2>1, <2>2 DEF Evaluate
<1>4. ASSUME NEW p \in Process, KeepSnapshot(p) PROVE RolloutTypeOK'
  <2>1. proc' \in [Process -> Holder]
      BY <1>4, <1>0, GoTyped DEF KeepSnapshot, OperationStage
  <2> QED
      BY <1>4, <2>1 DEF KeepSnapshot, RolloutTypeOK, keys, Holder
<1>5. ASSUME NEW p \in Process, PushLoad(p) PROVE RolloutTypeOK'
  <2>1. proc' \in [Process -> Holder]
      BY <1>5, <1>0, <1>a, RingTyped DEF PushLoad
  <2> QED
      BY <1>5, <2>1 DEF PushLoad, RolloutTypeOK, keys, Holder
<1>6. ASSUME NEW p \in Process, PushStore(p) PROVE RolloutTypeOK'
  <2>1. proc' \in [Process -> Holder]
      BY <1>6, <1>0, GoTyped DEF PushStore, OperationStage
  <2> QED
      BY <1>6, <2>1 DEF PushStore, RolloutTypeOK, keys, Holder
<1>7. ASSUME NEW p \in Process, Offer(p) PROVE RolloutTypeOK'
  <2>1. proc' \in [Process -> Holder]
      BY <1>7, <1>0, GoTyped DEF Offer, OperationStage
  <2> QED
      BY <1>7, <2>1 DEF Offer, RolloutTypeOK, keys, Holder
<1>8. ASSUME NEW p \in Process, Activate(p) PROVE RolloutTypeOK'
  <2> DEFINE st == [enabled |-> TRUE, baseline |-> OrDefault(proc[p].read),
                    candidate |-> proc[p].mine]
  <2>1. st \in CanaryState
      BY <1>0 DEF Holder, CanaryState
  <2>2. canary' = st /\ proc' = [proc EXCEPT ![p].state = st, ![p].at = "measured"]
      BY <1>8 DEF Activate
  <2> HIDE DEF st
  <2>3. proc' \in [Process -> Holder]
      BY <2>1, <2>2, <1>0, <1>a, StateTyped
  <2>4. changed' \subseteq {"evolution", "canary"}
      BY <1>8, <1>0 DEF Activate
  <2> QED
      BY <1>8, <2>1, <2>2, <2>3, <2>4 DEF Activate, RolloutTypeOK, Holder
<1>9. ASSUME NEW p \in Process, Replay(p) PROVE RolloutTypeOK'
  <2>1. proc' \in [Process -> Holder]
      BY <1>9, <1>0, GoTyped, EndTyped DEF Replay, OperationStage
  <2> QED
      BY <1>9, <2>1 DEF Replay, RolloutTypeOK, keys, Holder
<1>10. ASSUME NEW u \in User, Request(u) PROVE RolloutTypeOK'
  <2>1. PICK kind \in {"accept", "stop", "rollback", "revisit"} :
            proc' = [proc EXCEPT ![u] = [NoWork EXCEPT !.kind = kind,
                    !.at = CASE kind = "rollback" -> "undo"
                           [] kind = "revisit" -> "pick"
                           [] OTHER -> "load"]]
      BY <1>10 DEF Request
  <2>2. PICK stage \in {"undo", "pick", "load"} :
            proc' = [proc EXCEPT ![u] = [NoWork EXCEPT !.kind = kind, !.at = stage]]
      BY <2>1
  <2>3. [NoWork EXCEPT !.kind = kind, !.at = stage] \in Holder
      BY <1>a, <1>b, NamesTyped, BeginTyped
  <2>4. proc' \in [Process -> Holder]
      BY <2>2, <2>3, <1>0
  <2>5. requests' \in 0..MaxRequests
      BY <1>10, <1>0 DEF Request, Setting
  <2> QED
      BY <1>10, <2>4, <2>5 DEF Request, RolloutTypeOK, keys, Holder
<1>11. ASSUME NEW p \in Process, LoadCanary(p) PROVE RolloutTypeOK'
  <2>1. CASE Finish(p)
      BY <1>11, <2>1, EndTyped DEF LoadCanary, RolloutTypeOK, keys, Holder
  <2>2. ASSUME NEW stage \in {"close", "fetch"},
              proc' = [proc EXCEPT ![p].state = canary, ![p].at = stage]
        PROVE RolloutTypeOK'
    <3>1. proc' \in [Process -> Holder]
        BY <2>2, <1>0, <1>a, StateTyped
    <3> QED
        BY <1>11, <3>1 DEF LoadCanary, RolloutTypeOK, keys, Holder
  <2> QED
      BY <1>11, <2>1, <2>2 DEF LoadCanary
<1>12. ASSUME NEW p \in Process, FetchBundle(p) PROVE RolloutTypeOK'
  <2>1. proc' \in [Process -> Holder]
      BY <1>12, <1>0, <1>a, MineTyped DEF FetchBundle
  <2> QED
      BY <1>12, <2>1 DEF FetchBundle, RolloutTypeOK, keys, Holder
<1>13. ASSUME NEW p \in Process, ReadBaseline(p) PROVE RolloutTypeOK'
  <2>1. PICK v \in Version :
            proc' = [proc EXCEPT ![p].read = v, ![p].at = "keep"]
      BY <1>13, <1>0 DEF ReadBaseline
  <2>2. proc' \in [Process -> Holder]
      BY <2>1, <1>0, <1>a, ReadTyped
  <2> QED
      BY <1>13, <2>2 DEF ReadBaseline, RolloutTypeOK, keys, Holder
<1>14. ASSUME NEW p \in Process, PickVersion(p) PROVE RolloutTypeOK'
  <2>1. CASE Finish(p)
      BY <1>14, <2>1, EndTyped DEF PickVersion, RolloutTypeOK, keys, Holder
  <2>2. ASSUME NEW v \in Version,
              proc' = [proc EXCEPT ![p].read = v, ![p].at = "restore"]
        PROVE RolloutTypeOK'
    <3>1. proc' \in [Process -> Holder]
        BY <2>2, <1>0, <1>a, ReadTyped
    <3> QED
        BY <1>14, <3>1 DEF PickVersion, RolloutTypeOK, keys, Holder
  <2> QED
      BY <1>14, <2>1, <2>2, <1>0 DEF PickVersion
<1>15. ASSUME NEW p \in Process, Install(p) PROVE RolloutTypeOK'
  <2>1. proc' \in [Process -> Holder]
      BY <1>15, <1>0, GoTyped DEF Install, OperationStage
  <2> QED
      BY <1>15, <2>1 DEF Install, Touched, RolloutTypeOK, keys, Holder
<1>16. ASSUME NEW p \in Process, JudgeLoad(p) PROVE RolloutTypeOK'
  <2>1. proc' \in [Process -> Holder]
      BY <1>16, <1>0 DEF JudgeLoad, Holder, OperationStage, Kind, NoWork
  <2> QED
      BY <1>16, <2>1 DEF JudgeLoad, RolloutTypeOK, keys, Holder
<1>17. ASSUME NEW p \in Process, JudgeDecide(p) PROVE RolloutTypeOK'
  <2>1. proc' \in [Process -> Holder]
      BY <1>17, <1>0, GoTyped, EndTyped DEF JudgeDecide, OperationStage
  <2> QED
      BY <1>17, <2>1 DEF JudgeDecide, RolloutTypeOK, keys, Holder
<1>18. ASSUME NEW p \in Process, LoadSnapshot(p) PROVE RolloutTypeOK'
  <2>1. CASE Finish(p)
      BY <1>18, <2>1, EndTyped DEF LoadSnapshot, RolloutTypeOK, keys, Holder
  <2>2. ASSUME proc' = [proc EXCEPT ![p].read = snapshot, ![p].at = "restore"]
        PROVE RolloutTypeOK'
    <3>1. proc' \in [Process -> Holder]
        BY <2>2, <1>0, <1>a, ReadTyped
    <3> QED
        BY <1>18, <3>1 DEF LoadSnapshot, RolloutTypeOK, keys, Holder
  <2> QED
      BY <1>18, <2>1, <2>2 DEF LoadSnapshot
<1>19. ASSUME NEW p \in Process, Restore(p) PROVE RolloutTypeOK'
  <2>1. proc' \in [Process -> Holder]
      BY <1>19, <1>0, GoTyped DEF Restore, OperationStage
  <2> QED
      BY <1>19, <2>1 DEF Restore, Touched, RolloutTypeOK, keys, Holder
<1>20. ASSUME NEW p \in Process, ReloadCanary(p) PROVE RolloutTypeOK'
  <2>1. CASE Finish(p)
      BY <1>20, <2>1, EndTyped DEF ReloadCanary, RolloutTypeOK, keys, Holder
  <2>2. ASSUME proc' = [proc EXCEPT ![p].state = canary, ![p].at = "close"]
        PROVE RolloutTypeOK'
    <3>1. proc' \in [Process -> Holder]
        BY <2>2, <1>0, <1>a, StateTyped
    <3> QED
        BY <1>20, <3>1 DEF ReloadCanary, RolloutTypeOK, keys, Holder
  <2> QED
      BY <1>20, <2>1, <2>2 DEF ReloadCanary
<1>21. ASSUME NEW p \in Process, Close(p) PROVE RolloutTypeOK'
  <2>1. proc' \in [Process -> Holder]
      BY <1>21, GoTyped, EndTyped DEF Close, OperationStage
  <2>2. proc[p].state \in CanaryState
      BY <1>0 DEF Holder
  <2>3. canary' \in CanaryState
      BY <1>21, <2>2 DEF Close, CanaryState
  <2> QED
      BY <1>21, <2>1, <2>3 DEF Close, RolloutTypeOK, Holder
<1>22. ASSUME NEW p \in Process, Record(p) PROVE RolloutTypeOK'
  <2>1. proc' \in [Process -> Holder]
      BY <1>22, <1>0, EndTyped DEF Record
  <2> QED
      BY <1>22, <2>1 DEF Record, RolloutTypeOK, keys, Holder
<1>23. ASSUME NEW c \in Candidate, Measure(c) PROVE RolloutTypeOK'
    BY <1>23 DEF Measure, RolloutTypeOK, keys
<1>24. CASE WindowOver
    BY <1>24 DEF WindowOver, RolloutTypeOK
<1>25. ASSUME NEW p \in Process, Cut(p) PROVE RolloutTypeOK'
  <2>1. cuts' \in 0..MaxCuts
      BY <1>25, <1>0 DEF Cut, Setting
  <2> QED
      BY <1>25, <2>1, EndTyped DEF Cut, RolloutTypeOK, keys, Holder
<1> QED
    BY <1>1, <1>2, <1>3, <1>4, <1>5, <1>6, <1>7, <1>8, <1>9, <1>10, <1>11,
       <1>12, <1>13, <1>14, <1>15, <1>16, <1>17, <1>18, <1>19, <1>20, <1>21,
       <1>22, <1>23, <1>24, <1>25
    DEF RolloutNext, EvolverStep, UserStep, JudgeStep

(* Every value stays within its type, whatever overlaps and whatever is    *)
(* cut short.                                                              *)
THEOREM TypeCorrect == Setting => (RolloutSpec => []RolloutTypeOK)
<1> SUFFICES ASSUME Setting PROVE RolloutSpec => []RolloutTypeOK
    OBVIOUS
<1>1. RolloutInit => RolloutTypeOK
    BY InitTyped
<1>2. RolloutTypeOK /\ [RolloutNext]_rolloutVars => RolloutTypeOK'
    BY TypedStep
<1> QED
    BY <1>1, <1>2, PTL DEF RolloutSpec

----------------------------------------------------------------------------
(* What operations hold. *)

LEMMA InitHolds == Setting /\ RolloutInit => HoldInv
<1> SUFFICES ASSUME Setting, RolloutInit PROVE HoldInv
    OBVIOUS
<1>1. \A p \in Process : proc[p].at = "idle"
    BY DEF RolloutInit, NoWork
<1>2. Stored
    BY <1>1, NamesTyped DEF Setting, RolloutInit, Stored, NoCanary
<1> QED
    BY <1>1, <1>2 DEF HoldInv, Holds, EvolverHolds, UserHolds, JudgeHolds,
       ProcessHolds

(* A step of one operation leaves the others what they hold. *)
LEMMA OthersHold ==
    ASSUME RolloutTypeOK, HoldInv, NEW p \in Process,
           \A q \in Process \ {p} : proc'[q] = proc[q],
           bundle # None => bundle' # None,
           Stored', Holds(p)'
    PROVE  HoldInv'
<1> SUFFICES ASSUME NEW q \in Process \ {p} PROVE Holds(q)'
    BY DEF HoldInv
<1> QED
    BY DEF HoldInv, Holds, EvolverHolds, UserHolds, JudgeHolds, ProcessHolds

LEMMA HoldStep ==
    ASSUME Setting, RolloutTypeOK, HoldInv, [RolloutNext]_rolloutVars
    PROVE  HoldInv'
<1> USE NamesTyped
<1>0. /\ Stored /\ \A p \in Process : Holds(p)
      /\ proc \in [Process -> Holder]
    BY DEF HoldInv, RolloutTypeOK, Holder
<1>1. CASE UNCHANGED rolloutVars
    BY <1>1 DEF rolloutVars, keys, HoldInv, Stored, Holds, EvolverHolds, UserHolds,
       JudgeHolds, ProcessHolds
<1>2. ASSUME NEW e \in Evolver, EvolveRead(e) PROVE HoldInv'
  <2>1. Holds(e)'
      BY <1>2, <1>0 DEF EvolveRead, IsAt, Setting, Go, Finish, NoWork, keys, Stored,
         Holder, Holds, EvolverHolds, UserHolds, JudgeHolds, ProcessHolds
  <2>2. \A q \in Process \ {e} : proc'[q] = proc[q]
      BY <1>2, <1>0 DEF EvolveRead, Go, Finish
  <2>3. Stored' /\ (bundle # None => bundle' # None)
      BY <1>2, <1>0 DEF EvolveRead, IsAt, Setting, keys, Stored, Holds,
         EvolverHolds, UserHolds, JudgeHolds, ProcessHolds
  <2> QED
      BY <2>1, <2>2, <2>3, OthersHold
<1>3. ASSUME NEW e \in Evolver, Evaluate(e) PROVE HoldInv'
  <2>1. Holds(e)'
    <3>1. CASE Finish(e)
        BY <3>1, <1>0 DEF Finish, NoWork, Setting, Holder, Holds, EvolverHolds,
           UserHolds, JudgeHolds, ProcessHolds
    <3>2. ASSUME NEW c \in Candidate,
                 proc' = [proc EXCEPT ![e].mine = c,
                     ![e].at = IF proc[e].read = None THEN "offer" ELSE "keep"]
          PROVE  Holds(e)'
        BY <3>2, <1>3, <1>0 DEF Evaluate, IsAt, Setting, Holder, Holds,
           EvolverHolds, UserHolds, JudgeHolds, ProcessHolds
    <3> QED
        BY <3>1, <3>2, <1>3 DEF Evaluate
  <2>2. \A q \in Process \ {e} : proc'[q] = proc[q]
      BY <1>3, <1>0 DEF Evaluate, Go, Finish
  <2>3. Stored' /\ (bundle # None => bundle' # None)
      BY <1>3, <1>0 DEF Evaluate, IsAt, Setting, keys, Stored, Holds,
         EvolverHolds, UserHolds, JudgeHolds, ProcessHolds
  <2> QED
      BY <2>1, <2>2, <2>3, OthersHold
<1>4. ASSUME NEW p \in Process, KeepSnapshot(p) PROVE HoldInv'
  <2>1. Holds(p)'
      BY <1>4, <1>0 DEF KeepSnapshot, IsAt, Setting, Go, Finish, NoWork, keys, Stored, Holder,
         Holds, EvolverHolds, UserHolds, JudgeHolds, ProcessHolds
  <2>2. \A q \in Process \ {p} : proc'[q] = proc[q]
      BY <1>4, <1>0 DEF KeepSnapshot, Go, Finish
  <2>3. Stored' /\ (bundle # None => bundle' # None)
      BY <1>4, <1>0 DEF KeepSnapshot, IsAt, Setting, keys, Stored, Holds,
         EvolverHolds, UserHolds, JudgeHolds, ProcessHolds
  <2> QED
      BY <2>1, <2>2, <2>3, OthersHold
<1>5. ASSUME NEW p \in Process, PushLoad(p) PROVE HoldInv'
  <2>1. Holds(p)'
      BY <1>5, <1>0 DEF PushLoad, IsAt, Setting, Go, Finish, NoWork, keys, Stored,
         Holder, Holds, EvolverHolds, UserHolds, JudgeHolds, ProcessHolds
  <2>2. \A q \in Process \ {p} : proc'[q] = proc[q]
      BY <1>5, <1>0 DEF PushLoad, Go, Finish
  <2>3. Stored' /\ (bundle # None => bundle' # None)
      BY <1>5, <1>0 DEF PushLoad, IsAt, Setting, keys, Stored, Holds,
         EvolverHolds, UserHolds, JudgeHolds, ProcessHolds
  <2> QED
      BY <2>1, <2>2, <2>3, OthersHold
<1>6. ASSUME NEW p \in Process, PushStore(p) PROVE HoldInv'
  <2>1. Holds(p)'
      BY <1>6, <1>0 DEF PushStore, IsAt, Setting, Go, Finish, NoWork, keys, Stored,
         Holder, Holds, EvolverHolds, UserHolds, JudgeHolds, ProcessHolds
  <2>2. \A q \in Process \ {p} : proc'[q] = proc[q]
      BY <1>6, <1>0 DEF PushStore, Go, Finish
  <2>3. Stored' /\ (bundle # None => bundle' # None)
      BY <1>6, <1>0 DEF PushStore, IsAt, Setting, keys, Stored, Holds,
         EvolverHolds, UserHolds, JudgeHolds, ProcessHolds
  <2> QED
      BY <2>1, <2>2, <2>3, OthersHold
<1>7. ASSUME NEW e \in Evolver, Offer(e) PROVE HoldInv'
  <2>1. Holds(e)'
      BY <1>7, <1>0 DEF Offer, IsAt, Setting, Go, Finish, NoWork, keys, Stored,
         Holder, Holds, EvolverHolds, UserHolds, JudgeHolds, ProcessHolds
  <2>2. \A q \in Process \ {e} : proc'[q] = proc[q]
      BY <1>7, <1>0 DEF Offer, Go, Finish
  <2>3. Stored' /\ (bundle # None => bundle' # None)
      BY <1>7, <1>0 DEF Offer, IsAt, Setting, keys, Stored, Holds,
         EvolverHolds, UserHolds, JudgeHolds, ProcessHolds
  <2> QED
      BY <2>1, <2>2, <2>3, OthersHold
<1>8. ASSUME NEW e \in Evolver, Activate(e) PROVE HoldInv'
  <2>1. Holds(e)'
      BY <1>8, <1>0 DEF Activate, IsAt, Setting, Go, Finish, NoWork, keys, Stored,
         Holder, Holds, EvolverHolds, UserHolds, JudgeHolds, ProcessHolds
  <2>2. \A q \in Process \ {e} : proc'[q] = proc[q]
      BY <1>8, <1>0 DEF Activate, Go, Finish
  <2>3. Stored' /\ (bundle # None => bundle' # None)
      BY <1>8, <1>0 DEF Activate, IsAt, Setting, keys, Stored, Holds,
         EvolverHolds, UserHolds, JudgeHolds, ProcessHolds
  <2> QED
      BY <2>1, <2>2, <2>3, OthersHold
<1>9. ASSUME NEW e \in Evolver, Replay(e) PROVE HoldInv'
  <2>1. Holds(e)'
      BY <1>9, <1>0 DEF Replay, IsAt, Setting, Go, Finish, NoWork, keys, Stored,
         Holder, Holds, EvolverHolds, UserHolds, JudgeHolds, ProcessHolds
  <2>2. \A q \in Process \ {e} : proc'[q] = proc[q]
      BY <1>9, <1>0 DEF Replay, Go, Finish
  <2>3. Stored' /\ (bundle # None => bundle' # None)
      BY <1>9, <1>0 DEF Replay, IsAt, Setting, keys, Stored, Holds,
         EvolverHolds, UserHolds, JudgeHolds, ProcessHolds
  <2> QED
      BY <2>1, <2>2, <2>3, OthersHold
<1>10. ASSUME NEW u \in User, Request(u) PROVE HoldInv'
  <2>1. Holds(u)'
      BY <1>10, <1>0 DEF Request, IsAt, Setting, Go, Finish, NoWork, keys, Stored,
         Holder, Holds, EvolverHolds, UserHolds, JudgeHolds, ProcessHolds
  <2>2. \A q \in Process \ {u} : proc'[q] = proc[q]
      BY <1>10, <1>0 DEF Request, Go, Finish
  <2>3. Stored' /\ (bundle # None => bundle' # None)
      BY <1>10, <1>0 DEF Request, IsAt, Setting, keys, Stored, Holds,
         EvolverHolds, UserHolds, JudgeHolds, ProcessHolds
  <2> QED
      BY <2>1, <2>2, <2>3, OthersHold
<1>11. ASSUME NEW u \in User, LoadCanary(u) PROVE HoldInv'
  <2>1. Holds(u)'
      BY <1>11, <1>0 DEF LoadCanary, IsAt, Setting, Go, Finish, NoWork, keys, Stored,
         Holder, Holds, EvolverHolds, UserHolds, JudgeHolds, ProcessHolds
  <2>2. \A q \in Process \ {u} : proc'[q] = proc[q]
      BY <1>11, <1>0 DEF LoadCanary, Go, Finish
  <2>3. Stored' /\ (bundle # None => bundle' # None)
      BY <1>11, <1>0 DEF LoadCanary, IsAt, Setting, keys, Stored, Holds,
         EvolverHolds, UserHolds, JudgeHolds, ProcessHolds
  <2> QED
      BY <2>1, <2>2, <2>3, OthersHold
<1>12. ASSUME NEW u \in User, FetchBundle(u) PROVE HoldInv'
  <2>1. Holds(u)'
      BY <1>12, <1>0 DEF FetchBundle, IsAt, Setting, Go, Finish, NoWork, keys, Stored,
         Holder, Holds, EvolverHolds, UserHolds, JudgeHolds, ProcessHolds
  <2>2. \A q \in Process \ {u} : proc'[q] = proc[q]
      BY <1>12, <1>0 DEF FetchBundle, Go, Finish
  <2>3. Stored' /\ (bundle # None => bundle' # None)
      BY <1>12, <1>0 DEF FetchBundle, IsAt, Setting, keys, Stored, Holds,
         EvolverHolds, UserHolds, JudgeHolds, ProcessHolds
  <2> QED
      BY <2>1, <2>2, <2>3, OthersHold
<1>13. ASSUME NEW u \in User, ReadBaseline(u) PROVE HoldInv'
  <2>1. Holds(u)'
      BY <1>13, <1>0 DEF ReadBaseline, IsAt, Setting, Go, Finish, NoWork, keys,
         Stored, Holder, Holds, EvolverHolds, UserHolds, JudgeHolds,
         ProcessHolds
  <2>2. \A q \in Process \ {u} : proc'[q] = proc[q]
      BY <1>13, <1>0 DEF ReadBaseline, Go, Finish
  <2>3. Stored' /\ (bundle # None => bundle' # None)
      BY <1>13, <1>0 DEF ReadBaseline, IsAt, Setting, keys, Stored, Holds,
         EvolverHolds, UserHolds, JudgeHolds, ProcessHolds
  <2> QED
      BY <2>1, <2>2, <2>3, OthersHold
<1>14. ASSUME NEW u \in User, PickVersion(u) PROVE HoldInv'
  <2>1. Holds(u)'
    <3>1. CASE Finish(u)
        BY <3>1, <1>0 DEF Finish, NoWork, Setting, Holder, Holds, EvolverHolds,
           UserHolds, JudgeHolds, ProcessHolds
    <3>2. ASSUME NEW v \in ring,
                 proc' = [proc EXCEPT ![u].read = v, ![u].at = "restore"]
          PROVE  Holds(u)'
        BY <3>2, <1>14, <1>0 DEF PickVersion, IsAt, Setting, Stored, Holder,
           Holds, EvolverHolds, UserHolds, JudgeHolds, ProcessHolds
    <3> QED
        BY <3>1, <3>2, <1>14 DEF PickVersion
  <2>2. \A q \in Process \ {u} : proc'[q] = proc[q]
      BY <1>14, <1>0 DEF PickVersion, Go, Finish
  <2>3. Stored' /\ (bundle # None => bundle' # None)
      BY <1>14, <1>0 DEF PickVersion, IsAt, Setting, keys, Stored, Holds,
         EvolverHolds, UserHolds, JudgeHolds, ProcessHolds
  <2> QED
      BY <2>1, <2>2, <2>3, OthersHold
<1>15. ASSUME NEW p \in Evolver \cup User, Install(p) PROVE HoldInv'
  <2>1. Holds(p)'
      BY <1>15, <1>0 DEF Install, IsAt, Setting, Go, Finish, NoWork, keys, Stored,
         Holder, Holds, EvolverHolds, UserHolds, JudgeHolds, ProcessHolds
  <2>2. \A q \in Process \ {p} : proc'[q] = proc[q]
      BY <1>15, <1>0 DEF Install, Go, Finish
  <2>3. Stored' /\ (bundle # None => bundle' # None)
      BY <1>15, <1>0 DEF Install, IsAt, Setting, keys, Stored, Holds,
         EvolverHolds, UserHolds, JudgeHolds, ProcessHolds
  <2> QED
      BY <2>1, <2>2, <2>3, OthersHold
<1>16. ASSUME NEW j \in {Judge}, JudgeLoad(j) PROVE HoldInv'
  <2>1. Holds(j)'
      BY <1>16, <1>0 DEF JudgeLoad, IsAt, Setting, Go, Finish, NoWork, keys, Stored,
         Holder, Holds, EvolverHolds, UserHolds, JudgeHolds, ProcessHolds
  <2>2. \A q \in Process \ {j} : proc'[q] = proc[q]
      BY <1>16, <1>0 DEF JudgeLoad, Go, Finish
  <2>3. Stored' /\ (bundle # None => bundle' # None)
      BY <1>16, <1>0 DEF JudgeLoad, IsAt, Setting, keys, Stored, Holds,
         EvolverHolds, UserHolds, JudgeHolds, ProcessHolds
  <2> QED
      BY <2>1, <2>2, <2>3, OthersHold
<1>17. ASSUME NEW j \in {Judge}, JudgeDecide(j) PROVE HoldInv'
  <2>1. Holds(j)'
      BY <1>17, <1>0 DEF JudgeDecide, IsAt, Setting, Go, Finish, NoWork, keys, Stored,
         Holder, Holds, EvolverHolds, UserHolds, JudgeHolds, ProcessHolds
  <2>2. \A q \in Process \ {j} : proc'[q] = proc[q]
      BY <1>17, <1>0 DEF JudgeDecide, Go, Finish
  <2>3. Stored' /\ (bundle # None => bundle' # None)
      BY <1>17, <1>0 DEF JudgeDecide, IsAt, Setting, keys, Stored, Holds,
         EvolverHolds, UserHolds, JudgeHolds, ProcessHolds
  <2> QED
      BY <2>1, <2>2, <2>3, OthersHold
<1>18. ASSUME NEW p \in Process, LoadSnapshot(p) PROVE HoldInv'
  <2>1. Holds(p)'
      BY <1>18, <1>0 DEF LoadSnapshot, IsAt, Setting, Go, Finish, NoWork, keys,
         Stored, Holder, Holds, EvolverHolds, UserHolds, JudgeHolds,
         ProcessHolds
  <2>2. \A q \in Process \ {p} : proc'[q] = proc[q]
      BY <1>18, <1>0 DEF LoadSnapshot, Go, Finish
  <2>3. Stored' /\ (bundle # None => bundle' # None)
      BY <1>18, <1>0 DEF LoadSnapshot, IsAt, Setting, keys, Stored, Holds,
         EvolverHolds, UserHolds, JudgeHolds, ProcessHolds
  <2> QED
      BY <2>1, <2>2, <2>3, OthersHold
<1>19. ASSUME NEW p \in Process, Restore(p) PROVE HoldInv'
  <2>1. Holds(p)'
      BY <1>19, <1>0 DEF Restore, IsAt, Setting, Go, Finish, NoWork, keys, Stored,
         Holder, Holds, EvolverHolds, UserHolds, JudgeHolds, ProcessHolds
  <2>2. \A q \in Process \ {p} : proc'[q] = proc[q]
      BY <1>19, <1>0 DEF Restore, Go, Finish
  <2>3. Stored' /\ (bundle # None => bundle' # None)
      BY <1>19, <1>0 DEF Restore, IsAt, Setting, keys, Stored, Holds,
         EvolverHolds, UserHolds, JudgeHolds, ProcessHolds
  <2> QED
      BY <2>1, <2>2, <2>3, OthersHold
<1>20. ASSUME NEW p \in Process, ReloadCanary(p) PROVE HoldInv'
  <2>1. Holds(p)'
      BY <1>20, <1>0 DEF ReloadCanary, IsAt, Setting, Go, Finish, NoWork, keys,
         Stored, Holder, Holds, EvolverHolds, UserHolds, JudgeHolds,
         ProcessHolds
  <2>2. \A q \in Process \ {p} : proc'[q] = proc[q]
      BY <1>20, <1>0 DEF ReloadCanary, Go, Finish
  <2>3. Stored' /\ (bundle # None => bundle' # None)
      BY <1>20, <1>0 DEF ReloadCanary, IsAt, Setting, keys, Stored, Holds,
         EvolverHolds, UserHolds, JudgeHolds, ProcessHolds
  <2> QED
      BY <2>1, <2>2, <2>3, OthersHold
<1>21. ASSUME NEW p \in Process, Close(p) PROVE HoldInv'
  <2>1. Holds(p)'
      BY <1>21, <1>0 DEF Close, IsAt, Setting, Go, Finish, NoWork, keys, Stored,
         Holder, Holds, EvolverHolds, UserHolds, JudgeHolds, ProcessHolds
  <2>2. \A q \in Process \ {p} : proc'[q] = proc[q]
      BY <1>21, <1>0 DEF Close, Go, Finish
  <2>3. Stored' /\ (bundle # None => bundle' # None)
      BY <1>21, <1>0 DEF Close, IsAt, Setting, keys, Stored, Holds,
         EvolverHolds, UserHolds, JudgeHolds, ProcessHolds
  <2> QED
      BY <2>1, <2>2, <2>3, OthersHold
<1>22. ASSUME NEW p \in Process, Record(p) PROVE HoldInv'
  <2>1. Holds(p)'
      BY <1>22, <1>0 DEF Record, IsAt, Setting, Go, Finish, NoWork, keys, Stored,
         Holder, Holds, EvolverHolds, UserHolds, JudgeHolds, ProcessHolds
  <2>2. \A q \in Process \ {p} : proc'[q] = proc[q]
      BY <1>22, <1>0 DEF Record, Go, Finish
  <2>3. Stored' /\ (bundle # None => bundle' # None)
      BY <1>22, <1>0 DEF Record, IsAt, Setting, keys, Stored, Holds,
         EvolverHolds, UserHolds, JudgeHolds, ProcessHolds
  <2> QED
      BY <2>1, <2>2, <2>3, OthersHold
<1>23. ASSUME NEW p \in Process, Cut(p) PROVE HoldInv'
  <2>1. Holds(p)'
      BY <1>23, <1>0 DEF Cut, IsAt, Setting, Go, Finish, NoWork, keys, Stored, Holder,
         Holds, EvolverHolds, UserHolds, JudgeHolds, ProcessHolds
  <2>2. \A q \in Process \ {p} : proc'[q] = proc[q]
      BY <1>23, <1>0 DEF Cut, Go, Finish
  <2>3. Stored' /\ (bundle # None => bundle' # None)
      BY <1>23, <1>0 DEF Cut, IsAt, Setting, keys, Stored, Holds,
         EvolverHolds, UserHolds, JudgeHolds, ProcessHolds
  <2> QED
      BY <2>1, <2>2, <2>3, OthersHold
<1>24. CASE WindowOver \/ \E c \in Candidate : Measure(c)
    BY <1>24, <1>0 DEF WindowOver, Measure, keys, HoldInv, Stored, Holds,
       EvolverHolds, UserHolds, JudgeHolds, ProcessHolds
<1> QED
    BY <1>1, <1>2, <1>3, <1>4, <1>5, <1>6, <1>7, <1>8, <1>9, <1>10, <1>11,
       <1>12, <1>13, <1>14, <1>15, <1>16, <1>17, <1>18, <1>19, <1>20, <1>21,
       <1>22, <1>23, <1>24
    DEF RolloutNext, EvolverStep, UserStep, JudgeStep

----------------------------------------------------------------------------
(* What the values owe to each other. *)

LEMMA InitUndo == RolloutInit => UndoInv
<1> SUFFICES ASSUME RolloutInit PROVE UndoInv
    OBVIOUS
<1>1. \A e \in Evolver : proc[e].at = "idle"
    BY NamesTyped DEF RolloutInit, NoWork
<1> QED
    BY <1>1 DEF RolloutInit, NoCanary, UndoInv, ChangedIsOrdered, ReadIsStable,
       BaselineIsStable, ReadIsKept, BaselineIsKept, CandidateIsOffered

(* The steps that write what the property compares are Keep, Offer,        *)
(* Activate, Install, Restore and Close; Evaluate and PickVersion are      *)
(* taken apart because they choose.                                        *)
LEMMA UndoStep ==
    ASSUME Setting, OneEvolver, RolloutTypeOK, HoldInv, UndoInv, [RolloutNext]_rolloutVars
    PROVE  UndoInv'
<1> SUFFICES ASSUME cuts' = 0 PROVE UndoInv'
    BY DEF UndoInv
<1>0. /\ Stored /\ \A p \in Process : Holds(p)
      /\ proc \in [Process -> Holder]
      /\ changed \subseteq {"evolution", "canary"}
      /\ Evolver \subseteq Process /\ User \subseteq Process /\ Judge \in Process
      /\ cuts \in Nat
    BY NamesTyped DEF HoldInv, RolloutTypeOK, Holder, Setting
<1> USE DEF UndoInv, ChangedIsOrdered, ReadIsStable, BaselineIsStable, ReadIsKept,
            BaselineIsKept, CandidateIsOffered, UserPending, OneEvolver
<1>1. CASE UNCHANGED rolloutVars
    BY <1>1 DEF rolloutVars, keys
<1>2. ASSUME NEW e \in Evolver, EvolveRead(e) PROVE UndoInv'
    BY <1>2, <1>0 DEF EvolveRead, IsAt, NoWork, Setting, keys, Holder, Stored,
       Holds, EvolverHolds, UserHolds, JudgeHolds
<1>3. ASSUME NEW e \in Evolver, Evaluate(e) PROVE UndoInv'
  <2>1. /\ cuts = 0 /\ IsAt(e, "evaluating") /\ UNCHANGED changed
        /\ profile' = profile /\ snapshot' = snapshot
        /\ bundle' = bundle /\ canary' = canary
      BY <1>3, <1>0 DEF Evaluate, keys
  <2>2. \A q \in Process \ {e} : proc'[q] = proc[q]
      BY <1>3, <1>0 DEF Evaluate, Finish
  <2>3. /\ proc'[e].at \in {"idle", "offer", "keep"}
        /\ proc'[e].at = "keep" => proc'[e].read = proc[e].read
        /\ proc'[e].at = "offer" => proc[e].read = None
    <3>1. CASE Finish(e)
        BY <3>1, <1>0 DEF Finish, NoWork
    <3>2. ASSUME NEW c \in Candidate,
                 proc' = [proc EXCEPT ![e].mine = c,
                     ![e].at = IF proc[e].read = None THEN "offer" ELSE "keep"]
          PROVE  /\ proc'[e].at \in {"idle", "offer", "keep"}
                 /\ proc'[e].at = "keep" => proc'[e].read = proc[e].read
                 /\ proc'[e].at = "offer" => proc[e].read = None
        BY <3>2, <1>0 DEF Holder
    <3> QED
        BY <3>1, <3>2, <1>3 DEF Evaluate
  <2>4. proc[e].read # None
      BY <2>1, <1>0 DEF IsAt, Holds, EvolverHolds
  <2>5. \A f \in Evolver : f = e
      BY DEF OneEvolver
  <2>6. UserPending' = UserPending
      BY <2>2, <1>0 DEF UserPending, Setting
  <2> QED
      BY <2>1, <2>3, <2>4, <2>5, <2>6 DEF IsAt
<1>4. ASSUME NEW p \in Process, KeepSnapshot(p) PROVE UndoInv'
  <2>1. /\ cuts = 0 /\ IsAt(p, "keep") /\ UNCHANGED changed
        /\ profile' = profile /\ snapshot' = proc[p].read
        /\ bundle' = bundle /\ canary' = canary
      BY <1>4, <1>0 DEF KeepSnapshot, keys
  <2>2. \A q \in Process \ {p} : proc'[q] = proc[q]
      BY <1>4, <1>0 DEF KeepSnapshot, Go
  <2>3. /\ proc'[p].at = (IF proc[p].kind = "prompt" THEN "offer" ELSE "push")
        /\ proc'[p].read = proc[p].read
      BY <1>4, <1>0 DEF KeepSnapshot, Go, Holder
  <2>4. CASE p \in Evolver
    <3>1. \A f \in Evolver : f = p
        BY <2>4 DEF OneEvolver
    <3>2. UserPending' = UserPending
        BY <2>2, <2>4, <1>0 DEF UserPending, Setting
    <3>3. BaselineIsKept'
        BY <2>1, <2>3, <2>4, <3>1 DEF IsAt
    <3> QED
        BY <2>1, <2>3, <2>4, <3>1, <3>2, <3>3 DEF IsAt
  <2>5. CASE p \in User
    <3>1. proc'[p].at = "push"
        BY <2>1, <2>3, <2>5, <1>0 DEF IsAt, Holds, UserHolds
    <3>2. UserPending'
        BY <3>1, <2>5 DEF UserPending
    <3>3. \A e \in Evolver : proc'[e] = proc[e]
        BY <2>2, <2>5, <1>0 DEF Setting
    <3> QED
        BY <2>1, <3>2, <3>3
  <2> QED
      BY <2>1, <2>4, <2>5, <1>0 DEF IsAt, Process, Holds, JudgeHolds
<1>5. ASSUME NEW p \in Process, PushLoad(p) PROVE UndoInv'
    BY <1>5, <1>0 DEF PushLoad, IsAt, Setting, keys, Holder, Stored, Holds,
       EvolverHolds, UserHolds, JudgeHolds
<1>6. ASSUME NEW p \in Process, PushStore(p) PROVE UndoInv'
    BY <1>6, <1>0 DEF PushStore, IsAt, Go, Setting, Holder, Stored, Holds,
       EvolverHolds, UserHolds, JudgeHolds
<1>7. ASSUME NEW e \in Evolver, Offer(e) PROVE UndoInv'
    BY <1>7, <1>0 DEF Offer, IsAt, Go, Setting, Holder, Stored, Holds,
       EvolverHolds, UserHolds, JudgeHolds
<1>8. ASSUME NEW e \in Evolver, Activate(e) PROVE UndoInv'
  <2>1. /\ cuts = 0 /\ proc[e].at = "activate" /\ proc[e].read # None
        /\ UNCHANGED <<profile, bundle, snapshot>>
        /\ changed' \subseteq changed \cup {"canary"}
        /\ "canary" \in changed' <=> "evolution" \in changed
        /\ "evolution" \in changed' <=> "evolution" \in changed
        /\ canary'.baseline = proc[e].read /\ canary'.candidate = proc[e].mine
      BY <1>8, <1>0 DEF Activate, IsAt, OrDefault, Holds, EvolverHolds
  <2>2. /\ proc'[e].at = "measured"
        /\ \A q \in Process \ {e} : proc'[q] = proc[q]
      BY <1>8, <1>0 DEF Activate, Holder
  <2>3. \A f \in Evolver : f = e
      OBVIOUS
  <2>4. UserPending' = UserPending
      BY <2>2, <1>0 DEF UserPending, Setting
  <2> QED
      BY <2>1, <2>2, <2>3, <2>4
<1>9. ASSUME NEW e \in Evolver, Replay(e) PROVE UndoInv'
    BY <1>9, <1>0 DEF Replay, IsAt, Go, Finish, NoWork, Setting, keys, Holder,
       Stored, Holds, EvolverHolds, UserHolds, JudgeHolds
<1>10. ASSUME NEW u \in User, Request(u) PROVE UndoInv'
    BY <1>10, <1>0 DEF Request, IsAt, NoWork, Setting, keys, Holder, Stored,
       Holds, EvolverHolds, UserHolds, JudgeHolds
<1>11. ASSUME NEW u \in User, LoadCanary(u) PROVE UndoInv'
    BY <1>11, <1>0 DEF LoadCanary, IsAt, Finish, NoWork, Setting, keys, Holder,
       Stored, Holds, EvolverHolds, UserHolds, JudgeHolds
<1>12. ASSUME NEW u \in User, FetchBundle(u) PROVE UndoInv'
    BY <1>12, <1>0 DEF FetchBundle, IsAt, Setting, keys, Holder, Stored,
       Holds, EvolverHolds, UserHolds, JudgeHolds
<1>13. ASSUME NEW u \in User, ReadBaseline(u) PROVE UndoInv'
    BY <1>13, <1>0 DEF ReadBaseline, IsAt, OrDefault, Setting, keys, Holder,
       Stored, Holds, EvolverHolds, UserHolds, JudgeHolds
<1>14. ASSUME NEW u \in User, PickVersion(u) PROVE UndoInv'
  <2>1. /\ cuts = 0 /\ UNCHANGED changed
        /\ profile' = profile /\ snapshot' = snapshot
        /\ bundle' = bundle /\ canary' = canary
      BY <1>14, <1>0 DEF PickVersion, keys
  <2>2. \A q \in Process \ {u} : proc'[q] = proc[q]
      BY <1>14, <1>0 DEF PickVersion, Finish
  <2>3. \A e \in Evolver : proc'[e] = proc[e]
      BY <2>2, <1>0 DEF Setting
  <2>4. UserPending => UserPending'
    <3>1. ASSUME NEW v \in User, proc[v].at \in {"push", "pushed", "install"}
          PROVE  proc'[v].at = proc[v].at
        BY <3>1, <2>2, <1>14, <1>0 DEF PickVersion, IsAt
    <3> QED
        BY <3>1 DEF UserPending
  <2> QED
      BY <2>1, <2>3, <2>4
<1>15. ASSUME NEW p \in Evolver \cup User, Install(p) PROVE UndoInv'
    BY <1>15, <1>0 DEF Install, IsAt, Go, Touched, Setting, Holder, Stored,
       Holds, EvolverHolds, UserHolds, JudgeHolds, ProcessHolds
<1>16. ASSUME NEW j \in {Judge}, JudgeLoad(j) PROVE UndoInv'
    BY <1>16, <1>0 DEF JudgeLoad, IsAt, NoWork, Setting, keys, Holder, Stored,
       Holds, EvolverHolds, UserHolds, JudgeHolds
<1>17. ASSUME NEW j \in {Judge}, JudgeDecide(j) PROVE UndoInv'
    BY <1>17, <1>0 DEF JudgeDecide, IsAt, Go, Finish, NoWork, Setting, keys,
       Holder, Stored, Holds, EvolverHolds, UserHolds, JudgeHolds
<1>18. ASSUME NEW p \in Process, LoadSnapshot(p) PROVE UndoInv'
    BY <1>18, <1>0 DEF LoadSnapshot, IsAt, Finish, NoWork, Setting, keys, Holder,
       Stored, Holds, EvolverHolds, UserHolds, JudgeHolds
<1>19. ASSUME NEW p \in Process, Restore(p) PROVE UndoInv'
    BY <1>19, <1>0 DEF Restore, IsAt, Go, Touched, Setting, Holder, Stored,
       Holds, EvolverHolds, UserHolds, JudgeHolds, ProcessHolds
<1>20. ASSUME NEW p \in Process, ReloadCanary(p) PROVE UndoInv'
    BY <1>20, <1>0 DEF ReloadCanary, IsAt, Finish, NoWork, Setting, keys, Holder,
       Stored, Holds, EvolverHolds, UserHolds, JudgeHolds
<1>21. ASSUME NEW p \in Process, Close(p) PROVE UndoInv'
    BY <1>21, <1>0 DEF Close, IsAt, Go, Finish, NoWork, Setting, Holder, Stored,
       Holds, EvolverHolds, UserHolds, JudgeHolds
<1>22. ASSUME NEW p \in Process, Record(p) PROVE UndoInv'
    BY <1>22, <1>0 DEF Record, IsAt, Finish, NoWork, Setting, Holder, Stored,
       Holds, EvolverHolds, UserHolds, JudgeHolds
<1>23. CASE WindowOver \/ \E c \in Candidate : Measure(c)
    BY <1>23 DEF WindowOver, Measure, keys
<1>24. ASSUME NEW p \in Process, Cut(p) PROVE UndoInv'
    BY <1>24, <1>0 DEF Cut
<1> QED
    BY <1>0, <1>1, <1>2, <1>3, <1>4, <1>5, <1>6, <1>7, <1>8, <1>9, <1>10,
       <1>11, <1>12, <1>13, <1>14, <1>15, <1>16, <1>17, <1>18, <1>19, <1>20,
       <1>21, <1>22, <1>23, <1>24
    DEF RolloutNext, EvolverStep, UserStep, JudgeStep

(* When everything is idle nothing is pending, and the canary's baseline   *)
(* is both the stable bundle and the snapshot.                             *)
LEMMA UndoImplies ==
    ASSUME UndoInv, OneEvolver
    PROVE  RevertOnlyEndsTheTest
<1> SUFFICES ASSUME Undisturbed
             PROVE  /\ {snapshot, canary.baseline} = {profile}
                    /\ bundle = canary.candidate
    BY DEF RevertOnlyEndsTheTest
<1>1. PICK e \in Evolver : TRUE
    BY DEF OneEvolver
<1>2. ~UserPending /\ proc[e].at = "idle"
    BY <1>1, NamesTyped DEF Undisturbed, UserPending, IsAt
<1> QED
    BY <1>1, <1>2 DEF Undisturbed, UndoInv, BaselineIsStable, BaselineIsKept,
       CandidateIsOffered

(* A canary that nothing interfered with can be undone: the snapshot a     *)
(* rollback restores is the stable bundle, which is the one the canary is  *)
(* measured against, and the bundle under test is the one it names         *)
(* (evolution_control.rs, rollback_prompt_baseline_for_surface).           *)
THEOREM RevertsOnlyEndTheTest ==
    Setting /\ OneEvolver => (RolloutSpec => []RevertOnlyEndsTheTest)
<1> SUFFICES ASSUME Setting, OneEvolver PROVE RolloutSpec => []RevertOnlyEndsTheTest
    OBVIOUS
<1> DEFINE I == RolloutTypeOK /\ HoldInv /\ UndoInv
<1>1. RolloutInit => I
    BY InitTyped, InitHolds, InitUndo
<1>2. I /\ [RolloutNext]_rolloutVars => I'
    BY TypedStep, HoldStep, UndoStep
<1>3. I => RevertOnlyEndsTheTest
    BY UndoImplies
<1> QED
    BY <1>1, <1>2, <1>3, PTL DEF RolloutSpec

=============================================================================
