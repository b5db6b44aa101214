--------------------------- MODULE Pipelines_proofs ---------------------------
(* Proofs about Pipelines, for any finite number of nodes and runs, every  *)
(* specification and any bounds: the compiler is sound, runs keep to the   *)
(* order it gives, and traces and records say what happened.               *)
EXTENDS Pipelines, FiniteSetTheorems, TLAPS

RunRecord == [stage : Stage, at : Nat, attempt : 1..MaxAttempts,
              outputs : SUBSET Node, failed : SUBSET Node]

Listed == {ordered[i] : i \in 1..Len(ordered)}
Before(k) == {ordered[i] : i \in 1..(k - 1)}

(* Kahn's algorithm: the queue holds what only depends on listed nodes,    *)
(* and no node of a cycle is ever queued.                                  *)
CompileInv ==
    /\ \A i, j \in 1..Len(ordered) : ordered[i] = ordered[j] => i = j
    /\ IsFiniteSet(Listed) /\ Cardinality(Listed) = Len(ordered)
    /\ queue \cap Listed = {}
    /\ \A n \in Node : indegree[n] = Cardinality(spec.deps[n] \ Listed)
    /\ \A n \in Node : n \in queue \cup Listed <=> spec.deps[n] \subseteq Listed
    /\ \A i \in 1..Len(ordered) : spec.deps[ordered[i]] \subseteq Before(i)
    /\ \A S \in SUBSET Node : Deadlocked(S) => S \cap (queue \cup Listed) = {}

AtNode == {"deleting", "acting", "saving"}

(* What holds of the record of a run. *)
RunOK(x) ==
    /\ x.stage = "new" => x.at = 1 /\ x.outputs = {} /\ x.failed = {}
    /\ x.stage \notin {"new", "ended"} => Compiled
    /\ x.stage \in AtNode \cup {"next"} =>
          /\ x.at \in 1..(Len(ordered) + 1)
          /\ x.failed \cap spec.stop = {}
    /\ x.stage \in {"next", "deleting", "acting"} =>
          x.outputs \cup x.failed = Before(x.at)
    /\ x.stage \in AtNode =>
          /\ x.at \in 1..Len(ordered)
          /\ spec.deps[ordered[x.at]] \subseteq x.outputs
    /\ x.stage = "saving" =>
          /\ ordered[x.at] \in x.outputs \cap spec.once
          /\ x.outputs \cup x.failed = Before(x.at + 1)
    /\ x.stage = "ending" => x.failed \cap spec.stop # {}
    /\ \A n \in x.outputs : spec.deps[n] \subseteq x.outputs
    /\ x.outputs \cap x.failed = {}

RunInv == \A r \in Run : RunOK(run[r])

TraceInv ==
    /\ TraceTellsTruth
    /\ \A r \in Run : trace[r] # "none" => run[r].stage = "ended"

Busy(n) == {r \in Run : run[r].stage \in {"deleting", "acting"} /\ Here(r) = n}
There(n) == {r \in Run : run[r].stage \in AtNode /\ Here(r) = n}

(* Whatever a node was or is being executed for is accounted for.          *)
Account(n) ==
    done[n] + Cardinality(Busy(n)) <=
        causes[n] + (IF store[n] = "live" \/ There(n) # {} THEN 1 ELSE 0)

CauseInv == \A n \in spec.once : Account(n)

IInv == TypeOK /\ CompileInv /\ RunInv /\ TraceInv /\ CauseInv

----------------------------------------------------------------------------
(* What a node depends on are finitely many nodes.                         *)
LEMMA Dependencies ==
    ASSUME TypeOK, NEW n \in Node, NEW S
    PROVE  /\ spec.deps[n] \subseteq Node
           /\ IsFiniteSet(spec.deps[n] \ S)
           /\ Cardinality(spec.deps[n] \ S) \in Nat
<1>1. spec.deps[n] \in SUBSET Node
  BY DEF TypeOK, PipelineSpec
<1>2. IsFiniteSet(spec.deps[n] \ S)
  BY <1>1, FS_Subset, PipelineAssumption
<1> QED
  BY <1>1, <1>2, FS_CardinalityType

(* Once the pipeline is compiled, every node is listed.                    *)
LEMMA AllListed ==
    ASSUME TypeOK, CompileInv
    PROVE  Len(ordered) = Cardinality(Node) <=> Listed = Node
<1>1. Listed \in SUBSET Node
  BY DEF TypeOK, Listed
<1> QED
  BY <1>1, FS_Subset, PipelineAssumption DEF CompileInv

(* A position of the order: its node is new there, and comes after all it  *)
(* depends on.                                                             *)
LEMMA Position ==
    ASSUME TypeOK, CompileInv, NEW k \in 1..Len(ordered)
    PROVE  /\ ordered[k] \in Node
           /\ ordered[k] \notin Before(k)
           /\ Before(k + 1) = Before(k) \cup {ordered[k]}
           /\ spec.deps[ordered[k]] \subseteq Before(k)
<1>1. ordered \in Seq(Node) /\ Len(ordered) \in Nat
  BY DEF TypeOK
<1>2. ordered[k] \in Node
  BY <1>1
<1>3. ordered[k] \notin Before(k)
  BY <1>1 DEF CompileInv, Before
<1>4. Before(k + 1) = Before(k) \cup {ordered[k]}
  <2>1. 1..((k + 1) - 1) = (1..(k - 1)) \cup {k}
    BY <1>1
  <2> QED
    BY <2>1 DEF Before
<1>5. spec.deps[ordered[k]] \subseteq Before(k)
  BY DEF CompileInv
<1> QED
  BY <1>2, <1>3, <1>4, <1>5

----------------------------------------------------------------------------
LEMMA InitInv == Init => IInv
<1> SUFFICES ASSUME NEW s \in Spec0, InitWith(s)
             PROVE  IInv
  BY DEF Init
<1> USE DEF InitWith
<1>1. s \in PipelineSpec /\ spec = s
  BY PipelineAssumption
<1>2. \A n \in Node : s.deps[n] \in SUBSET Node
  BY <1>1 DEF PipelineSpec
<1>3. \A n \in Node : IsFiniteSet(s.deps[n]) /\ Cardinality(s.deps[n]) \in Nat
  <2> TAKE n \in Node
  <2>1. IsFiniteSet(s.deps[n])
    BY <1>2, FS_Subset, PipelineAssumption
  <2> QED
    BY <2>1, FS_CardinalityType
<1>4. TypeOK
  <2>1. indegree \in [Node -> Nat]
    BY <1>1, <1>3
  <2>2. run \in [Run -> RunRecord]
    BY PipelineAssumption DEF Fresh, RunRecord, Stage
  <2>3. faults \in 0..MaxFaults /\ trace \in [Run -> Result]
    BY PipelineAssumption DEF Result
  <2> QED
    BY <1>1, <2>1, <2>2, <2>3 DEF TypeOK, RunRecord
<1>5. Listed = {} /\ Len(ordered) = 0
  BY DEF Listed
<1>6. CompileInv
  <2>1. IsFiniteSet(Listed) /\ Cardinality(Listed) = Len(ordered)
    BY <1>5, FS_EmptySet
  <2>2. \A n \in Node : indegree[n] = Cardinality(spec.deps[n] \ Listed)
    BY <1>1, <1>5
  <2>3. \A n \in Node : n \in queue \cup Listed <=> spec.deps[n] \subseteq Listed
    BY <1>1, <1>5
  <2>4. \A S \in SUBSET Node : Deadlocked(S) => S \cap (queue \cup Listed) = {}
    BY <1>1, <1>5 DEF Deadlocked
  <2> QED
    BY <1>5, <2>1, <2>2, <2>3, <2>4 DEF CompileInv
<1>7. RunInv
  BY DEF RunInv, RunOK, Fresh, AtNode
<1>8. TraceInv
  BY DEF TraceInv, TraceTellsTruth
<1>9. CauseInv
  <2>1. \A n : Busy(n) = {}
    BY DEF Busy, Fresh
  <2>2. \A n \in Node : done[n] = 0 /\ causes[n] = 0
    OBVIOUS
  <2>3. spec.once \subseteq Node
    BY <1>1 DEF PipelineSpec
  <2>4. ASSUME NEW n \in spec.once
        PROVE  Account(n)
    <3>1. Cardinality(Busy(n)) = 0
      BY <2>1, FS_EmptySet
    <3>2. done[n] = 0 /\ causes[n] = 0
      BY <2>2, <2>3
    <3> QED
      BY <3>1, <3>2 DEF Account
  <2> QED
    BY <2>4 DEF CauseInv
<1> QED
  BY <1>4, <1>6, <1>7, <1>8, <1>9 DEF IInv

----------------------------------------------------------------------------
(* The compiler. *)

LEMMA PopCompiles ==
    ASSUME TypeOK, CompileInv, Pop
    PROVE  CompileInv' /\ indegree' \in [Node -> Nat]
           /\ queue' \subseteq Node /\ ordered' \in Seq(Node)
<1> PICK h \in queue :
        /\ ordered' = Append(ordered, h)
        /\ indegree' = [n \in Node |-> Least(n, h)]
        /\ queue' = (queue \ {h}) \cup
              {n \in Node : h \in spec.deps[n] /\ Least(n, h) = 0}
        /\ spec' = spec
  BY DEF Pop
<1>1. h \in Node /\ h \notin Listed /\ ordered \in Seq(Node) /\ Len(ordered) \in Nat
  BY DEF TypeOK, CompileInv
<1>2. /\ ordered' \in Seq(Node) /\ Len(ordered') = Len(ordered) + 1
      /\ ordered'[Len(ordered) + 1] = h
      /\ \A i \in 1..Len(ordered) : ordered'[i] = ordered[i]
  BY <1>1
<1>3. Listed' = Listed \cup {h}
  BY <1>1, <1>2 DEF Listed
<1>4. \A n \in Node :
         /\ Least(n, h) = Cardinality(spec.deps[n] \ Listed')
         /\ Least(n, h) \in Nat
  <2> TAKE n \in Node
  <2>1. indegree[n] = Cardinality(spec.deps[n] \ Listed) /\ indegree[n] \in Nat
    BY DEF CompileInv, TypeOK
  <2>2. IsFiniteSet(spec.deps[n] \ Listed)
    BY Dependencies
  <2>3. CASE h \in spec.deps[n]
    <3>1. spec.deps[n] \ Listed' = (spec.deps[n] \ Listed) \ {h}
      BY <1>3
    <3>2. h \in spec.deps[n] \ Listed
      BY <1>1, <2>3
    <3>3. Cardinality(spec.deps[n] \ Listed') = indegree[n] - 1
      <4>1. Cardinality((spec.deps[n] \ Listed) \ {h})
                = Cardinality(spec.deps[n] \ Listed) - 1
        BY <2>2, <3>2, FS_RemoveElement
      <4> QED
        BY <2>1, <3>1, <4>1
    <3>4. Cardinality(spec.deps[n] \ Listed') \in Nat
      BY Dependencies
    <3> QED
      BY <2>1, <2>3, <3>3, <3>4 DEF Least
  <2>4. CASE h \notin spec.deps[n]
    <3>1. spec.deps[n] \ Listed' = spec.deps[n] \ Listed
      BY <1>3, <2>4
    <3> QED
      BY <2>1, <2>4, <3>1 DEF Least
  <2> QED
    BY <2>3, <2>4
<1>5. \A n \in Node : Least(n, h) = 0 <=> spec.deps[n] \subseteq Listed'
  <2> TAKE n \in Node
  <2>1. IsFiniteSet(spec.deps[n] \ Listed')
    BY Dependencies
  <2>2. Least(n, h) = 0 <=> spec.deps[n] \ Listed' = {}
    BY <1>4, <2>1, FS_EmptySet
  <2> QED
    BY <2>2
<1>6. \A n \in Node : n \in queue' \cup Listed' <=> spec.deps[n] \subseteq Listed'
  <2> TAKE n \in Node
  <2>1. n \in queue \cup Listed <=> spec.deps[n] \subseteq Listed
    BY DEF CompileInv
  <2> QED
    BY <1>3, <1>5, <2>1
<1>7. queue' \cap Listed' = {}
  <2> SUFFICES ASSUME NEW n \in queue', n \in Listed'
               PROVE  FALSE
    OBVIOUS
  <2>1. n \notin queue \ {h}
    BY <1>3 DEF CompileInv
  <2>2. n \in Node /\ h \in spec.deps[n]
    BY <2>1
  <2>3. n \in queue \cup Listed
    BY <1>3
  <2>4. spec.deps[n] \subseteq Listed
    BY <2>2, <2>3 DEF CompileInv
  <2> QED
    BY <1>1, <2>2, <2>4
<1>8. \A i, j \in 1..Len(ordered') : ordered'[i] = ordered'[j] => i = j
  <2>1. \A i \in 1..Len(ordered) : ordered[i] # h
    BY <1>1 DEF Listed
  <2>2. \A i, j \in 1..Len(ordered) : ordered[i] = ordered[j] => i = j
    BY DEF CompileInv
  <2> QED
    BY <1>1, <1>2, <2>1, <2>2
<1>9. IsFiniteSet(Listed') /\ Cardinality(Listed') = Len(ordered')
  BY <1>1, <1>2, <1>3, FS_AddElement DEF CompileInv
<1>10. \A i \in 1..Len(ordered') : spec.deps[ordered'[i]] \subseteq Before(i)'
  <2> TAKE i \in 1..Len(ordered')
  <2>1. CASE i \in 1..Len(ordered)
    <3>1. Before(i)' = Before(i)
      BY <1>1, <1>2, <2>1 DEF Before
    <3> QED
      BY <1>2, <2>1, <3>1 DEF CompileInv
  <2>2. CASE i = Len(ordered) + 1
    <3>1. Before(i)' = Listed
      BY <1>1, <1>2, <2>2 DEF Before, Listed
    <3>2. spec.deps[h] \subseteq Listed
      BY <1>1 DEF CompileInv
    <3>3. ordered'[i] = h
      BY <1>2, <2>2
    <3> QED
      BY <3>1, <3>2, <3>3
  <2> QED
    BY <1>1, <1>2, <2>1, <2>2
<1>11. \A S \in SUBSET Node : Deadlocked(S) => S \cap (queue' \cup Listed') = {}
  <2> SUFFICES ASSUME NEW S \in SUBSET Node, Deadlocked(S),
                      NEW n \in S, n \in queue' \cup Listed'
               PROVE  FALSE
    OBVIOUS
  <2>1. S \cap (queue \cup Listed) = {}
    BY DEF CompileInv
  <2>2. S \cap Listed' = {}
    BY <1>3, <2>1
  <2>3. spec.deps[n] \subseteq Listed'
    BY <1>6
  <2> QED
    BY <2>2, <2>3 DEF Deadlocked
<1>12. CompileInv'
  <2>1. \A n \in Node : indegree'[n] = Cardinality(spec'.deps[n] \ Listed')
    BY <1>4
  <2> QED
    BY <1>6, <1>7, <1>8, <1>9, <1>10, <1>11, <2>1 DEF CompileInv, Deadlocked
<1>13. indegree' \in [Node -> Nat] /\ queue' \subseteq Node
  BY <1>4 DEF TypeOK
<1> QED
  BY <1>2, <1>12, <1>13

LEMMA SoundCompiler ==
    ASSUME TypeOK, CompileInv
    PROVE  CompileSound
<1>1. Listed \in SUBSET Node /\ Len(ordered) \in Nat
  BY DEF TypeOK, Listed
<1>2. ASSUME Refused
      PROVE  HasCycle
  <2>1. Node \ Listed # {}
    BY <1>1, <1>2, AllListed DEF Refused
  <2>2. \A n \in Node \ Listed : spec.deps[n] \cap (Node \ Listed) # {}
    <3> TAKE n \in Node \ Listed
    <3>1. ~(spec.deps[n] \subseteq Listed)
      BY <1>2 DEF Refused, CompileInv
    <3> QED
      BY <3>1, Dependencies
  <2> QED
    BY <2>1, <2>2 DEF HasCycle, Deadlocked
<1>3. ASSUME Compiled
      PROVE  ~HasCycle
  <2>1. Listed = Node
    BY <1>3, AllListed DEF Compiled
  <2> QED
    BY <2>1 DEF CompileInv, HasCycle, Deadlocked
<1>4. ASSUME NEW i \in 1..Len(ordered), NEW j \in 1..Len(ordered),
             ordered[i] \in spec.deps[ordered[j]]
      PROVE  i < j
  <2>1. PICK k \in 1..(j - 1) : ordered[i] = ordered[k]
    BY <1>4 DEF CompileInv, Before
  <2>2. i = k
    BY <1>1, <2>1 DEF CompileInv
  <2> QED
    BY <1>1, <2>1, <2>2
<1> QED
  BY <1>2, <1>3, <1>4 DEF CompileSound, CompileInv

----------------------------------------------------------------------------
(* The record of a run: what a step makes of it.                           *)

Becomes(r, x) == x \in RunRecord /\ RunOK(x) /\ run' = [run EXCEPT ![r] = x]

(* The node at hand is done with, and the run is at the next one.          *)
LEMMA Onward ==
    ASSUME TypeOK, CompileInv, Compiled,
           NEW k \in 1..Len(ordered), NEW x \in RunRecord,
           x.stage = "next", x.at = k + 1,
           x.outputs \cup x.failed = Before(k + 1),
           x.failed \cap spec.stop = {}, x.outputs \cap x.failed = {},
           \A n \in x.outputs : spec.deps[n] \subseteq x.outputs
    PROVE  RunOK(x)
<1>1. Len(ordered) \in Nat
  BY DEF TypeOK
<1> QED
  BY <1>1 DEF RunOK, AtNode

LEMMA NextNodeType ==
    ASSUME TypeOK, NEW r \in Run
    PROVE  /\ NextNode(r) \in RunRecord
           /\ NextNode(r).stage = "next" /\ NextNode(r).at = run[r].at + 1
           /\ NextNode(r).outputs = run[r].outputs
           /\ NextNode(r).failed = run[r].failed
<1>1. run[r] \in RunRecord
  BY DEF TypeOK, RunRecord
<1>2. 1 \in 1..MaxAttempts /\ "next" \in Stage
  BY PipelineAssumption DEF Stage
<1> DEFINE k == run[r].at + 1
<1>3. k \in Nat
  BY <1>1 DEF RunRecord
<1>4. NextNode(r) = [run[r] EXCEPT !.stage = "next", !.at = k, !.attempt = 1]
  BY DEF NextNode
<1> HIDE DEF k
<1>5. /\ NextNode(r) \in RunRecord
      /\ NextNode(r).stage = "next" /\ NextNode(r).at = k
      /\ NextNode(r).outputs = run[r].outputs
      /\ NextNode(r).failed = run[r].failed
  BY <1>1, <1>2, <1>3, <1>4 DEF RunRecord
<1> QED
  BY <1>5 DEF k

LEMMA StartOK ==
    ASSUME TypeOK, RunInv, NEW r \in Run, Start(r)
    PROVE  \E x : Becomes(r, x)
<1> DEFINE x == [run[r] EXCEPT !.stage = "next"]
<1>1. run[r] \in RunRecord /\ Len(ordered) \in Nat
  BY DEF TypeOK, RunRecord
<1>2. x \in RunRecord
  BY <1>1 DEF RunRecord, Stage
<1>3. x.at = 1 /\ x.outputs = {} /\ x.failed = {} /\ x.stage = "next"
  BY <1>1 DEF RunInv, RunOK, Start, RunRecord
<1>4. Before(1) = {}
  BY DEF Before
<1>5. RunOK(x)
  BY <1>1, <1>3, <1>4 DEF RunOK, AtNode, Start
<1>6. run' = [run EXCEPT ![r] = x]
  BY DEF Start, Goes
<1> QED
  BY <1>2, <1>5, <1>6 DEF Becomes

(* A node that did not come to an output, in any of the three ways.        *)
LEMMA GiveUpOK ==
    ASSUME TypeOK, CompileInv, RunInv, NEW r \in Run, GivesUp(r),
           run[r].stage \in {"next", "acting"}, run[r].at <= Len(ordered)
    PROVE  \E x : Becomes(r, x) /\ x.stage \in {"next", "ending"}
<1> DEFINE n == Here(r)
           k == run[r].at
<1>1. run[r] \in RunRecord /\ Len(ordered) \in Nat
  BY DEF TypeOK, RunRecord
<1>2. /\ k \in 1..Len(ordered) /\ Compiled
      /\ run[r].failed \cap spec.stop = {}
      /\ run[r].outputs \cup run[r].failed = Before(k)
      /\ \A m \in run[r].outputs : spec.deps[m] \subseteq run[r].outputs
      /\ run[r].outputs \cap run[r].failed = {}
  BY <1>1 DEF RunInv, RunOK, AtNode
<1>3. /\ n \in Node /\ n \notin Before(k)
      /\ Before(k + 1) = Before(k) \cup {n}
  BY <1>2, Position DEF Here
<1>4. CASE n \in spec.stop
  <2> DEFINE x == [[run[r] EXCEPT !.stage = "ending"]
                      EXCEPT !.failed = run[r].failed \cup {n}]
  <2>1. run' = [run EXCEPT ![r] = x]
    <3> DEFINE e == [run[r] EXCEPT !.stage = "ending"]
    <3>1. run' = [run EXCEPT ![r] = [e EXCEPT !.failed = e.failed \cup {n}]]
      BY <1>4, Zenon DEF GivesUp
    <3>2. e.failed = run[r].failed
      BY <1>1 DEF RunRecord
    <3> QED
      BY <3>1, <3>2
  <2>2. /\ x \in RunRecord /\ x.stage = "ending"
        /\ x.outputs = run[r].outputs /\ x.failed = run[r].failed \cup {n}
    BY <1>1, <1>3 DEF RunRecord, Stage
  <2>3. x.failed \cap spec.stop # {} /\ x.outputs \cap x.failed = {}
    BY <1>2, <1>3, <1>4, <2>2
  <2>4. RunOK(x)
    BY <1>2, <2>2, <2>3 DEF RunOK, AtNode
  <2> QED
    BY <2>1, <2>2, <2>4 DEF Becomes
<1>5. CASE n \notin spec.stop
  <2> DEFINE x == [NextNode(r) EXCEPT !.failed = run[r].failed \cup {n}]
  <2>1. run' = [run EXCEPT ![r] = x]
    BY <1>5, NextNodeType DEF GivesUp, RunRecord
  <2>2. /\ x \in RunRecord /\ x.stage = "next" /\ x.at = k + 1
        /\ x.outputs = run[r].outputs /\ x.failed = run[r].failed \cup {n}
    BY <1>3, NextNodeType DEF RunRecord
  <2>3. /\ x.outputs \cup x.failed = Before(k + 1)
        /\ x.failed \cap spec.stop = {} /\ x.outputs \cap x.failed = {}
        /\ \A m \in x.outputs : spec.deps[m] \subseteq x.outputs
    BY <1>2, <1>3, <1>5, <2>2
  <2>4. RunOK(x)
    BY <1>2, <2>2, <2>3, Onward
  <2> QED
    BY <2>1, <2>2, <2>4 DEF Becomes
<1> QED
  BY <1>4, <1>5

LEMMA LookOK ==
    ASSUME TypeOK, CompileInv, RunInv, NEW r \in Run, Look(r)
    PROVE  \E x : Becomes(r, x)
<1> DEFINE n == Here(r)
           k == run[r].at
<1>1. run[r] \in RunRecord /\ Len(ordered) \in Nat
  BY DEF TypeOK, RunRecord
<1>2. /\ run[r].stage = "next" /\ k <= Len(ordered)
      /\ spec.deps[n] \cap run[r].failed = {}
  BY DEF Look, HasNode, Blocked
<1>3. /\ k \in 1..Len(ordered) /\ Compiled
      /\ run[r].failed \cap spec.stop = {}
      /\ run[r].outputs \cup run[r].failed = Before(k)
      /\ \A m \in run[r].outputs : spec.deps[m] \subseteq run[r].outputs
      /\ run[r].outputs \cap run[r].failed = {}
  BY <1>1, <1>2 DEF RunInv, RunOK, AtNode
<1>4. /\ n \in Node /\ n \notin Before(k) /\ spec.deps[n] \subseteq Before(k)
      /\ Before(k + 1) = Before(k) \cup {n}
  BY <1>3, Position DEF Here
<1>5. spec.deps[n] \subseteq run[r].outputs
  BY <1>2, <1>3, <1>4
<1>6. CASE n \in spec.once /\ store[n] = "live"
  <2> DEFINE x == [NextNode(r) EXCEPT !.outputs = run[r].outputs \cup {n}]
  <2>1. run' = [run EXCEPT ![r] = x]
    BY <1>6, NextNodeType DEF Look
  <2>2. /\ x \in RunRecord /\ x.stage = "next" /\ x.at = k + 1
        /\ x.outputs = run[r].outputs \cup {n} /\ x.failed = run[r].failed
    BY <1>4, NextNodeType DEF RunRecord
  <2>3. /\ x.outputs \cup x.failed = Before(k + 1)
        /\ x.failed \cap spec.stop = {} /\ x.outputs \cap x.failed = {}
        /\ \A m \in x.outputs : spec.deps[m] \subseteq x.outputs
    BY <1>3, <1>4, <1>5, <2>2
  <2>4. RunOK(x)
    BY <1>3, <2>2, <2>3, Onward
  <2> QED
    BY <2>1, <2>2, <2>4 DEF Becomes
<1>7. CASE ~(n \in spec.once /\ store[n] = "live")
  <2> PICK s \in {"deleting", "acting"} : run' = [run EXCEPT ![r].stage = s]
    BY <1>7 DEF Look, Goes
  <2> DEFINE x == [run[r] EXCEPT !.stage = s]
  <2>1. /\ x \in RunRecord /\ x.stage = s /\ x.at = k
        /\ x.outputs = run[r].outputs /\ x.failed = run[r].failed
    BY <1>1 DEF RunRecord, Stage
  <2>2. RunOK(x)
    BY <1>1, <1>3, <1>5, <2>1 DEF RunOK, AtNode, Here
  <2> QED
    BY <2>1, <2>2 DEF Becomes
<1> QED
  BY <1>6, <1>7

LEMMA SucceedOK ==
    ASSUME TypeOK, CompileInv, RunInv, NEW r \in Run, Succeed(r)
    PROVE  \E x : Becomes(r, x)
<1> DEFINE n == Here(r)
           k == run[r].at
<1>1. run[r] \in RunRecord /\ run[r].stage = "acting"
  BY DEF TypeOK, RunRecord, Succeed
<1>2. /\ k \in 1..Len(ordered) /\ Compiled
      /\ run[r].failed \cap spec.stop = {}
      /\ run[r].outputs \cup run[r].failed = Before(k)
      /\ spec.deps[n] \subseteq run[r].outputs
      /\ \A m \in run[r].outputs : spec.deps[m] \subseteq run[r].outputs
      /\ run[r].outputs \cap run[r].failed = {}
  BY <1>1 DEF RunInv, RunOK, AtNode, Here
<1>3. /\ n \in Node /\ n \notin Before(k)
      /\ Before(k + 1) = Before(k) \cup {n}
  BY <1>2, Position DEF Here
<1>4. CASE n \in spec.once
  <2> DEFINE x == [[run[r] EXCEPT !.stage = "saving"]
                      EXCEPT !.outputs = run[r].outputs \cup {n}]
  <2>1. run' = [run EXCEPT ![r] = x]
    <3> DEFINE e == [run[r] EXCEPT !.stage = "saving"]
    <3>1. run' = [run EXCEPT ![r] = [e EXCEPT !.outputs = e.outputs \cup {n}]]
      BY <1>4, Zenon DEF Succeed
    <3>2. e.outputs = run[r].outputs
      BY <1>1 DEF RunRecord
    <3> QED
      BY <3>1, <3>2
  <2>2. /\ x \in RunRecord /\ x.stage = "saving" /\ x.at = k
        /\ x.outputs = run[r].outputs \cup {n} /\ x.failed = run[r].failed
    BY <1>1, <1>3 DEF RunRecord, Stage
  <2>3. /\ x.outputs \cup x.failed = Before(k + 1)
        /\ ordered[k] \in x.outputs \cap spec.once
        /\ spec.deps[ordered[k]] \subseteq x.outputs
        /\ x.outputs \cap x.failed = {}
        /\ \A m \in x.outputs : spec.deps[m] \subseteq x.outputs
    BY <1>2, <1>3, <1>4, <2>2 DEF Here
  <2>4. RunOK(x)
    BY <1>2, <2>2, <2>3 DEF RunOK, AtNode
  <2> QED
    BY <2>1, <2>2, <2>4 DEF Becomes
<1>5. CASE n \notin spec.once
  <2> DEFINE x == [NextNode(r) EXCEPT !.outputs = run[r].outputs \cup {n}]
  <2>1. run' = [run EXCEPT ![r] = x]
    BY <1>5, NextNodeType DEF Succeed
  <2>2. /\ x \in RunRecord /\ x.stage = "next" /\ x.at = k + 1
        /\ x.outputs = run[r].outputs \cup {n} /\ x.failed = run[r].failed
    BY <1>3, NextNodeType DEF RunRecord
  <2>3. /\ x.outputs \cup x.failed = Before(k + 1)
        /\ x.failed \cap spec.stop = {} /\ x.outputs \cap x.failed = {}
        /\ \A m \in x.outputs : spec.deps[m] \subseteq x.outputs
    BY <1>2, <1>3, <2>2
  <2>4. RunOK(x)
    BY <1>2, <2>2, <2>3, Onward
  <2> QED
    BY <2>1, <2>2, <2>4 DEF Becomes
<1> QED
  BY <1>4, <1>5

(* The steps that stay at their node, and the ends of a run.               *)
LEMMA StayOK ==
    ASSUME TypeOK, CompileInv, RunInv, NEW r \in Run,
           DeleteExpired(r) \/ Retry(r) \/ Save(r) \/ End(r) \/ Break(r)
    PROVE  \E x : Becomes(r, x)
<1>1. run[r] \in RunRecord /\ RunOK(run[r]) /\ Len(ordered) \in Nat
  BY DEF TypeOK, RunRecord, RunInv
<1>2. ASSUME NEW s \in {"acting", "ended"}, run' = [run EXCEPT ![r].stage = s],
             run[r].stage = "deleting" \/ s = "ended"
      PROVE  \E x : Becomes(r, x)
  <2> DEFINE x == [run[r] EXCEPT !.stage = s]
  <2>1. /\ x \in RunRecord /\ x.stage = s /\ x.at = run[r].at
        /\ x.outputs = run[r].outputs /\ x.failed = run[r].failed
    BY <1>1 DEF RunRecord, Stage
  <2>2. RunOK(x)
    BY <1>1, <1>2, <2>1 DEF RunOK, AtNode
  <2> QED
    BY <1>2, <2>1, <2>2 DEF Becomes
<1>3. CASE Retry(r)
  <2> DEFINE x == [run[r] EXCEPT !.attempt = run[r].attempt + 1]
  <2>1. /\ x \in RunRecord /\ x.stage = run[r].stage /\ x.at = run[r].at
        /\ x.outputs = run[r].outputs /\ x.failed = run[r].failed
    BY <1>1, <1>3, PipelineAssumption DEF RunRecord, Retry
  <2>2. RunOK(x)
    BY <1>1, <2>1 DEF RunOK
  <2> QED
    BY <1>3, <2>1, <2>2 DEF Becomes, Retry
<1>4. CASE Save(r)
  <2> DEFINE x == NextNode(r)
             k == run[r].at
  <2>1. /\ k \in 1..Len(ordered) /\ Compiled
        /\ run[r].failed \cap spec.stop = {}
        /\ run[r].outputs \cup run[r].failed = Before(k + 1)
        /\ \A m \in run[r].outputs : spec.deps[m] \subseteq run[r].outputs
        /\ run[r].outputs \cap run[r].failed = {}
    BY <1>1, <1>4 DEF RunOK, AtNode, Save
  <2>2. RunOK(x)
    BY <2>1, NextNodeType, Onward
  <2> QED
    BY <1>4, <2>2, NextNodeType DEF Becomes, Save
<1> QED
  BY <1>2, <1>3, <1>4 DEF DeleteExpired, End, Break, Goes

RunStep(r) == Step(r) \/ Break(r)

LEMMA StepBecomes ==
    ASSUME TypeOK, CompileInv, RunInv, NEW r \in Run, RunStep(r)
    PROVE  \E x : Becomes(r, x)
<1>1. run[r].at \in Nat
  BY DEF TypeOK
<1>2. CASE Skip(r) \/ BlockPrivileged(r)
  BY <1>2, GiveUpOK DEF Skip, BlockPrivileged, HasNode
<1>3. CASE ActionFails(r)
  <2>1. run[r].at <= Len(ordered)
    BY <1>1, <1>3 DEF RunInv, RunOK, AtNode, ActionFails, TypeOK
  <2> QED
    BY <1>3, <2>1, GiveUpOK DEF ActionFails
<1> QED
  BY <1>2, <1>3, StartOK, LookOK, SucceedOK, StayOK DEF RunStep, Step

LEMMA StepFrame ==
    ASSUME NEW r \in Run, RunStep(r)
    PROVE  Keep
BY DEF RunStep, Step, Break, Start, Skip, BlockPrivileged, Look, DeleteExpired,
       Succeed, Retry, ActionFails, Save, End

(* One run moves, the pipeline and the other runs stay as they are.        *)
LEMMA RunsKept ==
    ASSUME TypeOK, CompileInv, RunInv, NEW r \in Run, RunStep(r)
    PROVE  CompileInv' /\ RunInv' /\ run' \in [Run -> RunRecord]
<1> PICK x : Becomes(r, x)
  BY StepBecomes
<1>1. UNCHANGED <<spec, indegree, queue, ordered>>
  BY StepFrame DEF Keep, compileVars
<1>2. run' = [run EXCEPT ![r] = x] /\ x \in RunRecord /\ RunOK(x)
  BY DEF Becomes
<1>3. run \in [Run -> RunRecord]
  BY DEF TypeOK, RunRecord
<1>4. \A q \in Run : RunOK(run'[q])
  BY <1>2, <1>3 DEF RunInv
<1>5. RunInv'
  BY <1>1, <1>4 DEF RunInv, RunOK, Before, Compiled
<1>6. CompileInv'
  <2>1. Listed' = Listed /\ \A k : Before(k)' = Before(k)
    BY <1>1 DEF Listed, Before
  <2>2. \A S : Deadlocked(S)' <=> Deadlocked(S)
    BY <1>1 DEF Deadlocked
  <2> QED
    BY <1>1, <2>1, <2>2 DEF CompileInv
<1> QED
  BY <1>2, <1>3, <1>5, <1>6

LEMMA StepTypes ==
    ASSUME TypeOK, CompileInv, RunInv, NEW r \in Run, RunStep(r)
    PROVE  TypeOK'
<1>1. UNCHANGED <<spec, indegree, queue, ordered>>
  BY StepFrame DEF Keep, compileVars
<1>2. run' \in [Run -> RunRecord]
  BY RunsKept
<1>3. store' \in [Node -> {"none", "live", "expired"}]
  BY DEF TypeOK, RunStep, Step, Break, Start, Skip, BlockPrivileged, Look,
         DeleteExpired, Succeed, Retry, ActionFails, Save, End
<1>4. done' \in [Node -> Nat]
  BY DEF TypeOK, RunStep, Step, Break, Start, Skip, BlockPrivileged, Look,
         DeleteExpired, Succeed, Retry, ActionFails, Save, End
<1>5. causes' \in [Node -> Nat]
  <2>1. causes' = causes \/ Counted(Here(r))
    BY DEF RunStep, Step, Break, Start, Skip, BlockPrivileged, Look,
           DeleteExpired, Succeed, Retry, ActionFails, Save, End
  <2>2. causes \in [Node -> Nat]
    BY DEF TypeOK
  <2>3. CASE Counted(Here(r))
    <3>1. causes' = [n \in Node |-> IF n = Here(r) THEN causes[n] + 1 ELSE causes[n]]
      BY <2>2, <2>3 DEF Counted
    <3> QED
      BY <2>2, <3>1
  <2> QED
    BY <2>1, <2>2, <2>3
<1>6. trace' \in [Run -> Result]
  BY DEF TypeOK, RunStep, Step, Break, Start, Skip, BlockPrivileged, Look,
         DeleteExpired, Succeed, Retry, ActionFails, Save, End, Outcome, Result
<1>7. faults' \in 0..MaxFaults
  BY PipelineAssumption DEF TypeOK, RunStep, Step, Break, Start, Skip, BlockPrivileged,
         Look, DeleteExpired, Succeed, Retry, ActionFails, Save, End, Fault
<1> QED
  BY <1>1, <1>2, <1>3, <1>4, <1>5, <1>6, <1>7 DEF TypeOK, RunRecord

LEMMA StepTraces ==
    ASSUME TypeOK, CompileInv, RunInv, TraceInv, NEW r \in Run, RunStep(r)
    PROVE  TraceInv'
<1> PICK x : Becomes(r, x)
  BY StepBecomes
<1>1. run' = [run EXCEPT ![r] = x] /\ spec' = spec /\ run \in [Run -> RunRecord]
  BY StepFrame DEF Becomes, Keep, TypeOK, RunRecord
<1>2. run[r].stage # "ended" /\ trace[r] = "none"
  BY DEF TraceInv, RunStep, Step, Break, Start, Skip, BlockPrivileged, Look,
         DeleteExpired, Succeed, Retry, ActionFails, Save, End, Inside,
         HasNode, Through
<1>3. CASE trace' = trace
  BY <1>1, <1>2, <1>3 DEF TraceInv, TraceTellsTruth
<1>4. CASE End(r)
  <2>1. /\ trace' = [trace EXCEPT ![r] = Outcome(r)]
        /\ run' = [run EXCEPT ![r].stage = "ended"]
    BY <1>4 DEF End, Goes
  <2>2. /\ run'[r].stage = "ended" /\ run'[r].outputs = run[r].outputs
        /\ run'[r].failed = run[r].failed /\ trace'[r] = Outcome(r)
        /\ \A q \in Run \ {r} : run'[q] = run[q] /\ trace'[q] = trace[q]
    BY <1>1, <2>1 DEF TypeOK, RunRecord
  <2>3. RunOK(run[r]) /\ run[r] \in RunRecord /\ Len(ordered) \in Nat
    BY <1>1 DEF RunInv, TypeOK
  <2>4. CASE run[r].stage = "ending"
    BY <1>1, <2>2, <2>3, <2>4 DEF TraceInv, TraceTellsTruth, Outcome, RunOK
  <2>5. CASE Through(r)
    <3>1. run[r].at = Len(ordered) + 1 /\ Compiled
      BY <2>3, <2>5 DEF Through, RunOK, RunRecord, AtNode
    <3>2. Before(run[r].at) = Listed
      BY <2>3, <3>1 DEF Before, Listed
    <3>3. Listed = Node
      BY <3>1, AllListed DEF Compiled
    <3>4. /\ run[r].outputs \cup run[r].failed = Node
          /\ run[r].failed \cap spec.stop = {}
      BY <2>3, <2>5, <3>2, <3>3 DEF Through, RunOK, AtNode
    <3>5. trace'[r] = IF run[r].failed = {} THEN "completed"
                                            ELSE "completed_with_errors"
      BY <2>2, <2>5 DEF Outcome, Through
    <3>6. /\ trace'[r] \in {"completed", "completed_with_errors"}
          /\ trace'[r] = "completed" <=> run[r].failed = {}
      BY <3>5
    <3>7. \A q \in Run \ {r} : run'[q] = run[q] /\ trace'[q] = trace[q]
      BY <2>2
    <3>8. TraceTellsTruth'
      <4> SUFFICES ASSUME NEW q \in Run
                   PROVE  /\ trace'[q] = "completed" => run'[q].outputs = Node
                          /\ trace'[q] = "completed_with_errors" =>
                               /\ run'[q].outputs \cup run'[q].failed = Node
                               /\ run'[q].failed # {}
                               /\ run'[q].failed \cap spec.stop = {}
                          /\ trace'[q] = "failed" =>
                               run'[q].failed \cap spec.stop # {}
        BY <1>1 DEF TraceTellsTruth
      <4>1. CASE q = r
        BY <2>2, <3>4, <3>6, <4>1
      <4>2. CASE q # r
        BY <3>7, <4>2 DEF TraceInv, TraceTellsTruth
      <4> QED
        BY <4>1, <4>2
    <3> QED
      BY <2>2, <3>7, <3>8 DEF TraceInv
  <2> QED
    BY <1>4, <2>4, <2>5 DEF End
<1>5. CASE ~End(r)
  <2>1. \/ Start(r) \/ Skip(r) \/ BlockPrivileged(r) \/ Look(r)
        \/ DeleteExpired(r) \/ Succeed(r) \/ Retry(r) \/ ActionFails(r)
        \/ Save(r) \/ Break(r)
    BY <1>5 DEF RunStep, Step
  <2>2. trace' = trace
    BY <2>1 DEF Start, Skip, BlockPrivileged, Look, DeleteExpired, Succeed,
                Retry, ActionFails, Save, Break
  <2> QED
    BY <1>3, <2>2
<1> QED
  BY <1>4, <1>5

----------------------------------------------------------------------------
(* The account of a node.                                                  *)

LEMMA Numbers ==
    ASSUME TypeOK, NEW n \in spec.once
    PROVE  /\ n \in Node /\ done[n] \in Nat /\ causes[n] \in Nat
           /\ IsFiniteSet(Busy(n)) /\ Cardinality(Busy(n)) \in Nat
<1>1. n \in Node /\ done[n] \in Nat /\ causes[n] \in Nat
  BY DEF TypeOK, PipelineSpec
<1>2. IsFiniteSet(Busy(n))
  <2>1. Busy(n) \in SUBSET Run
    BY DEF Busy
  <2> QED
    BY <2>1, FS_Subset, PipelineAssumption
<1> QED
  BY <1>1, <1>2, FS_CardinalityType

(* A run that comes to a node.                                             *)
LEMMA LookCauses ==
    ASSUME TypeOK, CauseInv, NEW r \in Run, Look(r)
    PROVE  CauseInv'
<1>1. /\ UNCHANGED <<spec, ordered, store, done>>
      /\ run \in [Run -> RunRecord] /\ run[r].stage = "next"
  BY DEF Look, Keep, compileVars, HasNode, TypeOK, RunRecord
<1> SUFFICES ASSUME NEW n \in spec.once
             PROVE  Account(n)'
  BY <1>1 DEF CauseInv
<1>2. Account(n)
  BY DEF CauseInv
<1>3. CASE Here(r) \in spec.once /\ store[Here(r)] = "live"
  <2>1. causes' = causes /\ run' = [run EXCEPT ![r] = [NextNode(r) EXCEPT !.outputs = run[r].outputs \cup {Here(r)}]]
    BY <1>3, NextNodeType DEF Look
  <2>2. run'[r].stage = "next" /\ \A q \in Run \ {r} : run'[q] = run[q]
    BY <1>1, <2>1, NextNodeType DEF RunRecord
  <2>3. Busy(n)' = Busy(n) /\ There(n)' = There(n)
    BY <1>1, <2>2 DEF Busy, There, Here, AtNode
  <2> QED
    BY <1>1, <1>2, <2>1, <2>3 DEF Account
<1>4. CASE ~(Here(r) \in spec.once /\ store[Here(r)] = "live")
  <2>1. PICK s \in {"deleting", "acting"} : run' = [run EXCEPT ![r].stage = s]
    BY <1>4 DEF Look, Goes
  <2>2. /\ run'[r].stage = s /\ run'[r].at = run[r].at
        /\ \A q \in Run \ {r} : run'[q] = run[q]
    BY <1>1, <2>1 DEF RunRecord
  <2>3. Here(r)' = Here(r) /\ \A q \in Run : Here(q)' = Here(q)
    BY <1>1, <2>2 DEF Here
  <2>4. IF Overlapped(r, Here(r)) THEN Counted(Here(r)) ELSE causes' = causes
    BY <1>4 DEF Look
  <2>5. CASE n = Here(r)
    <3>1. Busy(n)' = Busy(n) \cup {r} /\ r \notin Busy(n) /\ r \in There(n)'
      BY <1>1, <2>2, <2>3, <2>5 DEF Busy, There, AtNode
    <3>2. Cardinality(Busy(n)') = Cardinality(Busy(n)) + 1
      BY <3>1, Numbers, FS_AddElement
    <3>3. store[n] # "live"
      BY <1>4, <2>5
    <3>4. CASE Overlapped(r, n)
      <4>1. causes'[n] = causes[n] + 1
        BY <2>4, <2>5, <3>4, Numbers DEF Counted, TypeOK
      <4> QED
        BY <1>1, <1>2, <3>1, <3>2, <4>1, Numbers DEF Account
    <3>5. CASE ~Overlapped(r, n)
      <4>1. There(n) = {}
        BY <1>1, <3>5 DEF There, Overlapped, AtNode
      <4>2. causes'[n] = causes[n]
        BY <2>4, <2>5, <3>5
      <4> QED
        BY <1>1, <1>2, <3>1, <3>2, <3>3, <4>1, <4>2, Numbers DEF Account
    <3> QED
      BY <3>4, <3>5
  <2>6. CASE n # Here(r)
    <3>1. Busy(n)' = Busy(n) /\ There(n)' = There(n)
      BY <1>1, <2>2, <2>3, <2>6 DEF Busy, There, AtNode
    <3>2. causes'[n] = causes[n]
      BY <2>4, <2>6, Numbers DEF Counted, TypeOK
    <3> QED
      BY <1>1, <1>2, <3>1, <3>2 DEF Account
  <2> QED
    BY <2>5, <2>6
<1> QED
  BY <1>3, <1>4

(* What a step of one run changes for a node that it is not at, and for    *)
(* the node whose execution it ends.                                       *)
LEMMA Elsewhere ==
    ASSUME TypeOK, NEW r \in Run, NEW x, NEW n, Becomes(r, x), ordered' = ordered,
           run[r].stage \in AtNode => Here(r) # n,
           x.stage \in AtNode => run[r].stage \in AtNode /\ x.at = run[r].at
    PROVE  Busy(n)' = Busy(n) /\ There(n)' = There(n)
<1>1. run'[r] = x /\ \A q \in Run \ {r} : run'[q] = run[q]
  BY DEF Becomes, TypeOK
<1> QED
  BY <1>1 DEF Busy, There, Here, AtNode

LEMMA Leaving ==
    ASSUME TypeOK, NEW r \in Run, NEW x, NEW n \in spec.once, Becomes(r, x),
           ordered' = ordered, Here(r) = n,
           run[r].stage \in {"deleting", "acting"},
           x.stage \notin {"deleting", "acting"}
    PROVE  /\ Cardinality(Busy(n)') = Cardinality(Busy(n)) - 1
           /\ r \in There(n)
           /\ x.stage = "saving" /\ x.at = run[r].at => r \in There(n)'
<1>1. run'[r] = x /\ \A q \in Run \ {r} : run'[q] = run[q]
  BY DEF Becomes, TypeOK
<1>2. Busy(n)' = Busy(n) \ {r} /\ r \in Busy(n)
  BY <1>1 DEF Busy, Here
<1>3. Cardinality(Busy(n)') = Cardinality(Busy(n)) - 1
  BY <1>2, Numbers, FS_RemoveElement
<1> QED
  BY <1>1, <1>3 DEF There, Here, AtNode

LEMMA QuietCauses ==
    ASSUME TypeOK, CompileInv, RunInv, CauseInv, NEW r \in Run,
           \/ Start(r) \/ Skip(r) \/ BlockPrivileged(r) \/ Retry(r) \/ End(r)
    PROVE  CauseInv'
<1>1. UNCHANGED <<spec, ordered, store, done, causes>>
  BY DEF Start, Skip, BlockPrivileged, Retry, End, Keep, compileVars
<1>2. ASSUME NEW n
      PROVE  Busy(n)' = Busy(n) /\ There(n)' = There(n)
  <2>1. CASE Retry(r)
    <3>1. /\ run'[r].stage = run[r].stage /\ run'[r].at = run[r].at
          /\ \A q \in Run \ {r} : run'[q] = run[q]
      BY <2>1 DEF Retry, TypeOK
    <3> QED
      BY <1>1, <3>1 DEF Busy, There, Here, AtNode
  <2>2. CASE Start(r) \/ End(r)
    <3>1. PICK x : Becomes(r, x) /\ x.stage \in {"next", "ended"}
      <4>1. PICK x : Becomes(r, x)
        BY <2>2, StepBecomes DEF RunStep, Step
      <4>2. run'[r] = x /\ run'[r].stage \in {"next", "ended"}
        BY <2>2, <4>1 DEF Becomes, Start, End, Goes, TypeOK
      <4> QED
        BY <4>1, <4>2
    <3>2. run[r].stage \notin AtNode
      BY <2>2 DEF Start, End, Through, AtNode
    <3> QED
      BY <1>1, <3>1, <3>2, Elsewhere DEF AtNode
  <2>3. CASE Skip(r) \/ BlockPrivileged(r)
    <3>1. PICK x : Becomes(r, x) /\ x.stage \in {"next", "ending"}
      BY <2>3, GiveUpOK DEF Skip, BlockPrivileged, HasNode
    <3>2. run[r].stage \notin AtNode
      BY <2>3 DEF Skip, BlockPrivileged, HasNode, AtNode
    <3> QED
      BY <1>1, <3>1, <3>2, Elsewhere DEF AtNode
  <2> QED
    BY <2>1, <2>2, <2>3
<1> QED
  BY <1>1, <1>2 DEF CauseInv, Account

LEMMA SucceedCauses ==
    ASSUME TypeOK, CompileInv, RunInv, CauseInv, NEW r \in Run, Succeed(r)
    PROVE  CauseInv'
<1> PICK x : Becomes(r, x)
  BY SucceedOK
<1>1. /\ UNCHANGED <<spec, ordered, store, causes>>
      /\ done' = [done EXCEPT ![Here(r)] = done[Here(r)] + 1]
      /\ run[r].stage = "acting" /\ run[r] \in RunRecord
  BY DEF Succeed, Keep, compileVars, TypeOK, RunRecord
<1>2. IF Here(r) \in spec.once THEN x.stage = "saving" /\ x.at = run[r].at
                              ELSE x.stage = "next"
  <2>1. x = run'[r]
    BY DEF Becomes, TypeOK
  <2>2. CASE Here(r) \in spec.once
    <3>1. run'[r].stage = "saving" /\ run'[r].at = run[r].at
      BY <1>1, <2>2 DEF Succeed, TypeOK, RunRecord
    <3> QED
      BY <2>1, <2>2, <3>1
  <2>3. CASE Here(r) \notin spec.once
    <3>1. run'[r].stage = "next"
      BY <2>3, NextNodeType DEF Succeed, TypeOK, RunRecord
    <3> QED
      BY <2>1, <2>3, <3>1
  <2> QED
    BY <2>2, <2>3
<1> SUFFICES ASSUME NEW n \in spec.once
             PROVE  Account(n)'
  BY <1>1 DEF CauseInv
<1>3. Account(n)
  BY DEF CauseInv
<1>4. CASE n = Here(r)
  <2>1. /\ Cardinality(Busy(n)') = Cardinality(Busy(n)) - 1
        /\ r \in There(n) /\ r \in There(n)'
    BY <1>1, <1>2, <1>4, Leaving
  <2>2. done'[n] = done[n] + 1
    BY <1>1, <1>4, Numbers DEF TypeOK
  <2> QED
    BY <1>1, <1>3, <2>1, <2>2, Numbers DEF Account
<1>5. CASE n # Here(r)
  <2>1. Busy(n)' = Busy(n) /\ There(n)' = There(n)
    BY <1>1, <1>2, <1>5, Elsewhere DEF AtNode
  <2>2. done'[n] = done[n]
    BY <1>1, <1>5, Numbers DEF TypeOK
  <2> QED
    BY <1>1, <1>3, <2>1, <2>2 DEF Account
<1> QED
  BY <1>4, <1>5

(* An action that failed, or that was cut short.                           *)
LEMMA EndCauses ==
    ASSUME TypeOK, CompileInv, RunInv, CauseInv, NEW r \in Run,
           ActionFails(r) \/ Break(r)
    PROVE  CauseInv'
<1>1. UNCHANGED <<spec, ordered, store, done>> /\ run[r] \in RunRecord
  BY DEF ActionFails, Break, Keep, compileVars, TypeOK, RunRecord
<1>2. PICK x : Becomes(r, x) /\ x.stage \in {"next", "ending", "ended"}
  <2>1. CASE ActionFails(r)
    <3>1. run[r].at <= Len(ordered)
      BY <1>1, <2>1 DEF RunInv, RunOK, AtNode, ActionFails, RunRecord, TypeOK
    <3> QED
      BY <2>1, <3>1, GiveUpOK DEF ActionFails
  <2>2. CASE Break(r)
    <3>1. PICK x : Becomes(r, x)
      BY <2>2, StayOK
    <3>2. x.stage = "ended"
      BY <2>2, <3>1 DEF Becomes, Break, Goes, TypeOK
    <3> QED
      BY <3>1, <3>2
  <2> QED
    BY <2>1, <2>2
<1>3. IF run[r].stage = "saving" THEN Counted(Here(r)) ELSE causes' = causes
  BY DEF ActionFails, Break
<1> SUFFICES ASSUME NEW n \in spec.once
             PROVE  Account(n)'
  BY <1>1 DEF CauseInv
<1>4. Account(n)
  BY DEF CauseInv
<1>5. CASE n = Here(r) /\ run[r].stage \in {"deleting", "acting"}
  <2>1. Cardinality(Busy(n)') = Cardinality(Busy(n)) - 1
    BY <1>1, <1>2, <1>5, Leaving
  <2>2. causes' = causes
    BY <1>3, <1>5
  <2>3. IsFiniteSet(Busy(n)') /\ Cardinality(Busy(n)') \in Nat
    <3>1. Busy(n)' \in SUBSET Run
      BY DEF Busy
    <3> QED
      BY <3>1, FS_Subset, FS_CardinalityType, PipelineAssumption
  <2> QED
    BY <1>1, <1>4, <2>1, <2>2, <2>3, Numbers DEF Account
<1>6. CASE n = Here(r) /\ run[r].stage = "saving"
  <2>1. causes'[n] = causes[n] + 1
    BY <1>3, <1>6, Numbers DEF Counted, TypeOK
  <2>2. Busy(n)' = Busy(n)
    <3>1. run'[r] = x /\ \A q \in Run \ {r} : run'[q] = run[q]
      BY <1>2 DEF Becomes, TypeOK
    <3> QED
      BY <1>1, <1>2, <1>6, <3>1 DEF Busy, Here
  <2> QED
    BY <1>1, <1>4, <2>1, <2>2, Numbers DEF Account
<1>7. CASE n # Here(r) \/ run[r].stage \notin AtNode
  <2>1. Busy(n)' = Busy(n) /\ There(n)' = There(n)
    BY <1>1, <1>2, <1>7, Elsewhere DEF AtNode
  <2>2. causes'[n] = causes[n]
    BY <1>3, <1>7, Numbers DEF Counted, TypeOK, AtNode
  <2> QED
    BY <1>1, <1>4, <2>1, <2>2 DEF Account
<1> QED
  BY <1>5, <1>6, <1>7 DEF AtNode

(* The record of a node is written, or the expired one deleted.            *)
LEMMA StoreCauses ==
    ASSUME TypeOK, CompileInv, RunInv, CauseInv, NEW r \in Run,
           DeleteExpired(r) \/ Save(r)
    PROVE  CauseInv'
<1> PICK x : Becomes(r, x)
  BY StayOK
<1>1. /\ UNCHANGED <<spec, ordered, done, causes>> /\ run[r] \in RunRecord
      /\ run'[r] = x /\ \A q \in Run \ {r} : run'[q] = run[q]
      /\ \A n \in Node : n # Here(r) => store'[n] = store[n]
  BY DEF DeleteExpired, Save, Keep, compileVars, TypeOK, RunRecord, Becomes
<1> SUFFICES ASSUME NEW n \in spec.once
             PROVE  Account(n)'
  BY <1>1 DEF CauseInv
<1>2. Account(n)
  BY DEF CauseInv
<1>3. CASE DeleteExpired(r)
  <2>1. run[r].stage = "deleting" /\ x.stage = "acting" /\ x.at = run[r].at
    BY <1>1, <1>3 DEF DeleteExpired, Goes, TypeOK, RunRecord
  <2>2. Busy(n)' = Busy(n) /\ There(n)' = There(n)
    BY <1>1, <2>1 DEF Busy, There, Here, AtNode
  <2>3. n = Here(r) => r \in There(n)
    BY <2>1 DEF There, AtNode
  <2> QED
    BY <1>1, <1>2, <2>2, <2>3, Numbers DEF Account
<1>4. CASE Save(r)
  <2>1. run[r].stage = "saving" /\ x.stage = "next"
    BY <1>1, <1>4, NextNodeType DEF Save, TypeOK
  <2>2. Busy(n)' = Busy(n)
    BY <1>1, <2>1 DEF Busy, Here
  <2>3. CASE n = Here(r)
    <3>1. store'[n] = "live"
      BY <1>4, <2>3, Numbers DEF Save, TypeOK
    <3> QED
      BY <1>1, <1>2, <2>2, <3>1, Numbers DEF Account
  <2>4. CASE n # Here(r)
    <3>1. There(n)' = There(n)
      BY <2>1, <2>4, <1>1 DEF There, Here, AtNode
    <3> QED
      BY <1>1, <1>2, <2>2, <2>4, <3>1, Numbers DEF Account
  <2> QED
    BY <2>3, <2>4
<1> QED
  BY <1>3, <1>4

----------------------------------------------------------------------------
(* The invariant.                                                          *)

LEMMA StepInv ==
    ASSUME IInv, NEW r \in Run, RunStep(r)
    PROVE  IInv'
<1> USE DEF IInv
<1>1. TypeOK' /\ CompileInv' /\ RunInv' /\ TraceInv'
  BY RunsKept, StepTypes, StepTraces
<1>2. CauseInv'
  BY LookCauses, QuietCauses, SucceedCauses, EndCauses, StoreCauses
     DEF RunStep, Step
<1> QED
  BY <1>1, <1>2

LEMMA PopInv == IInv /\ Pop => IInv'
<1> SUFFICES ASSUME IInv, Pop
             PROVE  IInv'
  OBVIOUS
<1> USE DEF IInv
<1>1. UNCHANGED <<spec, store, run, trace, done, causes, faults>> /\ queue # {}
  BY DEF Pop
<1>2. TypeOK' /\ CompileInv'
  BY <1>1, PopCompiles DEF TypeOK
<1>3. \A r \in Run : run[r].stage \in {"new", "ended"}
  BY <1>1 DEF RunInv, RunOK, Compiled
<1>4. RunInv'
  BY <1>1, <1>3 DEF RunInv, RunOK, AtNode
<1>5. TraceInv'
  BY <1>1 DEF TraceInv, TraceTellsTruth
<1>6. CauseInv'
  <2>1. \A n : Busy(n) = {} /\ There(n) = {} /\ Busy(n)' = {} /\ There(n)' = {}
    BY <1>1, <1>3 DEF Busy, There, AtNode
  <2> QED
    BY <1>1, <2>1 DEF CauseInv, Account
<1> QED
  BY <1>2, <1>4, <1>5, <1>6

LEMMA ExpireInv == IInv /\ (\E m \in Node : Expire(m)) => IInv'
<1> SUFFICES ASSUME IInv, NEW m \in Node, Expire(m)
             PROVE  IInv'
  OBVIOUS
<1> USE DEF IInv
<1>1. /\ UNCHANGED <<spec, indegree, queue, ordered, run, trace, done>>
      /\ store[m] = "live" /\ store' = [store EXCEPT ![m] = "expired"]
      /\ causes' = [causes EXCEPT ![m] = causes[m] + 1]
      /\ faults < MaxFaults /\ faults' = faults + 1
  BY DEF Expire, Fault, Keep, compileVars, Counted
<1>2. TypeOK'
  BY <1>1, PipelineAssumption DEF TypeOK
<1>3. CompileInv'
  <2>1. Listed' = Listed /\ \A k : Before(k)' = Before(k)
    BY <1>1 DEF Listed, Before
  <2>2. \A S : Deadlocked(S)' <=> Deadlocked(S)
    BY <1>1 DEF Deadlocked
  <2> QED
    BY <1>1, <2>1, <2>2 DEF CompileInv
<1>4. RunInv' /\ TraceInv'
  BY <1>1 DEF RunInv, RunOK, Before, Compiled, TraceInv, TraceTellsTruth
<1>5. ASSUME NEW n \in spec.once
      PROVE  Account(n)'
  <2>1. Account(n)
    BY DEF CauseInv
  <2>2. Busy(n)' = Busy(n) /\ There(n)' = There(n)
    BY <1>1 DEF Busy, There, Here
  <2>3. CASE n = m
    <3>1. causes'[n] = causes[n] + 1
      BY <1>1, <2>3 DEF TypeOK
    <3> QED
      BY <1>1, <2>1, <2>2, <3>1, Numbers DEF Account
  <2>4. CASE n # m
    <3>1. causes'[n] = causes[n] /\ store'[n] = store[n]
      BY <1>1, <2>4, Numbers DEF TypeOK
    <3> QED
      BY <1>1, <2>1, <2>2, <3>1 DEF Account
  <2> QED
    BY <2>3, <2>4
<1>6. CauseInv'
  BY <1>1, <1>5 DEF CauseInv
<1> QED
  BY <1>2, <1>3, <1>4, <1>6

LEMMA StutterInv == IInv /\ UNCHANGED vars => IInv'
<1> SUFFICES ASSUME IInv, UNCHANGED vars
             PROVE  IInv'
  OBVIOUS
<1> USE DEF IInv, vars, compileVars
<1>1. TypeOK'
  BY DEF TypeOK
<1>2. CompileInv'
  <2>1. Listed' = Listed /\ \A k : Before(k)' = Before(k)
    BY DEF Listed, Before
  <2>2. \A S : Deadlocked(S)' <=> Deadlocked(S)
    BY DEF Deadlocked
  <2> QED
    BY <2>1, <2>2 DEF CompileInv
<1>3. RunInv' /\ TraceInv'
  BY DEF RunInv, RunOK, Before, Compiled, TraceInv, TraceTellsTruth
<1>4. CauseInv'
  <2>1. \A n : Busy(n)' = Busy(n) /\ There(n)' = There(n)
    BY DEF Busy, There, Here
  <2> QED
    BY <2>1 DEF CauseInv, Account
<1> QED
  BY <1>1, <1>2, <1>3, <1>4

(* IInv is inductive: every pipeline, node and run is as the algorithms    *)
(* leave it after any number of steps (compile_pipeline,                   *)
(* execute_pipeline_run).                                                  *)
THEOREM Inductive == Spec => []IInv
<1>1. IInv /\ [Next]_vars => IInv'
  BY PopInv, ExpireInv, StutterInv, StepInv DEF Next, RunStep
<1> QED
  BY <1>1, InitInv, PTL DEF Spec

(* Every variable keeps its type.                                          *)
THEOREM TypeCorrect == Spec => []TypeOK
BY Inductive, PTL DEF IInv

(* compile_pipeline refuses exactly the pipelines with a cycle, and lists  *)
(* every node of the others once and after all it depends on.              *)
THEOREM CompilerSound == Spec => []CompileSound
<1>1. IInv => CompileSound
  BY SoundCompiler DEF IInv
<1> QED
  BY <1>1, Inductive, PTL

(* execute_pipeline_run executes no node before all it depends on has an   *)
(* output, and nothing that depends on a node that failed.                 *)
THEOREM OrderKept == Spec => []RunsAfterDependencies
<1>1. IInv => RunsAfterDependencies
  BY DEF IInv, RunInv, RunOK, AtNode, Here, RunsAfterDependencies
<1> QED
  BY <1>1, Inductive, PTL

(* persist_pipeline_run keeps a true account of every run that ended.      *)
THEOREM TracesTrue == Spec => []TraceTellsTruth
BY Inductive, PTL DEF IInv, TraceInv

(* A node with an idempotency policy runs again only for a reason, however *)
(* many runs overlap (execute_pipeline_run).                               *)
THEOREM RepeatsCaused == Spec => []RepeatsHaveACause
<1>1. IInv => RepeatsHaveACause
  BY Numbers DEF IInv, CauseInv, Account, RepeatsHaveACause
<1> QED
  BY <1>1, Inductive, PTL
=============================================================================
