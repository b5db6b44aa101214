------------------------------ MODULE Pipelines ------------------------------
(* A pipeline: its nodes are put in order (compile_pipeline,               *)
(* core/orchestration/pipeline.rs) and executed one after the other by     *)
(* each run of it (execute_pipeline_run,                                   *)
(* runtime/action_runtime/runtime/pipeline_runtime.rs).  Runs are turns of *)
(* the agent: several may be under way, and share the idempotency records. *)
(* Ids are taken to be trimmed, distinct and known to the pipeline.        *)
EXTENDS Integers, Sequences, FiniteSets

CONSTANTS
    Node,
    Spec0,        \* the specifications to compile
    Run,
    MaxAttempts,  \* retry.max_attempts, normalised
    MaxFaults

PipelineSpec == [deps : [Node -> SUBSET Node], stop : SUBSET Node, once : SUBSET Node]

ASSUME PipelineAssumption ==
    /\ IsFiniteSet(Node) /\ IsFiniteSet(Run)
    /\ Spec0 \subseteq PipelineSpec
    /\ MaxAttempts \in Nat \ {0} /\ MaxFaults \in Nat

VARIABLES
    spec,       \* deps[n]: depends_on; stop: nodes with on_error = Fail;
                \* once: nodes with an idempotency policy
    indegree,   \* locals of compile_pipeline; the queue is a set: the order
    queue,      \* in which it is emptied is left open
    ordered,
    store,      \* the idempotency record of each node
    run,        \* the runs, see TypeOK
    trace,      \* persist_pipeline_run: the outcome stored for each run
    done,       \* history: successful executions of each node
    causes,     \* history: what may have made a node run again
    faults

compileVars == <<indegree, queue, ordered>>
vars == <<spec, compileVars, store, run, trace, done, causes, faults>>

Stage == {"new", "next", "deleting", "acting", "saving", "ending", "ended"}
Result == {"none", "completed", "completed_with_errors", "failed"}

Fresh == [stage |-> "new", at |-> 1, attempt |-> 1,
          outputs |-> {}, failed |-> {}]

Inside(r) == run[r].stage \notin {"new", "ended"}
Here(r) == ordered[run[r].at]

TypeOK ==
    /\ spec \in PipelineSpec
    /\ indegree \in [Node -> Nat]
    /\ queue \subseteq Node /\ ordered \in Seq(Node)
    /\ store \in [Node -> {"none", "live", "expired"}]
    /\ run \in [Run -> [stage : Stage, at : Nat, attempt : 1..MaxAttempts,
                        outputs : SUBSET Node, failed : SUBSET Node]]
    /\ trace \in [Run -> Result]
    /\ done \in [Node -> Nat] /\ causes \in [Node -> Nat]
    /\ faults \in 0..MaxFaults

InitWith(s) ==
    /\ spec = s
    /\ indegree = [n \in Node |-> Cardinality(s.deps[n])]
    /\ queue = {n \in Node : s.deps[n] = {}}
    /\ ordered = <<>>
    /\ store = [n \in Node |-> "none"]
    /\ run = [r \in Run |-> Fresh]
    /\ trace = [r \in Run |-> "none"]
    /\ done = [n \in Node |-> 0] /\ causes = [n \in Node |-> 0]
    /\ faults = 0

Init == \E s \in Spec0 : InitWith(s)

----------------------------------------------------------------------------
(* compile_pipeline: Kahn's algorithm. *)

Least(n, h) ==
    IF h \in spec.deps[n] /\ indegree[n] > 0 THEN indegree[n] - 1 ELSE indegree[n]

(* Mutant: a node is put out with its first dependency. *)
PopEager ==
    \E h \in queue :
        /\ ordered' = Append(ordered, h)
        /\ indegree' = [n \in Node |-> Least(n, h)]
        /\ queue' = (queue \ {h}) \cup
              {n \in Node : h \in spec.deps[n] /\ indegree[n] = Cardinality(spec.deps[n])}
        /\ UNCHANGED <<spec, store, run, trace, done, causes, faults>>

Pop ==
    \E h \in queue :
        /\ ordered' = Append(ordered, h)
        /\ indegree' = [n \in Node |-> Least(n, h)]
        /\ queue' = (queue \ {h}) \cup
              {n \in Node : h \in spec.deps[n] /\ Least(n, h) = 0}
        /\ UNCHANGED <<spec, store, run, trace, done, causes, faults>>

(* What compile_pipeline returns once the queue is empty. *)
Compiled == queue = {} /\ Len(ordered) = Cardinality(Node)
Refused == queue = {} /\ Len(ordered) # Cardinality(Node)

----------------------------------------------------------------------------
(* A run. *)

Keep == UNCHANGED <<spec, compileVars>>
Goes(r, s) == run' = [run EXCEPT ![r].stage = s]

NextNode(r) == [run[r] EXCEPT !.stage = "next", !.at = run[r].at + 1, !.attempt = 1]

Start(r) ==
    /\ run[r].stage = "new" /\ Compiled
    /\ Goes(r, "next")
    /\ Keep /\ UNCHANGED <<store, trace, done, causes, faults>>

(* Mutant: a run that goes on does so with the node that failed. *)
GivesUpInPlace(r) ==
    LET n == Here(r)
    IN run' = [run EXCEPT ![r].stage = IF n \in spec.stop THEN "ending" ELSE "next",
                          ![r].failed = @ \cup {n}]

(* The node at hand has failed, or is counted as such: the run ends or     *)
(* goes on, as on_error says.                                              *)
GivesUp(r) ==
    LET n == Here(r)
        after == IF n \in spec.stop THEN [run[r] EXCEPT !.stage = "ending"]
                                    ELSE NextNode(r)
    IN run' = [run EXCEPT ![r] = [after EXCEPT !.failed = after.failed \cup {n}]]

HasNode(r) == run[r].stage = "next" /\ run[r].at <= Len(ordered)
Blocked(r) == spec.deps[Here(r)] \cap run[r].failed # {}

(* A node whose dependency failed, or whose action is privileged. *)
Skip(r) ==
    /\ HasNode(r) /\ Blocked(r)
    /\ GivesUp(r)
    /\ Keep /\ UNCHANGED <<store, trace, done, causes, faults>>

BlockPrivileged(r) ==
    /\ HasNode(r) /\ ~Blocked(r)
    /\ GivesUp(r)
    /\ Keep /\ UNCHANGED <<store, trace, done, causes, faults>>

(* Another run is between its look at the record of n and its own record. *)
Overlapped(r, n) ==
    \E q \in Run \ {r} : /\ run[q].stage \in {"deleting", "acting", "saving"}
                         /\ Here(q) = n

Counted(n) == causes' = [causes EXCEPT ![n] = @ + 1]

(* Mutant: a node runs though a dependency of it failed. *)
LookBlindly(r) ==
    /\ HasNode(r)
    /\ Goes(r, "acting")
    /\ Keep /\ UNCHANGED <<store, trace, done, causes, faults>>

(* The record is read; an output that is still good is taken over. *)
Look(r) ==
    LET n == Here(r)
    IN /\ HasNode(r) /\ ~Blocked(r)
       /\ IF n \in spec.once /\ store[n] = "live"
          THEN /\ run' = [run EXCEPT ![r] = [NextNode(r) EXCEPT !.outputs = @ \cup {n}]]
               /\ UNCHANGED causes
          ELSE /\ Goes(r, IF n \in spec.once /\ store[n] = "expired" THEN "deleting"
                                                                     ELSE "acting")
               /\ IF Overlapped(r, n) THEN Counted(n) ELSE UNCHANGED causes
       /\ Keep /\ UNCHANGED <<store, trace, done, faults>>

(* The record that was read is deleted by its key: whatever is there now. *)
DeleteExpired(r) ==
    /\ run[r].stage = "deleting"
    /\ store' = [store EXCEPT ![Here(r)] = "none"]
    /\ Goes(r, "acting")
    /\ Keep /\ UNCHANGED <<trace, done, causes, faults>>

(* execute_action_with_retry: an attempt that ends well, one that is made  *)
(* again, and one that is not.                                             *)
Succeed(r) ==
    LET n == Here(r)
        after == IF n \in spec.once THEN [run[r] EXCEPT !.stage = "saving"]
                                    ELSE NextNode(r)
    IN /\ run[r].stage = "acting"
       /\ done' = [done EXCEPT ![n] = @ + 1]
       /\ run' = [run EXCEPT ![r] = [after EXCEPT !.outputs = after.outputs \cup {n}]]
       /\ Keep /\ UNCHANGED <<store, trace, causes, faults>>

(* Mutant: one attempt more. *)
RetryOnceMore(r) ==
    /\ run[r].stage = "acting" /\ run[r].attempt <= MaxAttempts
    /\ run' = [run EXCEPT ![r].attempt = @ + 1]
    /\ Keep /\ UNCHANGED <<store, trace, done, causes, faults>>

Retry(r) ==
    /\ run[r].stage = "acting" /\ run[r].attempt < MaxAttempts
    /\ run' = [run EXCEPT ![r].attempt = @ + 1]
    /\ Keep /\ UNCHANGED <<store, trace, done, causes, faults>>

ActionFails(r) ==
    /\ run[r].stage = "acting"
    /\ GivesUp(r)
    /\ Keep /\ UNCHANGED <<store, trace, done, causes, faults>>

(* Mutant: the record is not written. *)
SaveNothing(r) ==
    /\ run[r].stage = "saving"
    /\ run' = [run EXCEPT ![r] = NextNode(r)]
    /\ Keep /\ UNCHANGED <<store, trace, done, causes, faults>>

Save(r) ==
    /\ run[r].stage = "saving"
    /\ store' = [store EXCEPT ![Here(r)] = "live"]
    /\ run' = [run EXCEPT ![r] = NextNode(r)]
    /\ Keep /\ UNCHANGED <<trace, done, causes, faults>>

(* Mutant: what failed before the last node is forgotten. *)
OutcomeOfLast(r) ==
    IF run[r].stage = "ending" THEN "failed"
    ELSE IF ordered[Len(ordered)] \in run[r].outputs THEN "completed" ELSE "completed_with_errors"

Outcome(r) ==
    IF run[r].stage = "ending" THEN "failed"
    ELSE IF run[r].failed = {} THEN "completed" ELSE "completed_with_errors"

Through(r) == run[r].stage = "next" /\ run[r].at > Len(ordered)

(* persist_pipeline_run, and the answer. *)
End(r) ==
    /\ run[r].stage = "ending" \/ Through(r)
    /\ trace' = [trace EXCEPT ![r] = Outcome(r)]
    /\ Goes(r, "ended")
    /\ Keep /\ UNCHANGED <<store, done, causes, faults>>

----------------------------------------------------------------------------
Fault == faults < MaxFaults /\ faults' = faults + 1

(* A statement fails, the turn of the agent is dropped or the process ends *)
(* for this run: an output that was not saved is forgotten.                *)
Break(r) ==
    /\ Fault
    /\ Inside(r)
    /\ Goes(r, "ended")
    /\ IF run[r].stage = "saving" THEN Counted(Here(r)) ELSE UNCHANGED causes
    /\ Keep /\ UNCHANGED <<store, trace, done>>

(* ttl_secs are over. *)
Expire(n) ==
    /\ Fault
    /\ store[n] = "live"
    /\ store' = [store EXCEPT ![n] = "expired"]
    /\ Counted(n)
    /\ Keep /\ UNCHANGED <<run, trace, done>>

Step(r) ==
    \/ Start(r) \/ Skip(r) \/ BlockPrivileged(r) \/ Look(r) \/ DeleteExpired(r)
    \/ Succeed(r) \/ Retry(r) \/ ActionFails(r) \/ Save(r) \/ End(r)

Next ==
    \/ Pop
    \/ \E r \in Run : Step(r) \/ Break(r)
    \/ \E n \in Node : Expire(n)

Spec == Init /\ [][Next]_vars

(* The runtime polls the compilation and every run; an action ends one way *)
(* or the other.                                                           *)
Fairness == WF_vars(Pop) /\ \A r \in Run : WF_vars(Step(r))

FairSpec == Spec /\ Fairness

----------------------------------------------------------------------------
(* Nodes that wait for each other: what a dependency cycle is, apart from  *)
(* any order of looking for it.                                            *)
Deadlocked(S) == S # {} /\ \A n \in S : spec.deps[n] \cap S # {}
HasCycle == \E S \in SUBSET Node : Deadlocked(S)

(* The compiler refuses exactly the pipelines with a cycle, and what it    *)
(* accepts lists every node once and after all it depends on               *)
(* (compile_pipeline).                                                     *)
CompileSound ==
    /\ Refused => HasCycle
    /\ Compiled =>
          /\ ~HasCycle
          /\ \A i, j \in 1..Len(ordered) :
                /\ ordered[i] = ordered[j] => i = j
                /\ ordered[i] \in spec.deps[ordered[j]] => i < j

(* No node is executed before all it depends on has an output, be it from  *)
(* an execution or from a record, and a failure is carried to everything   *)
(* that depends on it (execute_pipeline_run).                              *)
RunsAfterDependencies ==
    \A r \in Run :
        /\ \A n \in run[r].outputs : spec.deps[n] \subseteq run[r].outputs
        /\ run[r].outputs \cap run[r].failed = {}
        /\ run[r].stage \in {"deleting", "acting", "saving"} =>
              spec.deps[Here(r)] \subseteq run[r].outputs

(* The trace that is kept of a run says what became of its nodes           *)
(* (persist_pipeline_run).                                                 *)
TraceTellsTruth ==
    \A r \in Run :
        /\ trace[r] = "completed" => run[r].outputs = Node
        /\ trace[r] = "completed_with_errors" =>
              /\ run[r].outputs \cup run[r].failed = Node
              /\ run[r].failed # {} /\ run[r].failed \cap spec.stop = {}
        /\ trace[r] = "failed" => run[r].failed \cap spec.stop # {}

(* A node with an idempotency policy is executed with success once, and    *)
(* again only for a reason: its record ran out or was never stored, or two *)
(* runs were at the node together (the record is read, and written after   *)
(* the action, with nothing in between).                                   *)
RepeatsHaveACause ==
    \A n \in spec.once : done[n] <= 1 + causes[n]

(* Every run of a pipeline that was compiled comes to an end, whatever     *)
(* fails (execute_pipeline_run, execute_action_with_retry): the pipeline   *)
(* stays compiled, and no run starts again.                                *)
RunsEnd ==
    []<>(Compiled => \A r \in Run : run[r].stage = "ended")
=============================================================================
