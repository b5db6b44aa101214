----------------------------- MODULE MCServices -----------------------------
(* Services of the process that share no state: the writers of the plan    *)
(* cache, the pipelines, the rollout of prompts and the commands of a      *)
(* companion device.  Each is explored by itself: service says which one a *)
(* behaviour is about, the others stay as they start.                      *)
EXTENDS Pipelines, PlanCacheWriter, PromptRollout, CompanionCommands

CONSTANTS n1, n2, n3

VARIABLE service

(* Every pipeline of three nodes, with cycles and without, that leaves no  *)
(* node to itself.                                                         *)
MCSpec0 ==
    {s \in [deps : [Node -> SUBSET Node], stop : {{n1}}, once : {{n1, n2}}] :
        \A n \in Node : s.deps[n] # {} \/ \E m \in Node : n \in s.deps[m]}

MCSession == Owner \X {"pass"}

allVars == <<service, vars, planVars, rolloutVars, commandVars>>

(* A pipeline that cannot be compiled takes no step. *)
NoPipeline ==
    InitWith([deps |-> [n \in Node |-> Node], stop |-> {}, once |-> {}])

ServicesInit ==
    /\ PlanInit /\ RolloutInit /\ CommandInit
    /\ \/ service \in {"plan cache", "rollout", "commands"} /\ NoPipeline
       \/ service = "pipelines" /\ Init

PlanCacheStep ==
    /\ service = "plan cache" /\ PlanNext
    /\ UNCHANGED <<service, vars, rolloutVars, commandVars>>

PipelineStep ==
    /\ service = "pipelines" /\ Next
    /\ UNCHANGED <<service, planVars, rolloutVars, commandVars>>

RolloutStep ==
    /\ service = "rollout" /\ RolloutNext
    /\ UNCHANGED <<service, vars, planVars, commandVars>>

CommandStep ==
    /\ service = "commands" /\ CommandNext
    /\ UNCHANGED <<service, vars, planVars, rolloutVars>>

ServicesSpec ==
    /\ ServicesInit
    /\ [][PlanCacheStep \/ PipelineStep \/ RolloutStep \/ CommandStep]_allVars
    /\ Fairness /\ RolloutFairness /\ CommandFairness

----------------------------------------------------------------------------
(* The types of the services. *)
ServicesTypeOK == PlanTypeOK /\ TypeOK /\ RolloutTypeOK /\ CommandTypeOK
=============================================================================
