----------------------------- MODULE SwarmGraph -----------------------------
(***************************************************************************)
(* What one orchestrator process promises of the LangGraph control loop    *)
(* built by build_graph (orchestrator/src/swarm_orchestrator/graph.py):    *)
(*                                                                         *)
(*    researcher -> coder -> evaluator -> (coder | END)                    *)
(*                                                                         *)
(* A run is one graph.invoke, made by the API or by the CLI.  The API      *)
(* handler is a coroutine that never awaits, so one process executes one   *)
(* run at a time.  What the nodes do is left open here: an evaluation      *)
(* approves or it does not, and any node may raise, which ends the run     *)
(* (api.py turns the exception into an HTTP 500).  SwarmPipeline says what *)
(* the nodes do and implements this module.                                *)
(***************************************************************************)
EXTENDS Integers

CONSTANTS Limits,    \* the values of max_iterations a caller may ask for, integers
          MaxRuns    \* bound: runs made by the process

VARIABLES phase,       \* the node about to run, "edge" at the conditional edge
          iteration,   \* SwarmState.iteration
          limit,       \* SwarmState.max_iterations
          approved,    \* SwarmState.approved
          runs         \* number of invocations so far

vars == <<phase, iteration, limit, approved, runs>>

Phases == {"idle", "researcher", "coder", "evaluator", "edge"}

Init == /\ phase = "idle"
        /\ iteration = 0
        /\ limit = 0
        /\ approved = FALSE
        /\ runs = 0

(* graph.invoke with a fresh state: no task_id, no iteration, not approved *)
Begin == /\ phase = "idle"
         /\ runs < MaxRuns
         /\ phase' = "researcher"
         /\ iteration' = 0
         /\ limit' \in Limits
         /\ approved' = FALSE
         /\ runs' = runs + 1

Research == /\ phase = "researcher"
            /\ phase' = "coder"
            /\ UNCHANGED <<iteration, limit, approved, runs>>

Code == /\ phase = "coder"
        /\ phase' = "evaluator"
        /\ iteration' = iteration + 1
        /\ UNCHANGED <<limit, approved, runs>>

Evaluate == /\ phase = "evaluator"
            /\ phase' = "edge"
            /\ approved' \in BOOLEAN
            /\ UNCHANGED <<iteration, limit, runs>>

(* should_reflect answers "coder" *)
Reflect == /\ phase = "edge"
           /\ ~approved
           /\ iteration < limit
           /\ phase' = "coder"
           /\ UNCHANGED <<iteration, limit, approved, runs>>

(* should_reflect answers "end" *)
Finish == /\ phase = "edge"
          /\ approved \/ iteration >= limit
          /\ phase' = "idle"
          /\ UNCHANGED <<iteration, limit, approved, runs>>

(* A node raises.  No node has written its part of the state yet, except   *)
(* for the effects outside the process.                                    *)
Abort == /\ phase \in {"researcher", "coder", "evaluator"}
         /\ phase' = "idle"
         /\ UNCHANGED <<iteration, limit, approved, runs>>

Step == Research \/ Code \/ Evaluate \/ Reflect \/ Finish

Next == Begin \/ Step \/ Abort

(* invoke runs its nodes to the end: a run that has begun is not paused    *)
Spec == Init /\ [][Next]_vars /\ WF_vars(Step)
-----------------------------------------------------------------------------
(* The loop is bounded: a run codes at most max_iterations strategies; one *)
(* is always coded, because should_reflect is asked only after the first   *)
(* evaluation (so 0 and negative limits behave as 1).                      *)
IterationBound == iteration <= (IF limit > 1 THEN limit ELSE 1)

(* An approved strategy is never sent back to the coder: once a run is     *)
(* approved, it stays approved and codes nothing more until the next run.  *)
ApprovalKept == approved /\ runs' = runs => approved' /\ iteration' = iteration

(* Every run ends, approved or not (the "no infinite loop" promise).       *)
RunEnds == phase # "idle" ~> phase = "idle"
=============================================================================
