-------------------------------- MODULE Sandbox --------------------------------
(***************************************************************************)
(* SandboxRunner.run_backtest (consumer/src/swarm_consumer/sandbox.py):    *)
(* the life of the scratch directory and of the two containers of each     *)
(* backtest, one that compiles the strategy and one that runs it.          *)
(*                                                                         *)
(* The Docker daemon is external: a container runs until its process exits *)
(* by itself, or never, or is killed; kill answers with an error when the  *)
(* container is not running.  Any call to the daemon may fail.  A consumer *)
(* executes one backtest at a time; it may die in the middle of one.       *)
(***************************************************************************)
EXTENDS Naturals, FiniteSets

CONSTANTS ExitCodes,    \* exit codes of containers that end by themselves
          Killed,       \* in place of an exit code: killed by kill()
          None,         \* no exit code, no result
          MaxRuns,      \* bound: backtests
          MaxFailures   \* bound: calls that the daemon fails, and crashes

ASSUME SandboxAssumption ==
    /\ {0, 139} \subseteq ExitCodes /\ ExitCodes \subseteq Nat
    /\ Killed \notin ExitCodes /\ None \notin ExitCodes \cup {Killed}
    /\ MaxRuns \in Nat /\ MaxFailures \in Nat

Runs  == 1..MaxRuns
Boxes == Runs \X {"compiler", "worker"}

VARIABLES pc,         \* where run_backtest stands, "idle" between two calls
          runs,       \* backtests begun
          dirs,       \* the scratch directories that exist
          box,        \* the state of each container
          code,       \* the exit code of each container that has exited
          result,     \* what the last call returned; None: it raised, or died
          disturbed,  \* history: runs hit by a daemon failure or a crash
          crashed     \* history: runs in which the consumer died

vars == <<pc, runs, dirs, box, code, result, disturbed, crashed>>

Results == [status: {"success", "runtime_error", "segfault", "compile_error", "timeout"},
            measured: BOOLEAN]
Result(s, m) == [status |-> s, measured |-> m]

Compiler == <<runs, "compiler">>
Worker   == <<runs, "worker">>

Goto(from, to) == pc = from /\ pc' = to
Become(b, s) == box' = [box EXCEPT ![b] = s]

(* The daemon fails a call of the current run                              *)
Disturb == /\ Cardinality(disturbed) < MaxFailures
           /\ disturbed' = disturbed \cup {runs}

Init ==
    /\ pc = "idle"
    /\ runs = 0
    /\ dirs = {}
    /\ box = [b \in Boxes |-> "none"]
    /\ code = [b \in Boxes |-> None]
    /\ result = None
    /\ disturbed = {}
    /\ crashed = {}
-----------------------------------------------------------------------------
(* mkdtemp, and the source written into it                                 *)
Begin ==
    /\ Goto("idle", "prepare")
    /\ runs < MaxRuns
    /\ runs' = runs + 1
    /\ dirs' = dirs \cup {runs + 1}
    /\ result' = None
    /\ UNCHANGED <<box, code, disturbed, crashed>>

DatasetMissing ==
    /\ Goto("prepare", "cleanup")
    /\ result' = Result("runtime_error", FALSE)
    /\ UNCHANGED <<runs, dirs, box, code, disturbed, crashed>>

(* containers.run without detach: start the compiler, then wait for it, as *)
(* long as it takes, and remove it                                         *)
StartCompiler ==
    /\ Goto("prepare", "compiling")
    /\ Become(Compiler, "running")
    /\ UNCHANGED <<runs, dirs, code, result, disturbed, crashed>>

Compiled ==
    /\ pc = "compiling"
    /\ box[Compiler] = "exited"
    /\ Become(Compiler, "removed")
    /\ IF code[Compiler] = 0
         THEN pc' = "start" /\ UNCHANGED result
         ELSE pc' = "cleanup" /\ result' = Result("compile_error", FALSE)
    /\ UNCHANGED <<runs, dirs, code, disturbed, crashed>>

(* except Exception: reported as a compile error                           *)
CompileRaises ==
    /\ pc \in {"prepare", "compiling"}
    /\ pc' = "cleanup"
    /\ Disturb
    /\ result' = Result("compile_error", FALSE)
    /\ UNCHANGED <<runs, dirs, box, code, crashed>>

(* containers.run with detach                                              *)
StartWorker ==
    /\ Goto("start", "waiting")
    /\ Become(Worker, "running")
    /\ UNCHANGED <<runs, dirs, code, result, disturbed, crashed>>

(* The container may have been created when its start fails                *)
StartRaises ==
    /\ Goto("start", "cleanup")
    /\ Disturb
    /\ Become(Worker, "created") \/ UNCHANGED box
    /\ UNCHANGED <<runs, dirs, code, result, crashed>>

(* container.wait(timeout=worker_timeout_sec)                              *)
WaitReturns ==
    /\ Goto("waiting", "collect")
    /\ box[Worker] = "exited"
    /\ UNCHANGED <<runs, dirs, box, code, result, disturbed, crashed>>

WaitExpiresUnkilled ==
    /\ Goto("waiting", "cleanup")
    /\ box[Worker] = "running"
    /\ result' = Result("timeout", FALSE)
    /\ UNCHANGED <<runs, dirs, box, code, disturbed, crashed>>

WaitExpiresOnExit ==
    /\ Goto("waiting", "kill")
    /\ box[Worker] = "exited"
    /\ UNCHANGED <<runs, dirs, box, code, result, disturbed, crashed>>

(* The worker has run for worker_timeout_sec                               *)
WaitExpires ==
    /\ Goto("waiting", "kill")
    /\ box[Worker] = "running"
    /\ UNCHANGED <<runs, dirs, box, code, result, disturbed, crashed>>

(* Every other exception of wait is treated as a timeout                   *)
WaitRaises ==
    /\ Goto("waiting", "kill")
    /\ Disturb
    /\ UNCHANGED <<runs, dirs, box, code, result, crashed>>

(* container.kill() and container.remove(force=True)                       *)
Kill ==
    /\ Goto("kill", "discard")
    /\ box[Worker] = "running"
    /\ Become(Worker, "exited")
    /\ code' = [code EXCEPT ![Worker] = Killed]
    /\ UNCHANGED <<runs, dirs, result, disturbed, crashed>>

(* The container exited after the wait and before the kill                 *)
KillConflicts ==
    /\ Goto("kill", "cleanup")
    /\ box[Worker] = "exited"
    /\ UNCHANGED <<runs, dirs, box, code, result, disturbed, crashed>>

DiscardWithoutReturn ==
    /\ Goto("discard", "collect")
    /\ Become(Worker, "removed")
    /\ result' = Result("timeout", FALSE)
    /\ UNCHANGED <<runs, dirs, code, disturbed, crashed>>

Discard ==
    /\ Goto("discard", "cleanup")
    /\ Become(Worker, "removed")
    /\ result' = Result("timeout", FALSE)
    /\ UNCHANGED <<runs, dirs, code, disturbed, crashed>>

CollectAsSuccess ==
    /\ Goto("collect", "cleanup")
    /\ Become(Worker, "removed")
    /\ \E m \in BOOLEAN : result' = Result("success", m)
    /\ UNCHANGED <<runs, dirs, code, disturbed, crashed>>

(* Logs, removal, and the verdict on the exit code; the last line of the   *)
(* output may be missing or may not parse                                  *)
Collect ==
    /\ Goto("collect", "cleanup")
    /\ Become(Worker, "removed")
    /\ \/ code[Worker] = 0 /\ \E m \in BOOLEAN : result' = Result("success", m)
       \/ code[Worker] = 139 /\ result' = Result("segfault", FALSE)
       \/ code[Worker] \notin {0, 139} /\ result' = Result("runtime_error", FALSE)
    /\ UNCHANGED <<runs, dirs, code, disturbed, crashed>>

(* kill, remove or logs raise for a reason of the daemon's                 *)
CallRaises ==
    /\ pc \in {"kill", "discard", "collect"}
    /\ pc' = "cleanup"
    /\ Disturb
    /\ UNCHANGED <<runs, dirs, box, code, result, crashed>>

CleanupUnlessRaised ==
    /\ Goto("cleanup", "idle")
    /\ dirs' = IF result = None THEN dirs ELSE dirs \ {runs}
    /\ UNCHANGED <<runs, box, code, result, disturbed, crashed>>

(* finally: rmtree(work_dir), then the result is returned or the exception *)
(* goes on to the consumer                                                 *)
Cleanup ==
    /\ Goto("cleanup", "idle")
    /\ dirs' = dirs \ {runs}
    /\ UNCHANGED <<runs, box, code, result, disturbed, crashed>>

(* The consumer dies; what it has started stays                            *)
Crash ==
    /\ pc # "idle"
    /\ pc' = "idle"
    /\ Disturb
    /\ crashed' = crashed \cup {runs}
    /\ result' = None
    /\ UNCHANGED <<runs, dirs, box, code>>
-----------------------------------------------------------------------------
(* A container's process ends by itself                                    *)
Exit(b) ==
    /\ box[b] = "running"
    /\ Become(b, "exited")
    /\ \E c \in ExitCodes : code' = [code EXCEPT ![b] = c]
    /\ UNCHANGED <<pc, runs, dirs, result, disturbed, crashed>>

Proceed == \/ DatasetMissing \/ StartCompiler \/ Compiled \/ StartWorker
           \/ WaitReturns \/ WaitExpires \/ Kill \/ KillConflicts \/ Discard
           \/ Collect \/ Cleanup

Fail == CompileRaises \/ StartRaises \/ WaitRaises \/ CallRaises \/ Crash

Next == Begin \/ Proceed \/ Fail \/ \E b \in Boxes : Exit(b)

(* The consumer goes on and waits expire; a container need not ever exit.  *)
Spec == Init /\ [][Next]_vars /\ WF_vars(Proceed)
-----------------------------------------------------------------------------
(* Variables have values of their types, and a result is there only at the *)
(* end of a run.                                                           *)
TypeOK ==
    /\ pc \in {"idle", "prepare", "compiling", "start", "waiting", "kill",
               "discard", "collect", "cleanup"}
    /\ runs \in 0..MaxRuns
    /\ dirs \subseteq 1..runs
    /\ box \in [Boxes -> {"none", "created", "running", "exited", "removed"}]
    /\ code \in [Boxes -> ExitCodes \cup {Killed, None}]
    /\ result \in Results \cup {None}
    /\ result # None => pc \in {"idle", "cleanup"}
    /\ disturbed \subseteq 1..runs
    /\ crashed \subseteq disturbed

(* Scratch directories do not pile up: only the run in progress, and runs  *)
(* in which the consumer died, have one, whichever way the others ended,   *)
(* also when calls of the daemon failed.                                   *)
DirectoriesRemoved ==
    \A r \in dirs : r \in crashed \/ (r = runs /\ pc # "idle")

(* No strategy runs unattended: as long as the daemon and the consumer do  *)
(* not fail, a running container is the one that the run in progress is    *)
(* waiting for, whatever the strategy does.                                *)
NothingRunsUnattended ==
    \A b \in Boxes : box[b] = "running" =>
        \/ b[1] \in disturbed
        \/ b = Compiler /\ pc = "compiling"
        \/ b = Worker /\ pc \in {"waiting", "kill"}

(* What is reported is what happened: only a worker that has ended by      *)
(* itself with code 0 is a success and has metrics, only one that was      *)
(* killed is a timeout, and a segmentation fault is reported as such.      *)
ReportIsTrue ==
    result # None =>
        /\ (result.status = "success")  <=> (code[Worker] = 0)
        /\ (result.status = "segfault") <=> (code[Worker] = 139)
        /\ (result.status = "timeout")  <=> (code[Worker] = Killed)
        /\ result.measured => result.status = "success"

(* The consumer does not stay in a backtest whose worker has started: it   *)
(* ends even when the strategy never does.                                 *)
WorkerPhaseEnds == pc = "waiting" ~> pc = "idle"

(* The instant a backtest finishes or fails its container is deleted       *)
(* (docs/sections/section_8_to_15.html:443).                               *)
EphemeralContainers ==
    pc = "idle" => \A b \in Boxes : b[1] \notin disturbed => box[b] \in {"none", "removed"}
================================================================================
