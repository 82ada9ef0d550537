----------------------------- MODULE SandboxProofs -----------------------------
(***************************************************************************)
(* Safety of Sandbox for any number of backtests, any exit codes, and any  *)
(* number of failures of the daemon and of the consumer.                   *)
(***************************************************************************)
EXTENDS Sandbox, TLAPS

(* What the place where run_backtest stands says of its two containers.    *)
CompilerAt ==
    /\ pc = "prepare" => box[Compiler] = "none"
    /\ pc = "compiling" => box[Compiler] \in {"running", "exited"}

WorkerAt ==
    /\ pc \in {"prepare", "compiling", "start"} => box[Worker] = "none"
    /\ pc \in {"waiting", "kill"} => \/ box[Worker] = "running"
                                     \/ box[Worker] = "exited" /\ code[Worker] \in ExitCodes
    /\ pc = "collect" => box[Worker] = "exited" /\ code[Worker] \in ExitCodes
    /\ pc = "discard" => box[Worker] = "exited" /\ code[Worker] = Killed

(* A container has an exit code only when it has exited; those of runs     *)
(* still to come do not exist.                                             *)
BoxInv == \A b \in Boxes :
    /\ b[1] > runs => box[b] = "none"
    /\ box[b] \in {"none", "created", "running"} => code[b] = None

(* A result is reported when nothing can change what it says any more.     *)
ResultInv == result # None => box[Worker] \in {"none", "removed"}

SandboxInv ==
    /\ TypeOK /\ DirectoriesRemoved /\ NothingRunsUnattended /\ ReportIsTrue
    /\ pc # "idle" \/ result # None => runs \in Runs
    /\ CompilerAt /\ WorkerAt /\ BoxInv /\ ResultInv

(* It is inductive: before the first backtest there are no containers and *)
(* no directories, and every call of run_backtest, failing or not, and     *)
(* every exit of a container preserves it.                                 *)
LEMMA SandboxInductive ==
    /\ Init => SandboxInv
    /\ SandboxInv /\ [Next]_vars => SandboxInv'
<1>1. Init => SandboxInv
  BY SandboxAssumption
     DEF Init, SandboxInv, TypeOK, DirectoriesRemoved, NothingRunsUnattended, ReportIsTrue,
         CompilerAt, WorkerAt, BoxInv, ResultInv, Boxes, Runs
<1>2. SandboxInv /\ [Next]_vars => SandboxInv'
  <2> SUFFICES ASSUME SandboxInv, [Next]_vars PROVE SandboxInv'
    OBVIOUS
  <2> USE SandboxAssumption DEF SandboxInv, Goto, Become, Disturb, Boxes, Runs, Worker, Compiler
  <2>0. \A m \in BOOLEAN : /\ Result("success", m) \in Results
                           /\ Result("segfault", FALSE) \in Results
                           /\ Result("runtime_error", FALSE) \in Results
                           /\ Result("compile_error", FALSE) \in Results
    BY DEF Results, Result
  <2>1. CASE Begin
    <3>1. TypeOK'
      <4>1. runs \in Nat /\ runs' = runs + 1 /\ runs' \in 0..MaxRuns
        BY <2>1 DEF Begin, TypeOK
      <4>2. dirs' \subseteq 1..runs' /\ disturbed' \subseteq 1..runs'
        BY <2>1, <4>1 DEF Begin, TypeOK
      <4> QED  BY <2>1, <4>1, <4>2 DEF Begin, TypeOK
    <3>2. DirectoriesRemoved'
      BY <2>1 DEF Begin, DirectoriesRemoved, TypeOK
    <3>3. NothingRunsUnattended'
      BY <2>1 DEF Begin, NothingRunsUnattended, TypeOK, CompilerAt, WorkerAt, BoxInv
    <3>4. ReportIsTrue' /\ ResultInv'
      BY <2>1 DEF Begin, ReportIsTrue, TypeOK, ResultInv, WorkerAt, BoxInv, Result
    <3>5. CompilerAt' /\ WorkerAt'
      BY <2>1 DEF Begin, TypeOK, CompilerAt, WorkerAt, BoxInv
    <3>6. BoxInv' /\ (pc # "idle" \/ result # None => runs \in Runs)'
      BY <2>1 DEF Begin, TypeOK, BoxInv
    <3> QED  BY <3>1, <3>2, <3>3, <3>4, <3>5, <3>6
  <2>2. CASE DatasetMissing
    <3>1. TypeOK'
      BY <2>2 DEF DatasetMissing, TypeOK, Results, Result
    <3>2. DirectoriesRemoved'
      BY <2>2 DEF DatasetMissing, DirectoriesRemoved, TypeOK
    <3>3. NothingRunsUnattended'
      BY <2>2 DEF DatasetMissing, NothingRunsUnattended, TypeOK, CompilerAt, WorkerAt, BoxInv
    <3>4. ReportIsTrue' /\ ResultInv'
      BY <2>2 DEF DatasetMissing, ReportIsTrue, TypeOK, ResultInv, WorkerAt, BoxInv, Result
    <3>5. CompilerAt' /\ WorkerAt'
      BY <2>2 DEF DatasetMissing, TypeOK, CompilerAt, WorkerAt, BoxInv
    <3>6. BoxInv' /\ (pc # "idle" \/ result # None => runs \in Runs)'
      BY <2>2 DEF DatasetMissing, TypeOK, BoxInv
    <3> QED  BY <3>1, <3>2, <3>3, <3>4, <3>5, <3>6
  <2>3. CASE StartCompiler
    <3>1. TypeOK'
      BY <2>3 DEF StartCompiler, TypeOK, Results, Result
    <3>2. DirectoriesRemoved'
      BY <2>3 DEF StartCompiler, DirectoriesRemoved, TypeOK
    <3>3. NothingRunsUnattended'
      BY <2>3 DEF StartCompiler, NothingRunsUnattended, TypeOK, CompilerAt, WorkerAt, BoxInv
    <3>4. ReportIsTrue' /\ ResultInv'
      BY <2>3 DEF StartCompiler, ReportIsTrue, TypeOK, ResultInv, WorkerAt, BoxInv, Result
    <3>5. CompilerAt' /\ WorkerAt'
      BY <2>3 DEF StartCompiler, TypeOK, CompilerAt, WorkerAt, BoxInv
    <3>6. BoxInv' /\ (pc # "idle" \/ result # None => runs \in Runs)'
      BY <2>3 DEF StartCompiler, TypeOK, BoxInv, CompilerAt
    <3> QED  BY <3>1, <3>2, <3>3, <3>4, <3>5, <3>6
  <2>4. CASE Compiled
    <3>1. TypeOK'
      <4>1. result' \in Results \cup {None}
        BY <2>4, <2>0 DEF Compiled, TypeOK
      <4> QED  BY <2>4, <4>1 DEF Compiled, TypeOK
    <3>2. DirectoriesRemoved'
      BY <2>4 DEF Compiled, DirectoriesRemoved, TypeOK
    <3>3. NothingRunsUnattended'
      BY <2>4 DEF Compiled, NothingRunsUnattended, TypeOK, CompilerAt, WorkerAt, BoxInv
    <3>4. ReportIsTrue' /\ ResultInv'
      BY <2>4 DEF Compiled, ReportIsTrue, TypeOK, ResultInv, WorkerAt, BoxInv, Result
    <3>5. CompilerAt' /\ WorkerAt'
      BY <2>4 DEF Compiled, TypeOK, CompilerAt, WorkerAt, BoxInv
    <3>6. BoxInv' /\ (pc # "idle" \/ result # None => runs \in Runs)'
      BY <2>4 DEF Compiled, TypeOK, BoxInv
    <3> QED  BY <3>1, <3>2, <3>3, <3>4, <3>5, <3>6
  <2>5. CASE StartWorker
    <3>1. TypeOK'
      BY <2>5 DEF StartWorker, TypeOK, Results, Result
    <3>2. DirectoriesRemoved'
      BY <2>5 DEF StartWorker, DirectoriesRemoved, TypeOK
    <3>3. NothingRunsUnattended'
      BY <2>5 DEF StartWorker, NothingRunsUnattended, TypeOK, CompilerAt, WorkerAt, BoxInv
    <3>4. ReportIsTrue' /\ ResultInv'
      BY <2>5 DEF StartWorker, ReportIsTrue, TypeOK, ResultInv, WorkerAt, BoxInv, Result
    <3>5. CompilerAt' /\ WorkerAt'
      BY <2>5 DEF StartWorker, TypeOK, CompilerAt, WorkerAt, BoxInv
    <3>6. BoxInv' /\ (pc # "idle" \/ result # None => runs \in Runs)'
      BY <2>5 DEF StartWorker, TypeOK, BoxInv, WorkerAt
    <3> QED  BY <3>1, <3>2, <3>3, <3>4, <3>5, <3>6
  <2>6. CASE WaitReturns
    <3>1. TypeOK'
      BY <2>6 DEF WaitReturns, TypeOK, Results, Result
    <3>2. DirectoriesRemoved'
      BY <2>6 DEF WaitReturns, DirectoriesRemoved, TypeOK
    <3>3. NothingRunsUnattended'
      BY <2>6 DEF WaitReturns, NothingRunsUnattended, TypeOK, CompilerAt, WorkerAt, BoxInv
    <3>4. ReportIsTrue' /\ ResultInv'
      BY <2>6 DEF WaitReturns, ReportIsTrue, TypeOK, ResultInv, WorkerAt, BoxInv, Result
    <3>5. CompilerAt' /\ WorkerAt'
      BY <2>6 DEF WaitReturns, TypeOK, CompilerAt, WorkerAt, BoxInv
    <3>6. BoxInv' /\ (pc # "idle" \/ result # None => runs \in Runs)'
      BY <2>6 DEF WaitReturns, TypeOK, BoxInv
    <3> QED  BY <3>1, <3>2, <3>3, <3>4, <3>5, <3>6
  <2>7. CASE WaitExpires
    <3>1. TypeOK'
      BY <2>7 DEF WaitExpires, TypeOK, Results, Result
    <3>2. DirectoriesRemoved'
      BY <2>7 DEF WaitExpires, DirectoriesRemoved, TypeOK
    <3>3. NothingRunsUnattended'
      BY <2>7 DEF WaitExpires, NothingRunsUnattended, TypeOK, CompilerAt, WorkerAt, BoxInv
    <3>4. ReportIsTrue' /\ ResultInv'
      BY <2>7 DEF WaitExpires, ReportIsTrue, TypeOK, ResultInv, WorkerAt, BoxInv, Result
    <3>5. CompilerAt' /\ WorkerAt'
      BY <2>7 DEF WaitExpires, TypeOK, CompilerAt, WorkerAt, BoxInv
    <3>6. BoxInv' /\ (pc # "idle" \/ result # None => runs \in Runs)'
      BY <2>7 DEF WaitExpires, TypeOK, BoxInv
    <3> QED  BY <3>1, <3>2, <3>3, <3>4, <3>5, <3>6
  <2>8. CASE Kill
    <3>1. TypeOK'
      BY <2>8 DEF Kill, TypeOK, Results, Result
    <3>2. DirectoriesRemoved'
      BY <2>8 DEF Kill, DirectoriesRemoved, TypeOK
    <3>3. NothingRunsUnattended'
      BY <2>8 DEF Kill, NothingRunsUnattended, TypeOK, CompilerAt, WorkerAt, BoxInv
    <3>4. ReportIsTrue' /\ ResultInv'
      BY <2>8 DEF Kill, ReportIsTrue, TypeOK, ResultInv, WorkerAt, BoxInv, Result
    <3>5. CompilerAt' /\ WorkerAt'
      BY <2>8 DEF Kill, TypeOK, CompilerAt, WorkerAt, BoxInv
    <3>6. BoxInv' /\ (pc # "idle" \/ result # None => runs \in Runs)'
      BY <2>8 DEF Kill, TypeOK, BoxInv
    <3> QED  BY <3>1, <3>2, <3>3, <3>4, <3>5, <3>6
  <2>9. CASE KillConflicts
    <3>1. TypeOK'
      BY <2>9 DEF KillConflicts, TypeOK, Results, Result
    <3>2. DirectoriesRemoved'
      BY <2>9 DEF KillConflicts, DirectoriesRemoved, TypeOK
    <3>3. NothingRunsUnattended'
      BY <2>9 DEF KillConflicts, NothingRunsUnattended, TypeOK, CompilerAt, WorkerAt, BoxInv
    <3>4. ReportIsTrue' /\ ResultInv'
      BY <2>9 DEF KillConflicts, ReportIsTrue, TypeOK, ResultInv, WorkerAt, BoxInv, Result
    <3>5. CompilerAt' /\ WorkerAt'
      BY <2>9 DEF KillConflicts, TypeOK, CompilerAt, WorkerAt, BoxInv
    <3>6. BoxInv' /\ (pc # "idle" \/ result # None => runs \in Runs)'
      BY <2>9 DEF KillConflicts, TypeOK, BoxInv
    <3> QED  BY <3>1, <3>2, <3>3, <3>4, <3>5, <3>6
  <2>10. CASE Discard
    <3>1. TypeOK'
      BY <2>10 DEF Discard, TypeOK, Results, Result
    <3>2. DirectoriesRemoved'
      BY <2>10 DEF Discard, DirectoriesRemoved, TypeOK
    <3>3. NothingRunsUnattended'
      BY <2>10 DEF Discard, NothingRunsUnattended, TypeOK, CompilerAt, WorkerAt, BoxInv
    <3>4. ReportIsTrue' /\ ResultInv'
      BY <2>10 DEF Discard, ReportIsTrue, TypeOK, ResultInv, WorkerAt, BoxInv, Result
    <3>5. CompilerAt' /\ WorkerAt'
      BY <2>10 DEF Discard, TypeOK, CompilerAt, WorkerAt, BoxInv
    <3>6. BoxInv' /\ (pc # "idle" \/ result # None => runs \in Runs)'
      BY <2>10 DEF Discard, TypeOK, BoxInv
    <3> QED  BY <3>1, <3>2, <3>3, <3>4, <3>5, <3>6
  <2>11. CASE Collect
    <3>1. TypeOK'
      <4>1. result' \in Results \cup {None}
        BY <2>11, <2>0, Zenon DEF Collect
      <4> QED  BY <2>11, <4>1 DEF Collect, TypeOK
    <3>2. DirectoriesRemoved'
      BY <2>11 DEF Collect, DirectoriesRemoved, TypeOK
    <3>3. NothingRunsUnattended'
      BY <2>11 DEF Collect, NothingRunsUnattended, TypeOK, CompilerAt, WorkerAt, BoxInv
    <3>4. ReportIsTrue' /\ ResultInv'
      BY <2>11 DEF Collect, ReportIsTrue, TypeOK, ResultInv, WorkerAt, BoxInv, Result
    <3>5. CompilerAt' /\ WorkerAt'
      BY <2>11 DEF Collect, TypeOK, CompilerAt, WorkerAt, BoxInv
    <3>6. BoxInv' /\ (pc # "idle" \/ result # None => runs \in Runs)'
      BY <2>11 DEF Collect, TypeOK, BoxInv
    <3> QED  BY <3>1, <3>2, <3>3, <3>4, <3>5, <3>6
  <2>12. CASE Cleanup
    <3>1. TypeOK'
      BY <2>12 DEF Cleanup, TypeOK, Results, Result
    <3>2. DirectoriesRemoved'
      BY <2>12 DEF Cleanup, DirectoriesRemoved, TypeOK
    <3>3. NothingRunsUnattended'
      BY <2>12 DEF Cleanup, NothingRunsUnattended, TypeOK, CompilerAt, WorkerAt, BoxInv
    <3>4. ReportIsTrue' /\ ResultInv'
      BY <2>12 DEF Cleanup, ReportIsTrue, TypeOK, ResultInv, WorkerAt, BoxInv, Result
    <3>5. CompilerAt' /\ WorkerAt'
      BY <2>12 DEF Cleanup, TypeOK, CompilerAt, WorkerAt, BoxInv
    <3>6. BoxInv' /\ (pc # "idle" \/ result # None => runs \in Runs)'
      BY <2>12 DEF Cleanup, TypeOK, BoxInv
    <3> QED  BY <3>1, <3>2, <3>3, <3>4, <3>5, <3>6
  <2>13. CASE CompileRaises
    <3>1. TypeOK'
      BY <2>13 DEF CompileRaises, TypeOK, Results, Result
    <3>2. DirectoriesRemoved'
      BY <2>13 DEF CompileRaises, DirectoriesRemoved, TypeOK
    <3>3. NothingRunsUnattended'
      BY <2>13 DEF CompileRaises, NothingRunsUnattended, TypeOK, CompilerAt, WorkerAt, BoxInv
    <3>4. ReportIsTrue' /\ ResultInv'
      BY <2>13 DEF CompileRaises, ReportIsTrue, TypeOK, ResultInv, WorkerAt, BoxInv, Result
    <3>5. CompilerAt' /\ WorkerAt'
      BY <2>13 DEF CompileRaises, TypeOK, CompilerAt, WorkerAt, BoxInv
    <3>6. BoxInv' /\ (pc # "idle" \/ result # None => runs \in Runs)'
      BY <2>13 DEF CompileRaises, TypeOK, BoxInv
    <3> QED  BY <3>1, <3>2, <3>3, <3>4, <3>5, <3>6
  <2>14. CASE StartRaises
    <3>1. TypeOK'
      BY <2>14 DEF StartRaises, TypeOK, Results, Result
    <3>2. DirectoriesRemoved'
      BY <2>14 DEF StartRaises, DirectoriesRemoved, TypeOK
    <3>3. NothingRunsUnattended'
      BY <2>14 DEF StartRaises, NothingRunsUnattended, TypeOK, CompilerAt, WorkerAt, BoxInv
    <3>4. ReportIsTrue' /\ ResultInv'
      BY <2>14 DEF StartRaises, ReportIsTrue, TypeOK, ResultInv, WorkerAt, BoxInv, Result
    <3>5. CompilerAt' /\ WorkerAt'
      BY <2>14 DEF StartRaises, TypeOK, CompilerAt, WorkerAt, BoxInv
    <3>6. BoxInv' /\ (pc # "idle" \/ result # None => runs \in Runs)'
      BY <2>14 DEF StartRaises, TypeOK, BoxInv, WorkerAt
    <3> QED  BY <3>1, <3>2, <3>3, <3>4, <3>5, <3>6
  <2>15. CASE WaitRaises
    <3>1. TypeOK'
      BY <2>15 DEF WaitRaises, TypeOK, Results, Result
    <3>2. DirectoriesRemoved'
      BY <2>15 DEF WaitRaises, DirectoriesRemoved, TypeOK
    <3>3. NothingRunsUnattended'
      BY <2>15 DEF WaitRaises, NothingRunsUnattended, TypeOK, CompilerAt, WorkerAt, BoxInv
    <3>4. ReportIsTrue' /\ ResultInv'
      BY <2>15 DEF WaitRaises, ReportIsTrue, TypeOK, ResultInv, WorkerAt, BoxInv, Result
    <3>5. CompilerAt' /\ WorkerAt'
      BY <2>15 DEF WaitRaises, TypeOK, CompilerAt, WorkerAt, BoxInv
    <3>6. BoxInv' /\ (pc # "idle" \/ result # None => runs \in Runs)'
      BY <2>15 DEF WaitRaises, TypeOK, BoxInv
    <3> QED  BY <3>1, <3>2, <3>3, <3>4, <3>5, <3>6
  <2>16. CASE CallRaises
    <3>1. TypeOK'
      BY <2>16 DEF CallRaises, TypeOK, Results, Result
    <3>2. DirectoriesRemoved'
      BY <2>16 DEF CallRaises, DirectoriesRemoved, TypeOK
    <3>3. NothingRunsUnattended'
      BY <2>16 DEF CallRaises, NothingRunsUnattended, TypeOK, CompilerAt, WorkerAt, BoxInv
    <3>4. ReportIsTrue' /\ ResultInv'
      BY <2>16 DEF CallRaises, ReportIsTrue, TypeOK, ResultInv, WorkerAt, BoxInv, Result
    <3>5. CompilerAt' /\ WorkerAt'
      BY <2>16 DEF CallRaises, TypeOK, CompilerAt, WorkerAt, BoxInv
    <3>6. BoxInv' /\ (pc # "idle" \/ result # None => runs \in Runs)'
      BY <2>16 DEF CallRaises, TypeOK, BoxInv
    <3> QED  BY <3>1, <3>2, <3>3, <3>4, <3>5, <3>6
  <2>17. CASE Crash
    <3>1. TypeOK'
      BY <2>17 DEF Crash, TypeOK, Results, Result
    <3>2. DirectoriesRemoved'
      BY <2>17 DEF Crash, DirectoriesRemoved, TypeOK
    <3>3. NothingRunsUnattended'
      BY <2>17 DEF Crash, NothingRunsUnattended, TypeOK, CompilerAt, WorkerAt, BoxInv
    <3>4. ReportIsTrue' /\ ResultInv'
      BY <2>17 DEF Crash, ReportIsTrue, TypeOK, ResultInv, WorkerAt, BoxInv, Result
    <3>5. CompilerAt' /\ WorkerAt'
      BY <2>17 DEF Crash, TypeOK, CompilerAt, WorkerAt, BoxInv
    <3>6. BoxInv' /\ (pc # "idle" \/ result # None => runs \in Runs)'
      BY <2>17 DEF Crash, TypeOK, BoxInv
    <3> QED  BY <3>1, <3>2, <3>3, <3>4, <3>5, <3>6
  <2>18. ASSUME NEW b \in Boxes, Exit(b) PROVE SandboxInv'
    <3>1. TypeOK'
      BY <2>18 DEF Exit, TypeOK, Results, Result
    <3>2. DirectoriesRemoved'
      BY <2>18 DEF Exit, DirectoriesRemoved, TypeOK
    <3>3. NothingRunsUnattended'
      BY <2>18 DEF Exit, NothingRunsUnattended, TypeOK, CompilerAt, WorkerAt, BoxInv
    <3>4. ReportIsTrue' /\ ResultInv'
      BY <2>18 DEF Exit, ReportIsTrue, TypeOK, ResultInv, WorkerAt, BoxInv, Result
    <3>5. CompilerAt' /\ WorkerAt'
      BY <2>18 DEF Exit, TypeOK, CompilerAt, WorkerAt, BoxInv
    <3>6. BoxInv' /\ (pc # "idle" \/ result # None => runs \in Runs)'
      BY <2>18 DEF Exit, TypeOK, BoxInv
    <3> QED  BY <3>1, <3>2, <3>3, <3>4, <3>5, <3>6
  <2>19. CASE UNCHANGED vars
    BY <2>19 DEF vars, TypeOK, DirectoriesRemoved, NothingRunsUnattended, ReportIsTrue,
       CompilerAt, WorkerAt, BoxInv, ResultInv
  <2> QED  BY <2>1, <2>2, <2>3, <2>4, <2>5, <2>6, <2>7, <2>8, <2>9, <2>10, <2>11, <2>12, <2>13,
               <2>14, <2>15, <2>16, <2>17, <2>18, <2>19
           DEF Next, Proceed, Fail
<1> QED  BY <1>1, <1>2

(* What holds of the sandbox in every instance of Sandbox.                 *)
THEOREM SandboxSafe ==
    Spec => [](TypeOK /\ DirectoriesRemoved /\ NothingRunsUnattended /\ ReportIsTrue)
<1>1. SandboxInv => TypeOK /\ DirectoriesRemoved /\ NothingRunsUnattended /\ ReportIsTrue
  BY DEF SandboxInv
<1> QED  BY <1>1, SandboxInductive, PTL DEF Spec
================================================================================
