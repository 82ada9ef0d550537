------------------------- MODULE ConsumerSandboxProofs -------------------------
(***************************************************************************)
(* The consumer with its sandbox: what the sandbox promises holds under    *)
(* the consumer as well, and the two together are a consumer of            *)
(* SwarmPipeline, for any strategies, tasks, prefetch and crashes.         *)
(***************************************************************************)
EXTENDS ConsumerSandbox, SandboxProofs

TaskType == [task: {<<1, 1>>}, iteration: Nat, source: Strategies]

(* A handler works on the task that was delivered first, unless the broker *)
(* has taken it back.                                                      *)
HandlerInv ==
    /\ queue \in Seq(TaskType) /\ held \in Seq(TaskType)
    /\ stage \in {"idle", "running", "ran", "published", "raised", "down"}
    /\ stage = "running" <=> pc # "idle"
    /\ stage = "down" => ~connected
    /\ stage \notin {"idle", "down"} => body \in TaskType
    /\ stage \notin {"idle", "down"} /\ connected => held # <<>> /\ body = Head(held)

(* How far a run comes, and with which exit code, is up to its strategy.   *)
StrategyInv ==
    stage = "running" =>
        /\ pc \in {"start", "waiting", "kill", "discard", "collect"} =>
               body.source \in Compiles
        /\ pc = "compiling" /\ box[Compiler] = "exited" /\ code[Compiler] = 0 =>
               body.source \in Compiles
        /\ pc \in {"waiting", "kill", "collect"} /\ box[Worker] = "exited" =>
               code[Worker] \in ExitsWith[body.source]
        /\ pc = "cleanup" /\ result # None => OutcomeOf(result) \in MayReport(body.source)

ConsumerInv == SandboxInv /\ HandlerInv /\ StrategyInv

(* ConsumerInv holds throughout.                                           *)
THEOREM ConsumerInvariance == ConsumerSpec => []ConsumerInv
<1>1. ConsumerInit => ConsumerInv
  BY SandboxInductive, ConsumerAssumption
     DEF ConsumerInit, ConsumerInv, HandlerInv, StrategyInv, TaskType, Init
(* Every step of broker, handler and sandbox preserves it: a run abandoned *)
(* with its process leaves nothing for the next one to take over.          *)
(* Whatever the consumer does is a step of its sandbox, or none there.     *)
<1>2. ConsumerInv /\ [ConsumerNext]_cvars => [Next]_vars
  <2> SUFFICES ASSUME ConsumerInv, [ConsumerNext]_cvars PROVE [Next]_vars
    OBVIOUS
  <2>1. CASE StrategyExits
    <3>1. Compiler \in Boxes /\ Worker \in Boxes
      BY <2>1 DEF StrategyExits, ConsumerInv, HandlerInv, SandboxInv, Compiler, Worker, Boxes
    <3> QED  BY <2>1, <3>1 DEF StrategyExits, Next
  <2>2. CASE LeftoverExits
    BY <2>2 DEF LeftoverExits, Next
  <2>3. CASE Work \/ EndTask
    BY <2>3 DEF Work, EndTask, Next, Proceed
  <2>4. CASE WorkFails \/ Die
    BY <2>4 DEF WorkFails, Die, Next, Fail
  <2>5. CASE BeginTask
    BY <2>5 DEF BeginTask, Next
  <2>6. CASE \/ Deliver \/ TaskRaises \/ Publish \/ Ack \/ Nack \/ ConnectionLost
             \/ GiveUp \/ Restart \/ UNCHANGED cvars
    BY <2>6 DEF Deliver, TaskRaises, Publish, Ack, Nack, ConnectionLost, GiveUp, Restart, cvars
  <2> QED  BY <2>1, <2>2, <2>3, <2>4, <2>5, <2>6 DEF ConsumerNext, Handle
<1>3. ConsumerInv /\ [ConsumerNext]_cvars => ConsumerInv'
  <2> SUFFICES ASSUME ConsumerInv, [ConsumerNext]_cvars PROVE ConsumerInv'
    OBVIOUS
  <2>1. SandboxInv'
    BY <1>2, SandboxInductive DEF ConsumerInv
  <2>2. HandlerInv'
    <3>1. /\ queue \in Seq(TaskType) /\ held \in Seq(TaskType)
          /\ held # <<>> => Head(held) \in TaskType /\ Tail(held) \in Seq(TaskType)
          /\ queue # <<>> => /\ Head(queue) \in TaskType /\ Tail(queue) \in Seq(TaskType)
                             /\ Append(held, Head(queue)) \in Seq(TaskType)
                             /\ Append(held, Head(queue)) # <<>>
                             /\ held # <<>> => Head(Append(held, Head(queue))) = Head(held)
          /\ held \o queue \in Seq(TaskType)
          /\ <<>> \in Seq(TaskType)
      BY DEF ConsumerInv, HandlerInv
    <3> USE DEF ConsumerInv, HandlerInv
    <3>2. CASE Deliver
      BY <3>1, <3>2 DEF Deliver, vars
    <3>3. CASE BeginTask
      BY <3>1, <3>3 DEF BeginTask, Begin, Goto, brokerVars
    <3>4. CASE TaskRaises
      BY <3>1, <3>4 DEF TaskRaises, vars, brokerVars
    <3>5. CASE StrategyExits \/ LeftoverExits
      BY <3>5 DEF StrategyExits, LeftoverExits, Exit, brokerVars
    <3>6. CASE Work
      BY <3>6 DEF Work, DatasetMissing, StartCompiler, Compiled, StartWorker, WaitReturns,
         WaitExpires, Kill, KillConflicts, Discard, Collect, Goto, brokerVars
    <3>7. CASE WorkFails
      BY <3>7 DEF WorkFails, CompileRaises, StartRaises, WaitRaises, CallRaises, Goto, brokerVars
    <3>8. CASE EndTask
      BY <3>8 DEF EndTask, Cleanup, Goto, brokerVars
    <3>9. CASE Publish \/ Ack \/ Nack
      BY <3>1, <3>9 DEF Publish, Ack, Nack, vars
    <3>10. CASE ConnectionLost
      BY <3>1, <3>10 DEF ConnectionLost, Requeue, vars
    <3>11. CASE GiveUp \/ Restart
      BY <3>11 DEF GiveUp, Restart, vars, brokerVars
    <3>12. CASE Die
      <4>1. stage' = "down" /\ pc' = "idle"
        BY <3>12 DEF Die, Crash, vars
      <4>2. CASE Requeue
        BY <3>1, <4>1, <4>2 DEF Requeue
      <4>3. CASE ~connected /\ UNCHANGED brokerVars
        BY <3>1, <4>1, <4>3 DEF brokerVars
      <4> QED  BY <3>12, <4>2, <4>3 DEF Die
    <3>13. CASE UNCHANGED cvars
      BY <3>13 DEF cvars, vars, brokerVars
    <3> QED  BY <3>2, <3>3, <3>4, <3>5, <3>6, <3>7, <3>8, <3>9, <3>10, <3>11, <3>12, <3>13
                DEF ConsumerNext, Handle
  <2>3. StrategyInv'
    <3> SUFFICES ASSUME stage' = "running" PROVE StrategyInv'
      BY DEF StrategyInv
    <3> USE DEF ConsumerInv, StrategyInv, SandboxInv, TypeOK
    <3>1. CASE BeginTask
      BY <3>1 DEF BeginTask, Begin, Goto
    <3>2. CASE StrategyExits
      <4>1. /\ stage = "running" /\ runs \in Runs
            /\ UNCHANGED <<pc, body, runs, result>>
            /\ Compiler \in Boxes /\ Worker \in Boxes /\ Compiler # Worker
        BY <3>2 DEF StrategyExits, Exit, HandlerInv, Boxes, Compiler, Worker
      <4>2. CASE Exit(Compiler) /\ (code'[Compiler] = 0 => body.source \in Compiles)
        <5>1. box'[Worker] = box[Worker] /\ code'[Worker] = code[Worker]
          BY <4>1, <4>2 DEF Exit, Become
        <5> QED  BY <4>1, <4>2, <5>1 DEF Compiler, Worker
      <4>3. CASE Exit(Worker) /\ code'[Worker] \in ExitsWith[body.source]
        <5>1. box'[Compiler] = box[Compiler] /\ code'[Compiler] = code[Compiler]
          BY <4>1, <4>3 DEF Exit, Become
        <5> QED  BY <4>1, <4>3, <5>1 DEF Compiler, Worker
      <4> QED  BY <3>2, <4>2, <4>3 DEF StrategyExits
    <3>3. CASE LeftoverExits
      <4>1. PICK b \in Boxes : (b[1] # runs \/ stage # "running") /\ Exit(b)
        BY <3>3 DEF LeftoverExits
      <4>2. /\ stage = "running" /\ b[1] # runs
            /\ UNCHANGED <<pc, body, runs, result>>
        BY <3>3, <4>1 DEF LeftoverExits, Exit
      <4>3. /\ box'[Compiler] = box[Compiler] /\ code'[Compiler] = code[Compiler]
            /\ box'[Worker] = box[Worker] /\ code'[Worker] = code[Worker]
        <5>1. b # Compiler /\ b # Worker
          BY <4>2 DEF Compiler, Worker
        <5>2. PICK c \in ExitCodes : code' = [code EXCEPT ![b] = c]
          BY <4>1 DEF Exit
        <5> QED  BY <4>1, <5>1, <5>2 DEF Exit, Become
      <4> QED  BY <4>2, <4>3 DEF Compiler, Worker
    <3>4. CASE Work
      <4> USE DEF MayReport, OutcomeOf, Result
      <4>1. /\ stage = "running" /\ runs \in Runs /\ body.source \in Strategies
            /\ UNCHANGED <<body, runs>>
            /\ Compiler \in Boxes /\ Worker \in Boxes /\ Compiler # Worker
        BY <3>4 DEF Work, HandlerInv, TaskType, Boxes, Compiler, Worker, DatasetMissing,
           StartCompiler, Compiled, StartWorker, WaitReturns, WaitExpires, Kill, KillConflicts,
           Discard, Collect
      <4>2. CASE DatasetMissing
        BY <4>1, <4>2 DEF DatasetMissing, Goto
      <4>3. CASE StartCompiler
        BY <4>1, <4>3 DEF StartCompiler, Goto, Become, Compiler, Worker
      <4>4. CASE Compiled
        BY <4>1, <4>4 DEF Compiled, Goto, Become
      <4>5. CASE StartWorker
        BY <4>1, <4>5 DEF StartWorker, Goto, Become, Worker
      <4>6. CASE WaitReturns \/ WaitExpires \/ KillConflicts
        BY <4>1, <4>6 DEF WaitReturns, WaitExpires, KillConflicts, Goto, Compiler, Worker
      <4>7. CASE Kill
        BY <4>1, <4>7 DEF Kill, Goto
      <4>8. CASE Discard
        BY <4>1, <4>8 DEF Discard, Goto
      <4>9. CASE Collect
        <5>1. /\ code[Worker] \in ExitsWith[body.source] /\ body.source \in Compiles
              /\ ~(pc' \in {"compiling", "start", "waiting", "kill", "discard", "collect"})
          BY <4>1, <4>9 DEF Collect, Goto, WorkerAt
        <5>2. CASE code[Worker] = 0
          <6>1. 0 # 139
            OBVIOUS
          <6>2. PICK m \in BOOLEAN : result' = Result("success", m)
            BY <4>9, <5>2, <6>1, Zenon DEF Collect
          <6>3. OutcomeOf(Result("success", m)) \in MayReport(body.source)
            <7> HIDE DEF OutcomeOf, Result
            <7>1. 0 \in ExitsWith[body.source] /\ body.source \in Compiles
              BY <5>1, <5>2
            <7> QED  BY <7>1, ZenonT(30)
          <6>4. OutcomeOf(result)' \in MayReport(body.source)
            BY <6>2, <6>3
          <6> QED  BY <4>1, <5>1, <6>4
        <5>3. CASE code[Worker] # 0
          <6>1. \/ code[Worker] = 139 /\ result' = Result("segfault", FALSE)
                \/ result' = Result("runtime_error", FALSE)
            BY <4>9, <5>3, Zenon DEF Collect
          <6>2. OutcomeOf(result)' \in MayReport(body.source)
            <7>1. CASE code[Worker] = 139 /\ result' = Result("segfault", FALSE)
              BY <5>1, <7>1
            <7>2. CASE result' = Result("runtime_error", FALSE)
              BY <7>2
            <7> QED  BY <6>1, <7>1, <7>2
          <6> QED  BY <4>1, <5>1, <6>2
        <5> QED  BY <5>2, <5>3
      <4> QED  BY <3>4, <4>2, <4>3, <4>4, <4>5, <4>6, <4>7, <4>8, <4>9 DEF Work
    <3>5. CASE WorkFails
      <4>1. CASE CompileRaises
        BY <4>1 DEF CompileRaises, MayReport, OutcomeOf, Result
      <4>2. CASE StartRaises \/ WaitRaises \/ CallRaises
        BY <4>2, <3>5 DEF WorkFails, StartRaises, WaitRaises, CallRaises, Goto, Compiler, Worker
      <4> QED  BY <3>5, <4>1, <4>2 DEF WorkFails
    <3>6. CASE Deliver \/ ConnectionLost \/ UNCHANGED cvars
      BY <3>6 DEF Deliver, ConnectionLost, cvars, vars, Compiler, Worker
    <3>7. CASE TaskRaises \/ EndTask \/ Publish \/ Ack \/ Nack \/ GiveUp \/ Die \/ Restart
      BY <3>7 DEF TaskRaises, EndTask, Publish, Ack, Nack, GiveUp, Die, Restart
    <3> QED  BY <3>1, <3>2, <3>3, <3>4, <3>5, <3>6, <3>7 DEF ConsumerNext, Handle
  <2> QED  BY <2>1, <2>2, <2>3 DEF ConsumerInv
<1> QED  BY <1>1, <1>3, PTL DEF ConsumerSpec

(* What the sandbox promises, it promises whatever the broker does: when   *)
(* tasks are redelivered, and the process dies and begins others.          *)
THEOREM ConsumerSafe ==
    ConsumerSpec => [](TypeOK /\ DirectoriesRemoved /\ NothingRunsUnattended /\ ReportIsTrue)
<1>1. ConsumerInv => TypeOK /\ DirectoriesRemoved /\ NothingRunsUnattended /\ ReportIsTrue
  BY DEF ConsumerInv, SandboxInv
<1> QED  BY <1>1, ConsumerInvariance, PTL

(* A consumer and its sandbox do what SwarmPipeline lets a consumer do.    *)
THEOREM ConsumerRefinement == ConsumerSpec => ImplementsConsumer
<1>1. ConsumerInv /\ [ConsumerNext]_cvars =>
          [P!Consume(me) \/ UNCHANGED P!vars]_cvars
  <2> SUFFICES ASSUME ConsumerInv, ConsumerNext
               PROVE  P!Consume(me) \/ UNCHANGED P!vars
    OBVIOUS
  <2> USE DEF ConsumerInv, HandlerInv, Mine, Stage, brokerVars,
              P!vars, P!runVars, P!stateVars, P!memoryVars, P!consumerVars, P!brokerVars
  <2>1. CASE Deliver
    <3>1. P!Deliver(me) \/ UNCHANGED P!vars
      BY <2>1 DEF Deliver, vars, P!Deliver
    <3> QED  BY <3>1 DEF P!Consume
  <2>2. CASE BeginTask \/ TaskRaises
    BY <2>2 DEF BeginTask, TaskRaises, vars
  <2>3. CASE StrategyExits \/ LeftoverExits \/ Work \/ WorkFails
    <3>1. UNCHANGED <<brokerVars, stage, body>> /\ (stage # "running" => UNCHANGED result)
      BY <2>3 DEF StrategyExits, LeftoverExits, Work, WorkFails, Exit
    <3> QED  BY <3>1
  <2>4. CASE EndTask /\ (~connected \/ result = None)
    BY <2>4 DEF EndTask
  <2>5. CASE EndTask /\ connected /\ result # None
    <3>1. P!Execute(me)
      BY <2>5 DEF EndTask, Cleanup, Goto, StrategyInv, P!Execute, Answer, TaskType
    <3> QED  BY <3>1 DEF P!Consume, P!Handle
  <2>6. CASE Publish
    <3>1. P!PublishResult(me)
      BY <2>6 DEF Publish, vars, P!PublishResult
    <3> QED  BY <3>1 DEF P!Consume, P!Handle
  <2>7. CASE Ack
    <3>1. P!Ack(me)
      BY <2>7 DEF Ack, vars, P!Ack
    <3> QED  BY <3>1 DEF P!Consume, P!Handle
  <2>8. CASE Nack
    <3>1. P!Nack(me)
      BY <2>8 DEF Nack, vars, P!Nack
    <3> QED  BY <3>1 DEF P!Consume, P!Handle
  <2>9. CASE ConnectionLost
    <3>1. P!Crash(me)
      BY <2>9 DEF ConnectionLost, Requeue, vars, P!Crash
    <3> QED  BY <3>1 DEF P!Consume
  <2>10. CASE GiveUp
    BY <2>10 DEF GiveUp, vars
  <2>11. CASE Die
    <3>1. CASE Requeue
      <4>1. P!Crash(me)
        BY <2>11, <3>1 DEF Die, Requeue, P!Crash
      <4> QED  BY <4>1 DEF P!Consume
    <3>2. CASE ~connected /\ UNCHANGED brokerVars
      BY <2>11, <3>2
    <3> QED  BY <2>11, <3>1, <3>2 DEF Die
  <2>12. CASE Restart
    <3>1. P!Restart(me)
      BY <2>12 DEF Restart, vars, P!Restart
    <3> QED  BY <3>1 DEF P!Consume
  <2> QED  BY <2>1, <2>2, <2>3, <2>4, <2>5, <2>6, <2>7, <2>8, <2>9, <2>10, <2>11, <2>12
              DEF ConsumerNext, Handle
<1> QED  BY <1>1, ConsumerInvariance, PTL DEF ConsumerSpec, ImplementsConsumer
================================================================================
