------------------------ MODULE SwarmPipelineProofs ------------------------
(***************************************************************************)
(* Safety of SwarmPipeline for any number of orchestrators, consumers and  *)
(* strategies, any outcomes, limits, prefetch and crashes.                 *)
(***************************************************************************)
EXTENDS SwarmPipeline, TLAPS

(* The inductive invariant.  TypeOK is not inductive: that a submission    *)
(* names a task of the current run, that the strategy sent is one, and     *)
(* that an approved outcome was measured, all depend on where the run and  *)
(* the handlers stand.                                                     *)

Working == {"coded", "evaluator", "wait", "evaluate", "cached", "logged"}
Judging == {"evaluate", "cached", "logged"}

RunInv == \A o \in Orchestrators :
    /\ pc[o] # "idle" => runs[o] \in 1..MaxRuns
    /\ pc[o] \in Working => source[o] \in Sources
    /\ pc[o] \in Judging => outcome[o] \in Outcomes

(* A reply is genuine: it carries an outcome of the submission it is for.  *)
Genuine(r) == /\ r.of \in submitted
              /\ r.task = r.of.task
              /\ r.outcome \in Backtests[r.of.source]

HandlerInv == \A c \in Consumers :
    /\ stage[c] \in {"ran", "published"} =>
           /\ held[c] # <<>>
           /\ answer[c] \in Replies
           /\ Genuine(answer[c])
    /\ stage[c] = "published" => Head(held[c]) \in answered

QueueInv ==
    /\ \A x : InQueue(x, taskQueue) => x \in submitted
    /\ \A c \in Consumers : \A x : InQueue(x, held[c]) => x \in submitted
    /\ \A r : InQueue(r, resultQueue) => Genuine(r)

(* Nothing is submitted for a run or an iteration still to come.           *)
SubmittedInv == \A s \in submitted, o \in Orchestrators :
    s.task[1] = o => /\ s.task[2] <= runs[o]
                     /\ s.task = TaskOf(o) => s.iteration <= iteration[o]

(* What is being judged was measured for this run, or is the timeout.      *)
OutcomeInv == \A o \in Orchestrators : pc[o] \in Judging =>
    IF executed[o] = None
    THEN outcome[o] = TimedOut
    ELSE /\ executed[o] \in submitted
         /\ executed[o].task = TaskOf(o)
         /\ outcome[o] \in Backtests[executed[o].source]

IInv == /\ TypeOK /\ RunInv /\ HandlerInv /\ QueueInv /\ SubmittedInv
        /\ OutcomeInv /\ NoTaskLost /\ CatalogSound

USE DEF vars, runVars, stateVars, memoryVars, consumerVars, brokerVars

(* A run under way has a task id.                                          *)
LEMMA CurrentTask ==
  ASSUME IInv, NEW o \in Orchestrators, pc[o] # "idle"
  PROVE  TaskOf(o) \in TaskIds
BY PipelineAssumption DEF IInv, TypeOK, RunTypes, RunInv, TaskOf, TaskIds

(* What is taken from the head of a queue, and what remains of it.         *)
LEMMA QueueElements ==
  ASSUME NEW S, NEW q \in Seq(S), q # <<>>
  PROVE  /\ Head(q) \in S
         /\ Head(q) = q[1]
         /\ Tail(q) \in Seq(S)
         /\ Len(q) \in Nat \ {0}
         /\ Len(Tail(q)) = Len(q) - 1
         /\ \A i \in 1..Len(Tail(q)) : Tail(q)[i] = q[i + 1]
         /\ \A x : InQueue(x, q) <=> x = Head(q) \/ InQueue(x, Tail(q))
<1>1. \A x : InQueue(x, q) => x = Head(q) \/ InQueue(x, Tail(q))
  <2> SUFFICES ASSUME NEW i \in 1..Len(q), q[i] # Head(q)
               PROVE  InQueue(q[i], Tail(q))
    BY DEF InQueue
  <2>1. i - 1 \in 1..Len(Tail(q)) /\ Tail(q)[i - 1] = q[i]
    OBVIOUS
  <2> QED  BY <2>1 DEF InQueue
<1>2. \A x : InQueue(x, Tail(q)) => InQueue(x, q)
  <2> SUFFICES ASSUME NEW i \in 1..Len(Tail(q))
               PROVE  InQueue(Tail(q)[i], q)
    BY DEF InQueue
  <2>1. i + 1 \in 1..Len(q) /\ Tail(q)[i] = q[i + 1]
    OBVIOUS
  <2> QED  BY <2>1 DEF InQueue
<1>3. InQueue(Head(q), q)
  BY DEF InQueue
<1> QED  BY <1>1, <1>2, <1>3

(* Publishing adds one element to a queue and keeps its head.              *)
LEMMA QueueAppend ==
  ASSUME NEW S, NEW q \in Seq(S), NEW y \in S
  PROVE  /\ Append(q, y) \in Seq(S)
         /\ Append(q, y) # <<>>
         /\ q # <<>> => Head(Append(q, y)) = Head(q)
         /\ \A x : InQueue(x, Append(q, y)) <=> InQueue(x, q) \/ x = y
<1>1. \A x : InQueue(x, q) => InQueue(x, Append(q, y))
  <2> SUFFICES ASSUME NEW i \in 1..Len(q)
               PROVE  InQueue(q[i], Append(q, y))
    BY DEF InQueue
  <2>1. i \in 1..Len(Append(q, y)) /\ Append(q, y)[i] = q[i]
    OBVIOUS
  <2> QED  BY <2>1 DEF InQueue
<1>2. InQueue(y, Append(q, y))
  <2>1. Len(q) + 1 \in 1..Len(Append(q, y)) /\ Append(q, y)[Len(q) + 1] = y
    OBVIOUS
  <2> QED  BY <2>1 DEF InQueue
<1>3. \A x : InQueue(x, Append(q, y)) => InQueue(x, q) \/ x = y
  BY DEF InQueue
<1> QED  BY <1>1, <1>2, <1>3

(* What an orchestrator does preserves IInv, action by action ...          *)
LEMMA OrchestratorStep ==
  ASSUME IInv, NEW o \in Orchestrators, Orchestrate(o)
  PROVE  IInv'
<1>1. CASE Invoke(o)
  <2> USE <1>1 DEF IInv, TypeOK, Invoke, Goto
  <2>1. pc[o] = "idle" /\ runs[o] \in 0..MaxRuns /\ runs[o] + 1 \in 1..MaxRuns
    BY PipelineAssumption DEF RunTypes
  <2>2. RunTypes'
    <3>1. \E n \in Limits : limit' = [limit EXCEPT ![o] = n]
      OBVIOUS
    <3>2. limit' \in [Orchestrators -> Limits \cup {0}]
      BY <3>1 DEF RunTypes
    <3> QED  BY <2>1, <3>2 DEF RunTypes, Locations
  <2>3. RunInv'
    BY <2>1 DEF RunInv, RunTypes, Working, Judging
  <2>4. SubmittedInv'
    <3> SUFFICES ASSUME NEW s \in submitted', NEW p \in Orchestrators, s.task[1] = p
                 PROVE  /\ s.task[2] <= runs'[p]
                        /\ s.task = TaskOf(p)' => s.iteration <= iteration'[p]
      BY DEF SubmittedInv
    <3>1. /\ s.task[2] \in Nat /\ s.task[2] <= runs[p]
          /\ s.task = TaskOf(p) => s.iteration <= iteration[p]
      BY DEF SubmittedInv, BrokerTypes, Submissions, TaskIds
    <3>2. CASE p = o
      BY <2>1, <3>1, <3>2 DEF RunTypes, TaskOf
    <3>3. CASE p # o
      BY <2>1, <3>1, <3>3 DEF RunTypes, TaskOf
    <3> QED  BY <3>2, <3>3
  <2>5. OutcomeInv'
    BY <2>1 DEF OutcomeInv, RunTypes, Judging, TaskOf
  <2>6. StoreTypes' /\ BrokerTypes' /\ ConsumerTypes'
    BY DEF StoreTypes, BrokerTypes, ConsumerTypes
  <2>7. HandlerInv' /\ QueueInv'
    BY DEF HandlerInv, Genuine, QueueInv
  <2>8. NoTaskLost' /\ CatalogSound'
    BY DEF NoTaskLost, CatalogSound
  <2> QED  BY <2>2, <2>3, <2>4, <2>5, <2>6, <2>7, <2>8
<1>2. CASE Research(o)
  <2> USE <1>2 DEF IInv, TypeOK, Research, Goto
  <2>1. RunTypes' /\ StoreTypes' /\ BrokerTypes' /\ ConsumerTypes'
    BY DEF RunTypes, Locations, StoreTypes, BrokerTypes, ConsumerTypes
  <2>2. RunInv' /\ SubmittedInv' /\ OutcomeInv'
    BY DEF RunInv, RunTypes, Working, Judging, SubmittedInv, TaskOf, OutcomeInv
  <2>3. HandlerInv' /\ QueueInv'
    BY DEF HandlerInv, Genuine, QueueInv
  <2>4. NoTaskLost' /\ CatalogSound'
    BY DEF NoTaskLost, CatalogSound
  <2> QED  BY <2>1, <2>2, <2>3, <2>4
<1>3. CASE Synthesize(o)
  <2> USE <1>3 DEF IInv, TypeOK, Synthesize, Goto
  <2>1. TaskOf(o) \in TaskIds
    BY CurrentTask DEF Goto
  <2>2. RunTypes'
    <3>1. PICK s \in Sources : source' = [source EXCEPT ![o] = s]
      BY DEF Writes
    <3> QED  BY <3>1 DEF RunTypes, Locations
  <2>3. StoreTypes'
    BY <2>1 DEF StoreTypes
  <2>4. RunInv'
    <3>1. PICK s \in Sources : source' = [source EXCEPT ![o] = s]
      BY DEF Writes
    <3> QED  BY <3>1 DEF RunInv, RunTypes, Working, Judging
  <2>5. BrokerTypes' /\ ConsumerTypes'
    BY DEF BrokerTypes, ConsumerTypes
  <2>6. SubmittedInv' /\ OutcomeInv'
    BY DEF SubmittedInv, TaskOf, OutcomeInv, RunTypes, Judging
  <2>7. HandlerInv' /\ QueueInv'
    BY DEF HandlerInv, Genuine, QueueInv
  <2>8. NoTaskLost' /\ CatalogSound'
    BY DEF NoTaskLost, CatalogSound
  <2> QED  BY <2>2, <2>3, <2>4, <2>5, <2>6, <2>7, <2>8
<1>4. CASE ReturnCode(o)
  <2> USE <1>4 DEF IInv, TypeOK, ReturnCode, Goto
  <2>1. TaskOf(o) \in TaskIds
    BY CurrentTask DEF Goto
  <2>2. StoreTypes'
    BY <2>1 DEF StoreTypes
  <2>3. SubmittedInv'
    <3> SUFFICES ASSUME NEW s \in submitted', NEW p \in Orchestrators, s.task[1] = p
                 PROVE  /\ s.task[2] <= runs'[p]
                        /\ s.task = TaskOf(p)' => s.iteration <= iteration'[p]
      BY DEF SubmittedInv
    <3>1. /\ s.iteration \in Nat /\ s.task[2] <= runs[p]
          /\ s.task = TaskOf(p) => s.iteration <= iteration[p]
      BY DEF SubmittedInv, BrokerTypes, Submissions
    <3> QED  BY <3>1 DEF RunTypes, TaskOf
  <2>4. RunTypes' /\ BrokerTypes' /\ ConsumerTypes'
    BY DEF RunTypes, Locations, BrokerTypes, ConsumerTypes
  <2>5. RunInv' /\ OutcomeInv'
    BY DEF RunInv, RunTypes, Working, Judging, OutcomeInv, TaskOf
  <2>6. HandlerInv' /\ QueueInv'
    BY DEF HandlerInv, Genuine, QueueInv
  <2>7. NoTaskLost' /\ CatalogSound'
    BY DEF NoTaskLost, CatalogSound
  <2> QED  BY <2>2, <2>3, <2>4, <2>5, <2>6, <2>7
<1>5. CASE PublishTask(o)
  <2> USE <1>5 DEF IInv, TypeOK, PublishTask, Goto
  <2>1. /\ [task |-> TaskOf(o), iteration |-> iteration[o], source |-> source[o]]
              \in Submissions
        /\ submitted \subseteq submitted'
    <3>1. TaskOf(o) \in TaskIds
      BY CurrentTask
    <3>2. iteration[o] \in Nat /\ source[o] \in Sources
      BY DEF RunTypes, RunInv, Working
    <3> QED  BY <3>1, <3>2 DEF Submissions
  <2>2. BrokerTypes'
    BY <2>1, QueueAppend DEF BrokerTypes
  <2>3. QueueInv'
    BY <2>1, QueueAppend DEF QueueInv, Genuine, BrokerTypes
  <2>4. SubmittedInv'
    <3> DEFINE new == [task |-> TaskOf(o), iteration |-> iteration[o],
                       source |-> source[o]]
    <3> SUFFICES ASSUME NEW s \in submitted', NEW p \in Orchestrators, s.task[1] = p
                 PROVE  /\ s.task[2] <= runs[p]
                        /\ s.task = TaskOf(p) => s.iteration <= iteration[p]
      BY DEF SubmittedInv, TaskOf
    <3>1. CASE s \in submitted
      BY <3>1 DEF SubmittedInv
    <3>2. CASE s = new
      BY <3>2 DEF TaskOf, RunTypes
    <3> QED  BY <3>1, <3>2
  <2>5. NoTaskLost'
    BY <2>1, QueueAppend DEF NoTaskLost, BrokerTypes
  <2>6. RunTypes' /\ StoreTypes' /\ ConsumerTypes'
    BY DEF RunTypes, Locations, StoreTypes, ConsumerTypes
  <2>7. RunInv' /\ OutcomeInv'
    BY DEF RunInv, RunTypes, Working, Judging, OutcomeInv, TaskOf
  <2>8. HandlerInv'
    BY DEF HandlerInv, Genuine
  <2>9. CatalogSound'
    BY DEF CatalogSound
  <2> QED  BY <2>2, <2>3, <2>4, <2>5, <2>6, <2>7, <2>8, <2>9
<1>6. CASE PollResult(o)
  <2> USE <1>6 DEF IInv, TypeOK, PollResult, Goto
  <2>1. /\ Head(resultQueue) \in Replies
        /\ Genuine(Head(resultQueue))
        /\ Head(resultQueue).of \in Submissions
        /\ Head(resultQueue).of # None
        /\ Head(resultQueue).outcome \in Outcomes
        /\ resultQueue' \in Seq(Replies)
        /\ \A x : InQueue(x, resultQueue') => InQueue(x, resultQueue)
    <3>1. resultQueue \in Seq(Replies) /\ resultQueue # <<>>
      BY DEF BrokerTypes
    <3>2. Genuine(Head(resultQueue))
      BY <3>1, QueueElements DEF QueueInv
    <3>3. Head(resultQueue) \in Replies
      BY <3>1, QueueElements
    <3>4. /\ Head(resultQueue).of \in Submissions
          /\ Head(resultQueue).outcome \in Outcomes
      BY <3>3 DEF Replies
    <3>5. /\ resultQueue' \in Seq(Replies)
          /\ \A x : InQueue(x, resultQueue') => InQueue(x, resultQueue)
      BY <3>1, QueueElements
    <3> QED  BY <3>2, <3>3, <3>4, <3>5, PipelineAssumption
  <2>2. RunTypes'
    BY <2>1 DEF RunTypes, Locations
  <2>3. BrokerTypes'
    BY <2>1 DEF BrokerTypes
  <2>4. RunInv'
    BY <2>1 DEF RunInv, RunTypes, Working, Judging
  <2>5. QueueInv'
    BY <2>1 DEF QueueInv, Genuine
  <2>6. OutcomeInv'
    BY <2>1 DEF OutcomeInv, RunTypes, Judging, TaskOf, Genuine, Awaits
  <2>7. StoreTypes' /\ ConsumerTypes'
    BY DEF StoreTypes, ConsumerTypes
  <2>8. SubmittedInv'
    BY DEF SubmittedInv, TaskOf
  <2>9. HandlerInv'
    BY DEF HandlerInv, Genuine
  <2>10. NoTaskLost' /\ CatalogSound'
    BY DEF NoTaskLost, CatalogSound
  <2> QED  BY <2>2, <2>3, <2>4, <2>5, <2>6, <2>7, <2>8, <2>9, <2>10
<1>7. CASE GiveUp(o)
  <2> USE <1>7 DEF IInv, TypeOK, GiveUp, Goto
  <2>1. TaskOf(o) \in TaskIds /\ TimedOut \in Outcomes
    BY CurrentTask DEF Goto, Outcomes, TimedOut, Statuses
  <2>2. RunTypes'
    BY <2>1 DEF RunTypes, Locations
  <2>3. StoreTypes'
    BY <2>1 DEF StoreTypes
  <2>4. RunInv'
    BY <2>1 DEF RunInv, RunTypes, Working, Judging
  <2>5. BrokerTypes' /\ ConsumerTypes'
    BY DEF BrokerTypes, ConsumerTypes
  <2>6. SubmittedInv' /\ OutcomeInv'
    BY DEF SubmittedInv, TaskOf, OutcomeInv, RunTypes, Judging
  <2>7. HandlerInv' /\ QueueInv'
    BY DEF HandlerInv, Genuine, QueueInv
  <2>8. NoTaskLost' /\ CatalogSound'
    BY DEF NoTaskLost, CatalogSound
  <2> QED  BY <2>2, <2>3, <2>4, <2>5, <2>6, <2>7, <2>8
<1>8. CASE CacheEvaluation(o)
  <2> USE <1>8 DEF IInv, TypeOK, CacheEvaluation, Goto
  <2>1. TaskOf(o) \in TaskIds
    BY CurrentTask DEF Goto
  <2>2. StoreTypes'
    BY <2>1 DEF StoreTypes
  <2>3. RunTypes' /\ BrokerTypes' /\ ConsumerTypes'
    BY DEF RunTypes, Locations, BrokerTypes, ConsumerTypes
  <2>4. RunInv' /\ SubmittedInv' /\ OutcomeInv'
    BY DEF RunInv, RunTypes, Working, Judging, SubmittedInv, TaskOf, OutcomeInv
  <2>5. HandlerInv' /\ QueueInv'
    BY DEF HandlerInv, Genuine, QueueInv
  <2>6. NoTaskLost' /\ CatalogSound'
    BY DEF NoTaskLost, CatalogSound
  <2> QED  BY <2>2, <2>3, <2>4, <2>5, <2>6
<1>9. CASE LogEvaluation(o)
  <2> USE <1>9 DEF IInv, TypeOK, LogEvaluation, Goto
  <2>1. TaskOf(o) \in TaskIds
    BY CurrentTask DEF Goto
  <2>2. StoreTypes'
    BY <2>1 DEF StoreTypes
  <2>3. RunTypes' /\ BrokerTypes' /\ ConsumerTypes'
    BY DEF RunTypes, Locations, BrokerTypes, ConsumerTypes
  <2>4. RunInv' /\ SubmittedInv' /\ OutcomeInv'
    BY DEF RunInv, RunTypes, Working, Judging, SubmittedInv, TaskOf, OutcomeInv
  <2>5. HandlerInv' /\ QueueInv'
    BY DEF HandlerInv, Genuine, QueueInv
  <2>6. NoTaskLost' /\ CatalogSound'
    BY DEF NoTaskLost, CatalogSound
  <2> QED  BY <2>2, <2>3, <2>4, <2>5, <2>6
<1>10. CASE ReturnEvaluation(o)
  <2> USE <1>10 DEF IInv, TypeOK, ReturnEvaluation, Goto
  <2>1. Approves(outcome[o]) =>
        /\ outcome[o].metrics \in Metrics
        /\ executed[o] \in submitted
        /\ executed[o].task = TaskOf(o)
        /\ executed[o].iteration <= iteration[o]
        /\ [status |-> "success", metrics |-> outcome[o].metrics]
              \in Backtests[executed[o].source]
    <3> SUFFICES ASSUME Approves(outcome[o])
                 PROVE  /\ outcome[o].metrics \in Metrics
                        /\ executed[o] \in submitted
                        /\ executed[o].task = TaskOf(o)
                        /\ executed[o].iteration <= iteration[o]
                        /\ [status |-> "success", metrics |-> outcome[o].metrics]
                               \in Backtests[executed[o].source]
      OBVIOUS
    <3>1. outcome[o] \in Outcomes
      BY DEF RunInv, Judging
    <3>2. /\ outcome[o] # TimedOut /\ outcome[o].metrics \in Metrics
          /\ outcome[o] = [status |-> "success", metrics |-> outcome[o].metrics]
      BY <3>1 DEF Approves, Outcomes, TimedOut, Statuses
    <3>3. /\ executed[o] \in submitted /\ executed[o].task = TaskOf(o)
          /\ outcome[o] \in Backtests[executed[o].source]
      BY <3>2 DEF OutcomeInv, Judging
    <3>4. executed[o].iteration <= iteration[o]
      BY <3>3 DEF SubmittedInv, TaskOf
    <3> QED  BY <3>2, <3>3, <3>4
  <2>2. RunTypes'
    <3>1. Approves(outcome[o]) \in BOOLEAN
      BY DEF Approves
    <3> QED  BY <3>1 DEF RunTypes, Locations
  <2>3. StoreTypes'
    <3> DEFINE entry == [task |-> TaskOf(o), source |-> source[o],
                         iteration |-> iteration[o], metrics |-> outcome[o].metrics,
                         of |-> executed[o]]
    <3>1. ASSUME Approves(outcome[o]) PROVE entry \in Entries
      <4>1. TaskOf(o) \in TaskIds
        BY CurrentTask
      <4>2. source[o] \in Sources /\ iteration[o] \in Nat
        BY DEF RunInv, RunTypes, Working
      <4> QED  BY <2>1, <3>1, <4>1, <4>2 DEF Entries, BrokerTypes
    <3> QED  BY <3>1 DEF StoreTypes
  <2>4. CatalogSound'
    <3> SUFFICES ASSUME NEW e \in catalog', e \notin catalog
                 PROVE  /\ e.of \in submitted
                        /\ e.of.task = e.task
                        /\ e.of.iteration <= e.iteration
                        /\ [status |-> "success", metrics |-> e.metrics]
                               \in Backtests[e.of.source]
                        /\ e.metrics.drawdown <= MaxDrawdown
                        /\ e.metrics.latency <= MaxLatency
                        /\ e.metrics.sharpe >= MinSharpe
      BY DEF CatalogSound
    <3>1. /\ Approves(outcome[o])
          /\ e = [task |-> TaskOf(o), source |-> source[o],
                  iteration |-> iteration[o], metrics |-> outcome[o].metrics,
                  of |-> executed[o]]
      OBVIOUS
    <3> QED  BY <2>1, <3>1 DEF Approves
  <2>5. BrokerTypes' /\ ConsumerTypes'
    BY DEF BrokerTypes, ConsumerTypes
  <2>6. RunInv' /\ SubmittedInv' /\ OutcomeInv'
    BY DEF RunInv, RunTypes, Working, Judging, SubmittedInv, TaskOf, OutcomeInv
  <2>7. HandlerInv' /\ QueueInv'
    BY DEF HandlerInv, Genuine, QueueInv
  <2>8. NoTaskLost'
    BY DEF NoTaskLost
  <2> QED  BY <2>2, <2>3, <2>4, <2>5, <2>6, <2>7, <2>8
<1>11. CASE Reflect(o)
  <2> USE <1>11 DEF IInv, TypeOK, Reflect, Goto
  <2>1. RunTypes' /\ StoreTypes' /\ BrokerTypes' /\ ConsumerTypes'
    BY DEF RunTypes, Locations, StoreTypes, BrokerTypes, ConsumerTypes
  <2>2. RunInv' /\ SubmittedInv' /\ OutcomeInv'
    BY DEF RunInv, RunTypes, Working, Judging, SubmittedInv, TaskOf, OutcomeInv
  <2>3. HandlerInv' /\ QueueInv'
    BY DEF HandlerInv, Genuine, QueueInv
  <2>4. NoTaskLost' /\ CatalogSound'
    BY DEF NoTaskLost, CatalogSound
  <2> QED  BY <2>1, <2>2, <2>3, <2>4
<1>12. CASE Finish(o)
  <2> USE <1>12 DEF IInv, TypeOK, Finish, Goto
  <2>1. RunTypes' /\ StoreTypes' /\ BrokerTypes' /\ ConsumerTypes'
    BY DEF RunTypes, Locations, StoreTypes, BrokerTypes, ConsumerTypes
  <2>2. RunInv' /\ SubmittedInv' /\ OutcomeInv'
    BY DEF RunInv, RunTypes, Working, Judging, SubmittedInv, TaskOf, OutcomeInv
  <2>3. HandlerInv' /\ QueueInv'
    BY DEF HandlerInv, Genuine, QueueInv
  <2>4. NoTaskLost' /\ CatalogSound'
    BY DEF NoTaskLost, CatalogSound
  <2> QED  BY <2>1, <2>2, <2>3, <2>4
<1>13. CASE Abort(o)
  <2> USE <1>13 DEF IInv, TypeOK, Abort, Goto
  <2>1. RunTypes' /\ StoreTypes' /\ BrokerTypes' /\ ConsumerTypes'
    BY DEF RunTypes, Locations, StoreTypes, BrokerTypes, ConsumerTypes
  <2>2. RunInv' /\ SubmittedInv' /\ OutcomeInv'
    BY DEF RunInv, RunTypes, Working, Judging, SubmittedInv, TaskOf, OutcomeInv
  <2>3. HandlerInv' /\ QueueInv'
    BY DEF HandlerInv, Genuine, QueueInv
  <2>4. NoTaskLost' /\ CatalogSound'
    BY DEF NoTaskLost, CatalogSound
  <2> QED  BY <2>1, <2>2, <2>3, <2>4
<1> QED  BY <1>1, <1>2, <1>3, <1>4, <1>5, <1>6, <1>7, <1>8, <1>9, <1>10, <1>11, <1>12, <1>13
            DEF Orchestrate, Advance, Evaluation

(* ... and so does what a consumer and the broker do.                      *)
LEMMA ConsumerStep ==
  ASSUME IInv, NEW c \in Consumers, Consume(c)
  PROVE  IInv'
(* Requeueing what was delivered makes one queue of two.                   *)
<1>0. ASSUME NEW S, NEW p \in Seq(S), NEW q \in Seq(S)
      PROVE  /\ p \o q \in Seq(S)
             /\ \A x : InQueue(x, p \o q) <=> InQueue(x, p) \/ InQueue(x, q)
  <2> USE <1>0
  <2>1. \A x : InQueue(x, p) => InQueue(x, p \o q)
    <3> SUFFICES ASSUME NEW i \in 1..Len(p)
                 PROVE  InQueue(p[i], p \o q)
      BY DEF InQueue
    <3>1. i \in 1..Len(p \o q) /\ (p \o q)[i] = p[i]
      OBVIOUS
    <3> QED  BY <3>1 DEF InQueue
  <2>2. \A x : InQueue(x, q) => InQueue(x, p \o q)
    <3> SUFFICES ASSUME NEW i \in 1..Len(q)
                 PROVE  InQueue(q[i], p \o q)
      BY DEF InQueue
    <3>1. Len(p) + i \in 1..Len(p \o q) /\ (p \o q)[Len(p) + i] = q[i]
      OBVIOUS
    <3> QED  BY <3>1 DEF InQueue
  <2>3. \A x : InQueue(x, p \o q) => InQueue(x, p) \/ InQueue(x, q)
    <3> SUFFICES ASSUME NEW i \in 1..Len(p \o q), ~InQueue((p \o q)[i], p)
                 PROVE  InQueue((p \o q)[i], q)
      BY DEF InQueue
    <3>1. i \notin 1..Len(p)
      BY DEF InQueue
    <3>2. i - Len(p) \in 1..Len(q) /\ (p \o q)[i] = q[i - Len(p)]
      BY <3>1
    <3> QED  BY <3>2 DEF InQueue
  <2> QED  BY <2>1, <2>2, <2>3
<1>1. CASE Deliver(c)
  <2> USE <1>1 DEF IInv, TypeOK, Deliver, Goto
  <2>1. /\ taskQueue \in Seq(Submissions) /\ taskQueue # <<>>
        /\ held[c] \in Seq(Submissions)
        /\ Head(taskQueue) \in Submissions /\ Head(taskQueue) \in submitted
    BY QueueElements DEF BrokerTypes, ConsumerTypes, QueueInv
  <2>2. BrokerTypes'
    BY <2>1, QueueElements DEF BrokerTypes
  <2>3. ConsumerTypes'
    BY <2>1, QueueAppend DEF ConsumerTypes
  <2>4. HandlerInv'
    <3>1. ASSUME NEW d \in Consumers, held[d] # <<>>
          PROVE  held'[d] # <<>> /\ Head(held'[d]) = Head(held[d])
      <4>1. CASE d = c
        BY <2>1, <3>1, <4>1, QueueAppend DEF ConsumerTypes
      <4>2. CASE d # c
        BY <3>1, <4>2 DEF ConsumerTypes
      <4> QED  BY <4>1, <4>2
    <3> QED  BY <3>1 DEF HandlerInv, Genuine
  <2>5. QueueInv'
    <3>1. \A x : InQueue(x, taskQueue') => x \in submitted
      BY <2>1, QueueElements DEF QueueInv
    <3>2. \A d \in Consumers : \A x : InQueue(x, held'[d]) => x \in submitted
      BY <2>1, QueueAppend DEF QueueInv, ConsumerTypes
    <3> QED  BY <3>1, <3>2 DEF QueueInv, Genuine
  <2>6. NoTaskLost'
    <3>1. \A d \in Consumers : \A x : InQueue(x, held[d]) => InQueue(x, held'[d])
      BY <2>1, QueueAppend DEF ConsumerTypes
    <3>2. \A x : InQueue(x, taskQueue) =>
                  InQueue(x, taskQueue') \/ InQueue(x, held'[c])
      BY <2>1, QueueElements, QueueAppend DEF ConsumerTypes
    <3> QED  BY <3>1, <3>2 DEF NoTaskLost
  <2>7. RunTypes' /\ StoreTypes'
    BY DEF RunTypes, Locations, StoreTypes
  <2>8. RunInv' /\ SubmittedInv' /\ OutcomeInv'
    BY DEF RunInv, RunTypes, Working, Judging, SubmittedInv, TaskOf, OutcomeInv
  <2>9. CatalogSound'
    BY DEF CatalogSound
  <2> QED  BY <2>2, <2>3, <2>4, <2>5, <2>6, <2>7, <2>8, <2>9
<1>2. CASE Execute(c)
  <2> USE <1>2 DEF IInv, TypeOK, Execute, Goto
  <2>1. /\ Head(held[c]) \in submitted /\ Head(held[c]) \in Submissions
        /\ answer'[c] \in Replies /\ Genuine(answer'[c])
        /\ \A d \in Consumers : d # c => answer'[d] = answer[d]
        /\ answer' \in [Consumers -> Replies \cup {None}]
    <3>1. Head(held[c]) \in submitted /\ Head(held[c]) \in Submissions
      BY QueueElements DEF ConsumerTypes, BrokerTypes, QueueInv
    <3>2. PICK out \in Backtests[Head(held[c]).source] :
             answer' = [answer EXCEPT ![c] = [task |-> Head(held[c]).task,
                                              outcome |-> out,
                                              of |-> Head(held[c])]]
      OBVIOUS
    <3>3. out \in Outcomes
      BY <3>1, PipelineAssumption DEF Submissions
    <3>4. answer'[c] = [task |-> Head(held[c]).task, outcome |-> out,
                       of |-> Head(held[c])]
      BY <3>2 DEF ConsumerTypes
    <3>5. answer'[c] \in Replies /\ Genuine(answer'[c])
      BY <3>1, <3>3, <3>4 DEF Replies, Genuine, Submissions
    <3> QED  BY <3>1, <3>2, <3>4, <3>5 DEF ConsumerTypes
  <2>2. ConsumerTypes'
    BY <2>1 DEF ConsumerTypes
  <2>3. HandlerInv'
    BY <2>1 DEF HandlerInv, Genuine, ConsumerTypes
  <2>4. RunTypes' /\ StoreTypes' /\ BrokerTypes'
    BY DEF RunTypes, Locations, StoreTypes, BrokerTypes
  <2>5. RunInv' /\ SubmittedInv' /\ OutcomeInv'
    BY DEF RunInv, RunTypes, Working, Judging, SubmittedInv, TaskOf, OutcomeInv
  <2>6. QueueInv'
    BY DEF QueueInv, Genuine
  <2>7. NoTaskLost' /\ CatalogSound'
    BY DEF NoTaskLost, CatalogSound
  <2> QED  BY <2>2, <2>3, <2>4, <2>5, <2>6, <2>7
<1>3. CASE PublishResult(c)
  <2> USE <1>3 DEF IInv, TypeOK, PublishResult, Goto
  <2>1. /\ answer[c] \in Replies /\ Genuine(answer[c])
        /\ Head(held[c]) \in Submissions
    BY QueueElements DEF HandlerInv, ConsumerTypes
  <2>2. BrokerTypes'
    BY <2>1, QueueAppend DEF BrokerTypes
  <2>3. ConsumerTypes'
    BY <2>1 DEF ConsumerTypes
  <2>4. HandlerInv'
    BY <2>1 DEF HandlerInv, Genuine, ConsumerTypes
  <2>5. QueueInv'
    <3>1. \A r : InQueue(r, resultQueue') => InQueue(r, resultQueue) \/ r = answer[c]
      BY <2>1, QueueAppend DEF BrokerTypes
    <3> QED  BY <2>1, <3>1 DEF QueueInv, Genuine
  <2>6. RunTypes' /\ StoreTypes'
    BY DEF RunTypes, Locations, StoreTypes
  <2>7. RunInv' /\ SubmittedInv' /\ OutcomeInv'
    BY DEF RunInv, RunTypes, Working, Judging, SubmittedInv, TaskOf, OutcomeInv
  <2>8. NoTaskLost' /\ CatalogSound'
    BY DEF NoTaskLost, CatalogSound
  <2> QED  BY <2>2, <2>3, <2>4, <2>5, <2>6, <2>7, <2>8
<1>4. CASE Ack(c)
  <2> USE <1>4 DEF IInv, TypeOK, Ack, Goto
  <2>1. /\ held[c] \in Seq(Submissions) /\ held[c] # <<>>
        /\ Head(held[c]) \in Submissions
        /\ Tail(held[c]) \in Seq(Submissions)
        /\ \A x : InQueue(x, held[c]) <=>
                  x = Head(held[c]) \/ InQueue(x, Tail(held[c]))
    <3>1. held[c] \in Seq(Submissions) /\ held[c] # <<>>
      BY DEF ConsumerTypes, HandlerInv
    <3> QED  BY <3>1, QueueElements
  <2>2. ConsumerTypes'
    BY <2>1 DEF ConsumerTypes
  <2>3. HandlerInv'
    BY DEF HandlerInv, Genuine, ConsumerTypes
  <2>4. QueueInv'
    BY <2>1 DEF QueueInv, Genuine, ConsumerTypes
  <2>5. NoTaskLost'
    <3>1. Head(held[c]) \in answered
      BY DEF HandlerInv
    <3>2. \A d \in Consumers : \A x :
              InQueue(x, held[d]) => InQueue(x, held'[d]) \/ x \in answered
      BY <2>1, <3>1 DEF ConsumerTypes
    <3> QED  BY <3>2 DEF NoTaskLost
  <2>6. RunTypes' /\ StoreTypes' /\ BrokerTypes'
    BY DEF RunTypes, Locations, StoreTypes, BrokerTypes
  <2>7. RunInv' /\ SubmittedInv' /\ OutcomeInv'
    BY DEF RunInv, RunTypes, Working, Judging, SubmittedInv, TaskOf, OutcomeInv
  <2>8. CatalogSound'
    BY DEF CatalogSound
  <2> QED  BY <2>2, <2>3, <2>4, <2>5, <2>6, <2>7, <2>8
<1>5. CASE Nack(c)
  <2> USE <1>5 DEF IInv, TypeOK, Nack, Goto
  <2>1. /\ held[c] \in Seq(Submissions) /\ held[c] # <<>>
        /\ Head(held[c]) \in Submissions
        /\ Tail(held[c]) \in Seq(Submissions)
        /\ \A x : InQueue(x, held[c]) <=>
                  x = Head(held[c]) \/ InQueue(x, Tail(held[c]))
    <3>1. held[c] \in Seq(Submissions) /\ held[c] # <<>>
      BY DEF ConsumerTypes, HandlerInv
    <3> QED  BY <3>1, QueueElements
  <2>2. ConsumerTypes'
    BY <2>1 DEF ConsumerTypes
  <2>3. HandlerInv'
    BY DEF HandlerInv, Genuine, ConsumerTypes
  <2>4. QueueInv'
    BY <2>1 DEF QueueInv, Genuine, ConsumerTypes
  <2>5. NoTaskLost'
    <3>1. \A d \in Consumers : \A x :
              InQueue(x, held[d]) => InQueue(x, held'[d]) \/ x \in dropped'
      BY <2>1 DEF ConsumerTypes
    <3> QED  BY <3>1 DEF NoTaskLost
  <2>6. RunTypes' /\ StoreTypes' /\ BrokerTypes'
    BY DEF RunTypes, Locations, StoreTypes, BrokerTypes
  <2>7. RunInv' /\ SubmittedInv' /\ OutcomeInv'
    BY DEF RunInv, RunTypes, Working, Judging, SubmittedInv, TaskOf, OutcomeInv
  <2>8. CatalogSound'
    BY DEF CatalogSound
  <2> QED  BY <2>2, <2>3, <2>4, <2>5, <2>6, <2>7, <2>8
<1>6. CASE Crash(c)
  <2> USE <1>6 DEF IInv, TypeOK, Crash, Goto
  <2>1. /\ held[c] \in Seq(Submissions)
        /\ taskQueue' \in Seq(Submissions)
        /\ \A x : InQueue(x, taskQueue') <=>
                  InQueue(x, held[c]) \/ InQueue(x, taskQueue)
        /\ <<>> \in Seq(Submissions)
        /\ \A x : ~InQueue(x, held'[c])
        /\ \A d \in Consumers : d # c => held'[d] = held[d]
        /\ UNCHANGED <<resultQueue, submitted, answered, dropped>>
    <3>1. held[c] \in Seq(Submissions) /\ taskQueue \in Seq(Submissions)
      BY DEF ConsumerTypes, BrokerTypes
    <3>2. <<>> \in Seq(Submissions) /\ \A x : ~InQueue(x, <<>>)
      BY DEF InQueue
    <3>3. held'[c] = <<>> /\ \A d \in Consumers : d # c => held'[d] = held[d]
      BY DEF ConsumerTypes
    <3>4. /\ taskQueue' \in Seq(Submissions)
          /\ \A x : InQueue(x, taskQueue') <=>
                     InQueue(x, held[c]) \/ InQueue(x, taskQueue)
      BY <3>1, <1>0
    <3> QED  BY <3>1, <3>2, <3>3, <3>4
  <2>2. BrokerTypes'
    BY <2>1 DEF BrokerTypes
  <2>3. ConsumerTypes'
    BY <2>1, PipelineAssumption DEF ConsumerTypes
  <2>4. HandlerInv'
    BY DEF HandlerInv, Genuine, ConsumerTypes
  <2>5. QueueInv'
    BY <2>1 DEF QueueInv, Genuine
  <2>6. NoTaskLost'
    BY <2>1 DEF NoTaskLost
  <2>7. RunTypes' /\ StoreTypes'
    BY DEF RunTypes, Locations, StoreTypes
  <2>8. RunInv' /\ SubmittedInv' /\ OutcomeInv'
    BY DEF RunInv, RunTypes, Working, Judging, SubmittedInv, TaskOf, OutcomeInv
  <2>9. CatalogSound'
    BY DEF CatalogSound
  <2> QED  BY <2>2, <2>3, <2>4, <2>5, <2>6, <2>7, <2>8, <2>9
<1>7. CASE Restart(c)
  <2> USE <1>7 DEF IInv, TypeOK, Restart, Goto
  <2>1. HandlerInv'
    BY DEF HandlerInv, Genuine, ConsumerTypes
  <2>2. RunTypes' /\ StoreTypes' /\ BrokerTypes' /\ ConsumerTypes'
    BY DEF RunTypes, Locations, StoreTypes, BrokerTypes, ConsumerTypes
  <2>3. RunInv' /\ SubmittedInv' /\ OutcomeInv'
    BY DEF RunInv, RunTypes, Working, Judging, SubmittedInv, TaskOf, OutcomeInv
  <2>4. QueueInv'
    BY DEF QueueInv, Genuine
  <2>5. NoTaskLost' /\ CatalogSound'
    BY DEF NoTaskLost, CatalogSound
  <2> QED  BY <2>1, <2>2, <2>3, <2>4, <2>5
<1> QED  BY <1>1, <1>2, <1>3, <1>4, <1>5, <1>6, <1>7
            DEF Consume, Handle

(* IInv holds throughout: the three properties below are among its parts.  *)
THEOREM Invariance == Safe => []IInv
<1>1. Init => IInv
  <2> SUFFICES ASSUME Init PROVE IInv
    OBVIOUS
  <2> USE PipelineAssumption DEF Init
  <2>1. TypeOK
    BY DEF TypeOK, RunTypes, StoreTypes, BrokerTypes, ConsumerTypes, Locations
  <2>2. RunInv /\ HandlerInv /\ QueueInv /\ SubmittedInv /\ OutcomeInv
    BY DEF RunInv, HandlerInv, QueueInv, SubmittedInv, OutcomeInv, Working, Judging,
           InQueue
  <2>3. NoTaskLost /\ CatalogSound
    BY DEF NoTaskLost, CatalogSound
  <2> QED  BY <2>1, <2>2, <2>3 DEF IInv
(* It is inductive.                                                        *)
<1>2. IInv /\ [Next]_vars => IInv'
  <2> SUFFICES ASSUME IInv, [Next]_vars PROVE IInv'
    OBVIOUS
  <2>1. CASE UNCHANGED vars
    BY <2>1 DEF IInv, TypeOK, RunTypes, StoreTypes, BrokerTypes, ConsumerTypes,
         RunInv, HandlerInv, QueueInv, SubmittedInv, OutcomeInv, NoTaskLost,
         CatalogSound, Genuine, TaskOf
  <2>2. ASSUME NEW o \in Orchestrators, Orchestrate(o) PROVE IInv'
    BY <2>2, OrchestratorStep
  <2>3. ASSUME NEW c \in Consumers, Consume(c) PROVE IInv'
    BY <2>3, ConsumerStep
  <2> QED  BY <2>1, <2>2, <2>3 DEF Next
<1> QED  BY <1>1, <1>2, PTL DEF Safe

(* Whatever the numbers of processes and whichever crash: all variables    *)
(* keep their types; acknowledging after publishing loses no task; and the *)
(* metrics in the catalog pass the KPIs and were measured for a strategy   *)
(* that the run itself submitted, at this iteration or before, whatever    *)
(* replies are late, repeated or taken by other runs.                      *)
THEOREM PipelineSafe ==
  Safe => [](TypeOK /\ NoTaskLost /\ CatalogSound)
<1>1. IInv => TypeOK /\ NoTaskLost /\ CatalogSound
  BY DEF IInv
<1> QED  BY <1>1, Invariance, PTL

(* The control loop: what orchestrator o does is a step of its SwarmGraph, *)
(* and nobody else touches the state of o.                                 *)
LEMMA GraphStep ==
  ASSUME IInv, NEW o \in Orchestrators
  PROVE  /\ Orchestrate(o) => Graph(o)!Next \/ UNCHANGED Graph(o)!vars
         /\ \/ \E p \in Orchestrators \ {o} : Orchestrate(p)
            \/ \E c \in Consumers : Consume(c)
            \/ UNCHANGED vars
            => UNCHANGED Graph(o)!vars
<1>1. ASSUME Orchestrate(o)
      PROVE  Graph(o)!Next \/ UNCHANGED Graph(o)!vars
  <2> USE <1>1
  <2> USE DEF Graph!Next, Graph!Step, Graph!vars, Phase, Goto, IInv, TypeOK, RunTypes
  <2>1. CASE Invoke(o)
    <3>1. PICK n \in Limits : limit' = [limit EXCEPT ![o] = n]
      BY <2>1 DEF Invoke
    <3> QED  BY <2>1, <3>1 DEF Invoke, Graph!Begin
  <2>2. CASE Research(o)
    BY <2>2 DEF Research, Graph!Research
  <2>3. CASE Synthesize(o)
    BY <2>3 DEF Synthesize
  <2>4. CASE ReturnCode(o)
    BY <2>4 DEF ReturnCode, Graph!Code
  <2>5. CASE PublishTask(o) \/ GiveUp(o) \/ CacheEvaluation(o) \/ LogEvaluation(o)
    BY <2>5 DEF PublishTask, GiveUp, CacheEvaluation, LogEvaluation
  <2>6. CASE PollResult(o)
    BY <2>6 DEF PollResult
  <2>7. CASE ReturnEvaluation(o)
    <3>1. Approves(outcome[o]) \in BOOLEAN
      BY DEF Approves
    <3> QED  BY <2>7, <3>1 DEF ReturnEvaluation, Graph!Evaluate
  <2>8. CASE Reflect(o)
    BY <2>8 DEF Reflect, Reflects, Graph!Reflect
  <2>9. CASE Finish(o)
    <3>1. iteration[o] \in Nat /\ limit[o] \in Limits \cup {0}
      OBVIOUS
    <3>2. 0 \in Int /\ Limits \subseteq Int
      BY PipelineAssumption
    <3>3. limit[o] \in Int
      BY <3>1, <3>2
    <3> QED  BY <2>9, <3>1, <3>3 DEF Finish, Reflects, Graph!Finish
  <2>10. CASE Abort(o)
    BY <2>10 DEF Abort, Locations, Graph!Abort
  <2> QED  BY <2>1, <2>2, <2>3, <2>4, <2>5, <2>6, <2>7, <2>8, <2>9, <2>10
              DEF Orchestrate, Advance, Evaluation
<1>2. ASSUME \/ \E p \in Orchestrators \ {o} : Orchestrate(p)
             \/ \E c \in Consumers : Consume(c)
             \/ UNCHANGED vars
      PROVE  UNCHANGED Graph(o)!vars
  <2> USE <1>2
  <2>1. ASSUME NEW p \in Orchestrators \ {o}, Orchestrate(p)
        PROVE  UNCHANGED <<pc[o], iteration[o], limit[o], approved[o], runs[o]>>
    BY <2>1 DEF Orchestrate, Advance, Evaluation, Invoke, Research, Synthesize, ReturnCode,
       PublishTask, PollResult, GiveUp, CacheEvaluation, LogEvaluation,
       ReturnEvaluation, Reflect, Finish, Abort, Goto, IInv, TypeOK, RunTypes
  <2>2. ASSUME NEW c \in Consumers, Consume(c) PROVE UNCHANGED runVars
    BY <2>2 DEF Consume, Handle, Deliver, Execute, PublishResult, Ack, Nack,
       Crash, Restart
  <2> QED  BY <2>1, <2>2 DEF Graph!vars, Phase
<1> QED  BY <1>1, <1>2

(* Every orchestrator implements the SwarmGraph control loop, for any      *)
(* number of them and of consumers.                                        *)
THEOREM Refinement == Safe => ImplementsGraph
<1>1. Init => \A o \in Orchestrators : Graph(o)!Init
  <2> SUFFICES ASSUME Init, NEW o \in Orchestrators
               PROVE  Graph(o)!Init
    OBVIOUS
  <2>1. /\ pc[o] = "idle" /\ iteration[o] = 0 /\ limit[o] = 0
        /\ approved[o] = FALSE /\ runs[o] = 0
    BY DEF Init
  <2>2. Phase(o) = "idle"
    BY <2>1 DEF Phase
  <2> QED  BY <2>1, <2>2 DEF Graph!Init
<1>2. IInv /\ [Next]_vars =>
        [\A o \in Orchestrators : Graph(o)!Next \/ UNCHANGED Graph(o)!vars]_vars
  BY GraphStep DEF Next
<1> QED  BY <1>1, <1>2, Invariance, PTL DEF Safe, ImplementsGraph

(* The loop is bounded.  Inductive with the fact that an iteration is left *)
(* whenever the coder is still to run.                                     *)
Bound(o) == IF limit[o] > 1 THEN limit[o] ELSE 1

LoopInv == \A o \in Orchestrators :
    /\ iteration[o] <= Bound(o)
    /\ Phase(o) \in {"researcher", "coder"} => iteration[o] < Bound(o)

(* A run codes at most max_iterations strategies, whatever results arrive. *)
THEOREM Bounded == Safe => []LoopBounded
<1>1. Init => LoopInv
  <2> SUFFICES ASSUME Init, NEW o \in Orchestrators
               PROVE  iteration[o] <= Bound(o) /\ iteration[o] < Bound(o)
    BY DEF LoopInv
  <2>1. iteration[o] = 0 /\ limit[o] = 0
    BY DEF Init
  <2> QED  BY <2>1 DEF Bound
<1>2. LoopInv => LoopBounded
  BY DEF LoopInv, LoopBounded, Bound, Graph!IterationBound
<1>3. IInv /\ IInv' /\ LoopInv /\ [Next]_vars => LoopInv'
  <2> SUFFICES ASSUME IInv, IInv', LoopInv, [Next]_vars, NEW o \in Orchestrators
               PROVE  /\ iteration'[o] <= Bound(o)'
                      /\ Phase(o)' \in {"researcher", "coder"} => iteration'[o] < Bound(o)'
    BY DEF LoopInv
  <2>2. Graph(o)!Next \/ UNCHANGED Graph(o)!vars
    BY GraphStep DEF Next
  <2>3. /\ iteration[o] \in Int /\ limit[o] \in Int
        /\ iteration'[o] \in Int /\ limit'[o] \in Int
    <3>1. 0 \in Int /\ Limits \subseteq Int
      BY PipelineAssumption
    <3>2. /\ iteration[o] \in Nat /\ limit[o] \in Limits \cup {0}
          /\ iteration'[o] \in Nat /\ limit'[o] \in Limits \cup {0}
      BY DEF IInv, TypeOK, RunTypes
    <3>3. limit[o] \in Int
      BY <3>1, <3>2
    <3>4. limit'[o] \in Int
      BY <3>1, <3>2
    <3> QED  BY <3>2, <3>3, <3>4
  <2>4. /\ iteration[o] <= Bound(o)
        /\ Phase(o) \in {"researcher", "coder"} => iteration[o] < Bound(o)
    BY DEF LoopInv
  <2>5. CASE Graph(o)!Begin
    BY <2>3, <2>5 DEF Graph!Begin, Bound
  <2>6. CASE Graph(o)!Code
    BY <2>3, <2>4, <2>6 DEF Graph!Code, Bound
  <2>7. CASE Graph(o)!Reflect
    BY <2>3, <2>7 DEF Graph!Reflect, Bound
  <2>8. CASE \/ Graph(o)!Research \/ Graph(o)!Evaluate \/ Graph(o)!Finish
             \/ Graph(o)!Abort \/ UNCHANGED Graph(o)!vars
    BY <2>3, <2>4, <2>8
       DEF Graph!Research, Graph!Evaluate, Graph!Finish, Graph!Abort, Graph!vars, Bound
  <2> QED  BY <2>2, <2>5, <2>6, <2>7, <2>8 DEF Graph!Next, Graph!Step
<1> QED  BY <1>1, <1>2, <1>3, Invariance, PTL DEF Safe

(* A run that is approved is at its end: the coder and the evaluator never *)
(* run in an approved run.                                                 *)
ApprovedInv == \A o \in Orchestrators :
    approved[o] => Phase(o) \in {"edge", "idle"}

(* Once a strategy of a run is approved, the run codes nothing more.       *)
THEOREM ApprovalEnds == Safe => ApprovalEndsRun
<1>1. Init => ApprovedInv
  BY DEF Init, ApprovedInv
<1>2. IInv /\ ApprovedInv /\ [Next]_vars =>
        [\A o \in Orchestrators : Graph(o)!ApprovalKept]_vars
  <2> SUFFICES ASSUME IInv, ApprovedInv, [Next]_vars, NEW o \in Orchestrators
               PROVE  Graph(o)!ApprovalKept
    OBVIOUS
  <2>1. Graph(o)!Next \/ UNCHANGED Graph(o)!vars
    BY GraphStep DEF Next
  <2>2. approved[o] => Phase(o) \in {"edge", "idle"}
    BY DEF ApprovedInv
  <2>3. runs[o] \in Nat
    BY PipelineAssumption DEF IInv, TypeOK, RunTypes
  <2>4. ~(Graph(o)!Begin /\ runs'[o] = runs[o])
    BY <2>3 DEF Graph!Begin
  <2> QED  BY <2>1, <2>2, <2>4 DEF Graph!Next, Graph!Step, Graph!Research, Graph!Code,
     Graph!Evaluate, Graph!Reflect, Graph!Finish, Graph!Abort, Graph!vars,
     Graph!ApprovalKept
<1>3. IInv /\ ApprovedInv /\ [Next]_vars => ApprovedInv'
  <2> SUFFICES ASSUME IInv, ApprovedInv, [Next]_vars, NEW o \in Orchestrators,
                      approved'[o]
               PROVE  Phase(o)' \in {"edge", "idle"}
    BY DEF ApprovedInv
  <2>1. Graph(o)!Next \/ UNCHANGED Graph(o)!vars
    BY GraphStep DEF Next
  <2>2. approved[o] => Phase(o) \in {"edge", "idle"}
    BY DEF ApprovedInv
  <2> QED  BY <2>1, <2>2 DEF Graph!Next, Graph!Step, Graph!Begin, Graph!Research, Graph!Code,
       Graph!Evaluate, Graph!Reflect, Graph!Finish, Graph!Abort, Graph!vars
<1> QED  BY <1>1, <1>2, <1>3, Invariance, PTL DEF Safe, ApprovalEndsRun

(* One entry per run.  Not inductive: an entry of the current run is there *)
(* only once the run has been approved, and none is there for a later run. *)
EntryInv == \A e \in catalog, o \in Orchestrators :
    e.task[1] = o => /\ e.task[2] <= runs[o]
                     /\ e.task = TaskOf(o) => \/ pc[o] = "idle"
                                              \/ pc[o] = "edge" /\ approved[o] = TRUE

(* A run catalogs at most one strategy.                                    *)
THEOREM OneEntry == Safe => []OneEntryPerRun
<1>1. Init => EntryInv /\ OneEntryPerRun
  BY DEF Init, EntryInv, OneEntryPerRun
<1>2. IInv /\ IInv' /\ EntryInv /\ OneEntryPerRun /\ [Next]_vars
        => EntryInv' /\ OneEntryPerRun'
  <2> SUFFICES ASSUME IInv, IInv', EntryInv, OneEntryPerRun, [Next]_vars
               PROVE  EntryInv' /\ OneEntryPerRun'
    OBVIOUS
  <2> USE DEF IInv, TypeOK, RunTypes, Goto
  <2>1. CASE UNCHANGED vars \/ \E c \in Consumers : Consume(c)
    <3>1. UNCHANGED runVars
      BY <2>1 DEF Consume, Handle, Deliver, Execute, PublishResult, Ack, Nack,
         Crash, Restart
    <3> QED  BY <3>1 DEF EntryInv, OneEntryPerRun, TaskOf
  <2>2. ASSUME NEW p \in Orchestrators, Orchestrate(p), UNCHANGED catalog
        PROVE  EntryInv' /\ OneEntryPerRun'
    <3>1. OneEntryPerRun'
      BY <2>2 DEF OneEntryPerRun
    <3>2. ASSUME NEW e \in catalog, NEW o \in Orchestrators, e.task[1] = o
          PROVE  /\ e.task[2] <= runs'[o]
                 /\ e.task = TaskOf(o)' => \/ pc'[o] = "idle"
                                           \/ pc'[o] = "edge" /\ approved'[o] = TRUE
      <4>1. /\ e.task[2] \in Nat /\ e.task[2] <= runs[o] /\ runs[o] \in Nat
            /\ e.task = TaskOf(o) => \/ pc[o] = "idle"
                                     \/ pc[o] = "edge" /\ approved[o] = TRUE
        <5>1. e.task \in TaskIds
          BY <3>2 DEF StoreTypes, Entries
        <5>2. e.task[2] \in Nat /\ runs[o] \in Nat
          BY <5>1, PipelineAssumption DEF TaskIds
        <5>3. /\ e.task[2] <= runs[o]
              /\ e.task = TaskOf(o) => \/ pc[o] = "idle"
                                       \/ pc[o] = "edge" /\ approved[o] = TRUE
          BY <3>2 DEF EntryInv
        <5> QED  BY <5>2, <5>3
      <4>2. CASE p # o
        <5>1. UNCHANGED <<pc[o], approved[o], runs[o]>>
          BY <2>2, <4>2 DEF Orchestrate, Advance, Evaluation, Invoke, Research, Synthesize,
             ReturnCode, PublishTask, PollResult, GiveUp, CacheEvaluation,
             LogEvaluation, ReturnEvaluation, Reflect, Finish, Abort
        <5> QED  BY <4>1, <5>1 DEF TaskOf
      <4>3. CASE p = o /\ Invoke(o)
        <5>1. runs'[o] = runs[o] + 1
          BY <4>3 DEF Invoke
        <5> QED  BY <4>1, <5>1 DEF TaskOf
      <4>4. CASE p = o /\ ~Invoke(o)
        <5>1. /\ runs'[o] = runs[o]
              /\ pc[o] # "idle"
              /\ pc[o] = "edge" /\ approved[o] = TRUE => pc'[o] = "idle"
          BY <2>2, <4>4 DEF Locations, Orchestrate, Advance, Evaluation, Research, Synthesize,
             ReturnCode, PublishTask, PollResult, GiveUp, CacheEvaluation,
             LogEvaluation, ReturnEvaluation, Reflect, Reflects, Finish, Abort
        <5> QED  BY <4>1, <5>1 DEF TaskOf
      <4> QED  BY <4>2, <4>3, <4>4
    <3>3. EntryInv'
      BY <2>2, <3>2 DEF EntryInv
    <3> QED  BY <3>1, <3>3
  <2>3. ASSUME NEW p \in Orchestrators, Orchestrate(p), catalog' # catalog
        PROVE  EntryInv' /\ OneEntryPerRun'
    <3>1. ReturnEvaluation(p)
      BY <2>3 DEF Orchestrate, Advance, Evaluation, Invoke, Research, Synthesize,
         ReturnCode, PublishTask, PollResult, GiveUp, CacheEvaluation,
         LogEvaluation, Reflect, Finish, Abort
    <3> DEFINE entry == [task |-> TaskOf(p), source |-> source[p],
                         iteration |-> iteration[p], metrics |-> outcome[p].metrics,
                         of |-> executed[p]]
    <3>2. catalog' = catalog \cup {entry} /\ entry.task = TaskOf(p)
      BY <2>3, <3>1 DEF ReturnEvaluation
    <3> HIDE DEF entry
    <3>3. /\ pc[p] = "logged" /\ pc'[p] = "edge" /\ approved'[p] = TRUE
          /\ runs' = runs
          /\ \A o \in Orchestrators \ {p} : UNCHANGED <<pc[o], approved[o]>>
      <4>1. approved' = [approved EXCEPT ![p] = Approves(outcome[p])]
        BY <3>1 DEF ReturnEvaluation
      <4>2. Approves(outcome[p])
        BY <2>3, <3>1 DEF ReturnEvaluation
      <4>3. approved'[p] = TRUE
        BY <4>1, <4>2, Zenon
      <4>4. \A o \in Orchestrators \ {p} : approved'[o] = approved[o]
        BY <4>1
      <4> QED  BY <3>1, <4>3, <4>4 DEF ReturnEvaluation
    <3>4. \A e \in catalog : e.task # TaskOf(p)
      BY <3>3 DEF EntryInv, TaskOf
    <3>5. OneEntryPerRun'
      BY <3>2, <3>4 DEF OneEntryPerRun
    <3>6. EntryInv'
      BY <3>2, <3>3 DEF EntryInv, TaskOf
    <3> QED  BY <3>5, <3>6
  <2> QED  BY <2>1, <2>2, <2>3 DEF Next
<1> QED  BY <1>1, <1>2, Invariance, PTL DEF Safe

(* The two memories.  For a run under way, what they hold follows from its *)
(* iteration and its place in the loop; for runs to come they are empty.   *)
CachedAt(o) == IF pc[o] \in {"evaluator", "wait", "evaluate"}
                 THEN 2 * iteration[o] - 1 ELSE 2 * iteration[o]
LoggedAt(o) == CASE pc[o] = "coded" -> 2 * iteration[o] + 1
                 [] pc[o] \in {"evaluator", "wait", "evaluate", "cached"} -> 2 * iteration[o] - 1
                 [] OTHER -> 2 * iteration[o]

MemoryInv ==
    /\ \A o \in Orchestrators : pc[o] # "idle" =>
           cached[TaskOf(o)] = CachedAt(o) /\ logged[TaskOf(o)] = LoggedAt(o)
    /\ \A t \in TaskIds : t[2] > runs[t[1]] => cached[t] = 0 /\ logged[t] = 0
    /\ \A t \in TaskIds : cached[t] - logged[t] \in -1..1

(* Cache and log tell the same history, for any runs, aborts included.     *)
THEOREM MemoriesAgreeAlways == Safe => []MemoriesAgree
<1>1. Init => MemoryInv
  BY DEF Init, MemoryInv, TaskIds
<1>2. IInv /\ MemoryInv => MemoriesAgree
  BY DEF MemoryInv, MemoriesAgree, CachedAt, LoggedAt
<1>3. IInv /\ MemoryInv /\ [Next]_vars => MemoryInv'
  <2> SUFFICES ASSUME IInv, MemoryInv, [Next]_vars
               PROVE  MemoryInv'
    OBVIOUS
  <2> USE DEF IInv, TypeOK, RunTypes, Goto
  <2>1. CASE UNCHANGED vars \/ \E c \in Consumers : Consume(c)
    <3>1. UNCHANGED runVars
      BY <2>1 DEF Consume, Handle, Deliver, Execute, PublishResult, Ack, Nack,
         Crash, Restart
    <3> QED  BY <3>1 DEF MemoryInv, CachedAt, LoggedAt, TaskOf
  <2>2. ASSUME NEW p \in Orchestrators, Orchestrate(p)
        PROVE  MemoryInv'
    <3> USE <2>2
    <3>1. /\ runs[p] \in Nat /\ iteration[p] \in Nat
          /\ cached \in [TaskIds -> Nat] /\ logged \in [TaskIds -> Nat]
          /\ pc[p] # "idle" => TaskOf(p) \in TaskIds
      BY PipelineAssumption, CurrentTask DEF StoreTypes
    <3>2. \A o \in Orchestrators \ {p} :
              UNCHANGED <<pc[o], iteration[o], runs[o], TaskOf(o)>>
      BY DEF Orchestrate, Advance, Evaluation, Invoke, Research, Synthesize, ReturnCode,
         PublishTask, PollResult, GiveUp, CacheEvaluation, LogEvaluation,
         ReturnEvaluation, Reflect, Finish, Abort, TaskOf
    <3>3. CASE Invoke(p)
      <4>1. /\ pc'[p] = "researcher" /\ iteration'[p] = 0 /\ runs'[p] = runs[p] + 1
            /\ runs'[p] \in 1..MaxRuns /\ UNCHANGED <<cached, logged>>
            /\ \A o \in Orchestrators : /\ runs[o] \in Nat /\ runs'[o] \in Nat
                                        /\ runs'[o] >= runs[o]
        BY <3>1, <3>3, PipelineAssumption DEF Invoke
      <4>2. /\ TaskOf(p)' \in TaskIds
            /\ cached[TaskOf(p)'] = 0 /\ logged[TaskOf(p)'] = 0
        <5>1. TaskOf(p)' = <<p, runs[p] + 1>> /\ <<p, runs[p] + 1>> \in TaskIds
          BY <4>1 DEF TaskOf, TaskIds
        <5>2. <<p, runs[p] + 1>>[1] = p /\ <<p, runs[p] + 1>>[2] > runs[p]
          BY <3>1
        <5> QED  BY <5>1, <5>2 DEF MemoryInv
      <4>3. \A t \in TaskIds : t[1] \in Orchestrators /\ t[2] \in Nat
        BY PipelineAssumption DEF TaskIds
      <4>4. \A t \in TaskIds : t[2] > runs'[t[1]] => cached[t] = 0 /\ logged[t] = 0
        <5> SUFFICES ASSUME NEW t \in TaskIds, t[2] > runs'[t[1]]
                     PROVE  t[2] > runs[t[1]]
          BY DEF MemoryInv
        <5>1. runs[t[1]] \in Nat /\ runs'[t[1]] \in Nat
          BY <4>1, <4>3
        <5> QED  BY <4>1, <4>3, <5>1
      <4>5. ASSUME NEW o \in Orchestrators, pc'[o] # "idle"
            PROVE  cached'[TaskOf(o)'] = CachedAt(o)' /\ logged'[TaskOf(o)'] = LoggedAt(o)'
        <5>1. CASE o = p
          BY <4>1, <4>2, <5>1 DEF CachedAt, LoggedAt
        <5>2. CASE o # p
          BY <3>2, <4>1, <4>5, <5>2 DEF MemoryInv, CachedAt, LoggedAt
        <5> QED  BY <5>1, <5>2
      <4> QED  BY <4>1, <4>4, <4>5 DEF MemoryInv
    <3>4. CASE ~Invoke(p)
      <4>1. pc[p] # "idle" /\ UNCHANGED runs
        BY <3>4 DEF Orchestrate, Advance, Evaluation, Research, Synthesize, ReturnCode,
           PublishTask, PollResult, GiveUp, CacheEvaluation, LogEvaluation,
           ReturnEvaluation, Reflect, Finish, Abort
      <4>2. /\ TaskOf(p) \in TaskIds /\ TaskOf(p)' = TaskOf(p)
            /\ cached[TaskOf(p)] = CachedAt(p) /\ logged[TaskOf(p)] = LoggedAt(p)
        BY <3>1, <4>1 DEF MemoryInv, TaskOf
      <4>3. /\ pc'[p] # "idle" => /\ cached'[TaskOf(p)] = CachedAt(p)'
                                  /\ logged'[TaskOf(p)] = LoggedAt(p)'
            /\ pc'[p] = "idle" => UNCHANGED <<cached, logged>>
            /\ iteration'[p] \in Nat
            /\ \A t \in TaskIds : t # TaskOf(p) => /\ cached'[t] = cached[t]
                                                   /\ logged'[t] = logged[t]
        <5>1. CASE Synthesize(p)
          BY <3>1, <4>2, <5>1 DEF Synthesize, CachedAt, LoggedAt
        <5>2. CASE ReturnCode(p)
          BY <3>1, <4>2, <5>2 DEF ReturnCode, CachedAt, LoggedAt
        <5>3. CASE CacheEvaluation(p)
          BY <3>1, <4>2, <5>3 DEF CacheEvaluation, CachedAt, LoggedAt
        <5>4. CASE LogEvaluation(p)
          BY <3>1, <4>2, <5>4 DEF LogEvaluation, CachedAt, LoggedAt
        <5>5. CASE Research(p) \/ ReturnEvaluation(p) \/ Reflect(p) \/ Finish(p) \/ Abort(p)
          BY <3>1, <4>2, <5>5
             DEF Research, ReturnEvaluation, Reflect, Finish, Abort, CachedAt, LoggedAt
        <5>6. CASE PublishTask(p) \/ PollResult(p) \/ GiveUp(p)
          BY <3>1, <4>2, <5>6 DEF PublishTask, PollResult, GiveUp, CachedAt, LoggedAt
        <5> QED  BY <3>4, <5>1, <5>2, <5>3, <5>4, <5>5, <5>6
                    DEF Orchestrate, Advance, Evaluation
      <4>4. ASSUME NEW o \in Orchestrators, pc'[o] # "idle"
            PROVE  cached'[TaskOf(o)'] = CachedAt(o)' /\ logged'[TaskOf(o)'] = LoggedAt(o)'
        <5>1. CASE o = p
          BY <4>2, <4>3, <4>4, <5>1
        <5>2. CASE o # p
          <6>1. TaskOf(o)' = TaskOf(o) /\ pc[o] # "idle" /\ TaskOf(o) # TaskOf(p)
            BY <3>2, <4>4, <5>2 DEF TaskOf
          <6>2. TaskOf(o) \in TaskIds
            BY <6>1, CurrentTask
          <6> QED  BY <3>2, <4>3, <5>2, <6>1, <6>2 DEF MemoryInv, CachedAt, LoggedAt
        <5> QED  BY <5>1, <5>2
      <4>5. ASSUME NEW t \in TaskIds, t[2] > runs[t[1]]
            PROVE  cached'[t] = 0 /\ logged'[t] = 0
        <5>1. t # TaskOf(p)
          BY <3>1, <4>5 DEF TaskOf
        <5> QED  BY <4>3, <4>5, <5>1 DEF MemoryInv
      <4>6. ASSUME NEW t \in TaskIds
            PROVE  cached'[t] - logged'[t] \in -1..1
        <5>1. CASE t = TaskOf(p) /\ pc'[p] # "idle"
          BY <4>3, <5>1 DEF CachedAt, LoggedAt
        <5>2. CASE t # TaskOf(p) \/ pc'[p] = "idle"
          BY <4>3, <5>2 DEF MemoryInv
        <5> QED  BY <5>1, <5>2
      <4> QED  BY <4>1, <4>4, <4>5, <4>6 DEF MemoryInv
    <3> QED  BY <3>3, <3>4
  <2> QED  BY <2>1, <2>2 DEF Next
<1> QED  BY <1>1, <1>2, <1>3, Invariance, PTL DEF Safe

(* The copies of a task on their way to an answer, or to the run: in the   *)
(* queue, with a consumer that has not answered it, and in the results.    *)
InTasks(t, i)    == i \in 1..Len(taskQueue) /\ taskQueue[i].task = t
InHands(t, c, i) == /\ i \in 1..Len(held[c]) /\ held[c][i].task = t
                    /\ stage[c] = "published" => i # 1
InResults(t, i)  == i \in 1..Len(resultQueue) /\ resultQueue[i].task = t

AtMostOneCopy(t) ==
    /\ \A i, j \in Nat : InTasks(t, i) /\ InTasks(t, j) => i = j
    /\ \A c, d \in Consumers, i, j \in Nat :
           InHands(t, c, i) /\ InHands(t, d, j) => c = d /\ i = j
    /\ \A i, j \in Nat : InResults(t, i) /\ InResults(t, j) => i = j
    /\ \A i, j \in Nat : ~(InTasks(t, i) /\ InResults(t, j))
    /\ \A c \in Consumers, i, j \in Nat : ~(InHands(t, c, i) /\ InTasks(t, j))
    /\ \A c \in Consumers, i, j \in Nat : ~(InHands(t, c, i) /\ InResults(t, j))

CopiesAreOf(t, n) ==
    /\ \A i \in Nat : InTasks(t, i) => taskQueue[i].iteration = n
    /\ \A c \in Consumers, i \in Nat : InHands(t, c, i) => held[c][i].iteration = n
    /\ \A i \in Nat : InResults(t, i) => resultQueue[i].of.iteration = n

NoCopy(t) ==
    /\ \A i \in Nat : ~InTasks(t, i)
    /\ \A c \in Consumers, i \in Nat : ~InHands(t, c, i)
    /\ \A i \in Nat : ~InResults(t, i)

AnswerInv == \A c \in Consumers : stage[c] = "ran" => answer[c].of = Head(held[c])

(* As long as no consumer has crashed and a run has not given up, there is *)
(* one copy of its task while it waits, of its iteration, and none while   *)
(* it does anything else.                                                  *)
CurrentInv ==
    \A o \in Orchestrators, t \in TaskIds, n \in Nat :
        t = TaskOf(o) /\ n = iteration[o] /\ pc[o] # "idle" /\ t \notin late =>
            /\ AtMostOneCopy(t)
            /\ CopiesAreOf(t, n)
            /\ pc[o] # "wait" => NoCopy(t)
            /\ pc[o] \in Judging \cup {"edge"} /\ executed[o] # None =>
                   executed[o].iteration = n

FreshInv == crashes = 0 => AnswerInv /\ CurrentInv

(* Consumers move the copies of a task and add none, unless they crash.    *)
LEMMA CopiesMove ==
  ASSUME IInv, AnswerInv, NEW c \in Consumers, Consume(c), ~Crash(c), NEW t
  PROVE  /\ AnswerInv'
         /\ AtMostOneCopy(t) => AtMostOneCopy(t)'
         /\ \A n : CopiesAreOf(t, n) => CopiesAreOf(t, n)'
         /\ NoCopy(t) => NoCopy(t)'
<1>1. /\ taskQueue \in Seq(Submissions) /\ resultQueue \in Seq(Replies)
      /\ held \in [Consumers -> Seq(Submissions)]
      /\ DOMAIN stage = Consumers /\ DOMAIN answer = Consumers
      /\ stage[c] \in {"ran", "published"} => held[c] # <<>> /\ Genuine(answer[c])
  BY DEF IInv, TypeOK, BrokerTypes, ConsumerTypes, HandlerInv
<1>2. CASE Deliver(c)
  <2>1. \A i \in Nat : InTasks(t, i)' =>
            /\ InTasks(t, i + 1) /\ i # 0
            /\ taskQueue'[i] = taskQueue[i + 1]
    BY <1>1, <1>2 DEF Deliver, InTasks
  <2>2. /\ held'[c] = Append(held[c], Head(taskQueue))
        /\ \A d \in Consumers : d # c => held'[d] = held[d]
        /\ UNCHANGED <<stage, answer, resultQueue>>
        /\ held[c] # <<>> => Head(held'[c]) = Head(held[c])
    BY <1>1, <1>2 DEF Deliver
  <2>3. \A d \in Consumers, i \in Nat : InHands(t, d, i)' =>
            \/ InHands(t, d, i) /\ held'[d][i] = held[d][i]
            \/ /\ d = c /\ i = Len(held[c]) + 1
               /\ InTasks(t, 1) /\ held'[d][i] = taskQueue[1]
    BY <1>1, <1>2, <2>2 DEF Deliver, InHands, InTasks
  <2>4. \A i \in Nat : InResults(t, i)' => InResults(t, i)
    BY <2>2 DEF InResults
  <2>5. AnswerInv'
    BY <1>1, <2>2 DEF AnswerInv, Deliver
  <2>6. ASSUME AtMostOneCopy(t) PROVE AtMostOneCopy(t)'
    <3>1. \A i, j \in Nat : InTasks(t, i)' /\ InTasks(t, j)' => i = j
      BY <2>1, <2>6 DEF AtMostOneCopy
    <3>2. \A d, e \in Consumers, i, j \in Nat :
              InHands(t, d, i)' /\ InHands(t, e, j)' => d = e /\ i = j
      BY <2>3, <2>6 DEF AtMostOneCopy
    <3>3. \A d \in Consumers, i, j \in Nat : ~(InHands(t, d, i)' /\ InTasks(t, j)')
      BY <2>1, <2>3, <2>6 DEF AtMostOneCopy
    <3>4. /\ \A i, j \in Nat : InResults(t, i)' /\ InResults(t, j)' => i = j
          /\ \A i, j \in Nat : ~(InTasks(t, i)' /\ InResults(t, j)')
          /\ \A d \in Consumers, i, j \in Nat : ~(InHands(t, d, i)' /\ InResults(t, j)')
      BY <2>1, <2>3, <2>4, <2>6 DEF AtMostOneCopy
    <3> QED  BY <3>1, <3>2, <3>3, <3>4 DEF AtMostOneCopy
  <2>7. ASSUME NEW n, CopiesAreOf(t, n) PROVE CopiesAreOf(t, n)'
    <3>1. \A i \in Nat : InTasks(t, i)' => taskQueue'[i].iteration = n
      BY <2>1, <2>7 DEF CopiesAreOf
    <3>2. \A d \in Consumers, i \in Nat : InHands(t, d, i)' => held'[d][i].iteration = n
      BY <2>3, <2>7 DEF CopiesAreOf
    <3>3. \A i \in Nat : InResults(t, i)' => resultQueue'[i].of.iteration = n
      BY <2>2, <2>4, <2>7 DEF CopiesAreOf
    <3> QED  BY <3>1, <3>2, <3>3 DEF CopiesAreOf
  <2>8. ASSUME NoCopy(t) PROVE NoCopy(t)'
    BY <2>1, <2>3, <2>4, <2>8 DEF NoCopy
  <2> QED  BY <2>5, <2>6, <2>7, <2>8
<1>3. CASE Execute(c)
  <2>1. PICK out : answer' = [answer EXCEPT ![c] = [task |-> Head(held[c]).task,
                                                   outcome |-> out, of |-> Head(held[c])]]
    BY <1>3 DEF Execute
  <2>2. AnswerInv'
    BY <1>1, <1>3, <2>1 DEF Execute, AnswerInv
  <2>3. /\ \A i \in Nat : InTasks(t, i)' => InTasks(t, i)
        /\ \A d \in Consumers, i \in Nat : InHands(t, d, i)' => InHands(t, d, i)
        /\ \A i \in Nat : InResults(t, i)' => InResults(t, i)
        /\ UNCHANGED <<taskQueue, held, resultQueue>>
    BY <1>1, <1>3 DEF Execute, InTasks, InHands, InResults
  <2>4. ASSUME AtMostOneCopy(t) PROVE AtMostOneCopy(t)'
    BY <2>3, <2>4 DEF AtMostOneCopy
  <2>5. ASSUME NEW n, CopiesAreOf(t, n) PROVE CopiesAreOf(t, n)'
    BY <2>3, <2>5 DEF CopiesAreOf
  <2>6. ASSUME NoCopy(t) PROVE NoCopy(t)'
    BY <2>3, <2>6 DEF NoCopy
  <2> QED  BY <2>2, <2>4, <2>5, <2>6
<1>4. CASE PublishResult(c)
  <2>1. /\ resultQueue' = Append(resultQueue, answer[c])
        /\ answer[c].of = held[c][1] /\ answer[c].task = held[c][1].task
        /\ held[c] # <<>> /\ answer[c] \in Replies
    BY <1>1, <1>4 DEF PublishResult, Genuine, AnswerInv, IInv, HandlerInv
  <2>2. \A i \in Nat : InResults(t, i)' =>
            \/ InResults(t, i) /\ resultQueue'[i] = resultQueue[i]
            \/ /\ i = Len(resultQueue) + 1 /\ InHands(t, c, 1)
               /\ resultQueue'[i].of = held[c][1]
    BY <1>1, <1>4, <2>1 DEF PublishResult, InResults, InHands
  <2>3. \A d \in Consumers, i \in Nat : InHands(t, d, i)' =>
            InHands(t, d, i) /\ ~(d = c /\ i = 1)
    BY <1>1, <1>4 DEF PublishResult, InHands
  <2>4. /\ \A i \in Nat : InTasks(t, i)' => InTasks(t, i)
        /\ UNCHANGED <<taskQueue, held>>
    BY <1>4 DEF PublishResult, InTasks
  <2>5. AnswerInv'
    BY <1>4 DEF AnswerInv, PublishResult
  <2>6. ASSUME AtMostOneCopy(t) PROVE AtMostOneCopy(t)'
    BY <2>2, <2>3, <2>4, <2>6 DEF AtMostOneCopy
  <2>7. ASSUME NEW n, CopiesAreOf(t, n) PROVE CopiesAreOf(t, n)'
    BY <2>2, <2>3, <2>4, <2>7 DEF CopiesAreOf
  <2>8. ASSUME NoCopy(t) PROVE NoCopy(t)'
    BY <2>2, <2>3, <2>4, <2>8 DEF NoCopy
  <2> QED  BY <2>5, <2>6, <2>7, <2>8
<1>5. CASE Ack(c) \/ Nack(c)
  <2>1. /\ held[c] # <<>> /\ held'[c] = Tail(held[c]) /\ stage'[c] = "idle"
        /\ \A d \in Consumers : d # c => /\ held'[d] = held[d] /\ stage'[d] = stage[d]
                                        /\ answer'[d] = answer[d]
        /\ UNCHANGED <<taskQueue, resultQueue>>
    BY <1>1, <1>5 DEF Ack, Nack
  <2>2. \A d \in Consumers, i \in Nat : InHands(t, d, i)' =>
            \/ d # c /\ InHands(t, d, i) /\ held'[d][i] = held[d][i]
            \/ d = c /\ InHands(t, d, i + 1) /\ held'[d][i] = held[d][i + 1]
    <3> SUFFICES ASSUME NEW d \in Consumers, NEW i \in Nat, InHands(t, d, i)'
                 PROVE  \/ d # c /\ InHands(t, d, i) /\ held'[d][i] = held[d][i]
                        \/ d = c /\ InHands(t, d, i + 1) /\ held'[d][i] = held[d][i + 1]
      OBVIOUS
    <3>1. CASE d # c
      BY <2>1, <3>1 DEF InHands
    <3>2. CASE d = c
      <4>1. /\ held[c] \in Seq(Submissions) /\ i \in 1..Len(Tail(held[c]))
            /\ Tail(held[c])[i].task = t
        BY <1>1, <2>1, <3>2 DEF InHands
      <4>2. /\ i + 1 \in 1..Len(held[c]) /\ i + 1 # 1
            /\ Tail(held[c])[i] = held[c][i + 1]
        BY <2>1, <4>1
      <4> QED  BY <2>1, <3>2, <4>1, <4>2 DEF InHands
    <3> QED  BY <3>1, <3>2
  <2>3. /\ \A i \in Nat : InTasks(t, i)' => InTasks(t, i)
        /\ \A i \in Nat : InResults(t, i)' => InResults(t, i)
        /\ UNCHANGED <<taskQueue, resultQueue>>
    BY <2>1 DEF InTasks, InResults
  <2>4. AnswerInv'
    BY <1>1, <2>1 DEF AnswerInv
  <2>5. ASSUME AtMostOneCopy(t) PROVE AtMostOneCopy(t)'
    <3>1. \A d, e \in Consumers, i, j \in Nat :
              InHands(t, d, i)' /\ InHands(t, e, j)' => d = e /\ i = j
      BY <2>2, <2>5 DEF AtMostOneCopy
    <3>2. \A d \in Consumers, i, j \in Nat : /\ ~(InHands(t, d, i)' /\ InTasks(t, j)')
                                             /\ ~(InHands(t, d, i)' /\ InResults(t, j)')
      BY <2>2, <2>3, <2>5 DEF AtMostOneCopy
    <3> QED  BY <2>3, <2>5, <3>1, <3>2 DEF AtMostOneCopy
  <2>6. ASSUME NEW n, CopiesAreOf(t, n) PROVE CopiesAreOf(t, n)'
    <3>1. \A d \in Consumers, i \in Nat : InHands(t, d, i)' => held'[d][i].iteration = n
      BY <2>2, <2>6 DEF CopiesAreOf
    <3> QED  BY <2>3, <2>6, <3>1 DEF CopiesAreOf
  <2>7. ASSUME NoCopy(t) PROVE NoCopy(t)'
    BY <2>2, <2>3, <2>7 DEF NoCopy
  <2> QED  BY <2>4, <2>5, <2>6, <2>7
<1>6. CASE Restart(c)
  <2>1. /\ \A i \in Nat : InTasks(t, i)' => InTasks(t, i)
        /\ \A d \in Consumers, i \in Nat : InHands(t, d, i)' => InHands(t, d, i)
        /\ \A i \in Nat : InResults(t, i)' => InResults(t, i)
        /\ UNCHANGED <<taskQueue, held, resultQueue>>
    BY <1>1, <1>6 DEF Restart, InTasks, InHands, InResults
  <2>2. AnswerInv'
    BY <1>1, <1>6 DEF Restart, AnswerInv
  <2>3. ASSUME AtMostOneCopy(t) PROVE AtMostOneCopy(t)'
    BY <2>1, <2>3 DEF AtMostOneCopy
  <2>4. ASSUME NEW n, CopiesAreOf(t, n) PROVE CopiesAreOf(t, n)'
    BY <2>1, <2>4 DEF CopiesAreOf
  <2>5. ASSUME NoCopy(t) PROVE NoCopy(t)'
    BY <2>1, <2>5 DEF NoCopy
  <2> QED  BY <2>2, <2>3, <2>4, <2>5
<1> QED  BY <1>2, <1>3, <1>4, <1>5, <1>6 DEF Consume, Handle

(* What the steps of CurrentInv need of an orchestrator's step: it adds no *)
(* copy of a task but the one it publishes.                                *)
LEMMA CopiesStay ==
  ASSUME IInv, NEW o \in Orchestrators, Orchestrate(o),
         NEW t, t # TaskOf(o) \/ ~PublishTask(o)
  PROVE  /\ AtMostOneCopy(t) => AtMostOneCopy(t)'
         /\ \A n : CopiesAreOf(t, n) => CopiesAreOf(t, n)'
         /\ NoCopy(t) => NoCopy(t)'
<1>1. taskQueue \in Seq(Submissions) /\ resultQueue \in Seq(Replies)
  BY DEF IInv, TypeOK, BrokerTypes
<1>2. UNCHANGED consumerVars
  BY DEF Orchestrate, Advance, Evaluation, Invoke, Research, Synthesize, ReturnCode,
     PublishTask, PollResult, GiveUp, CacheEvaluation, LogEvaluation,
     ReturnEvaluation, Reflect, Finish, Abort
<1>3. /\ \A c \in Consumers, i \in Nat : InHands(t, c, i)' => InHands(t, c, i)
      /\ UNCHANGED held
  BY <1>2 DEF InHands
<1>4. \A i \in Nat : InTasks(t, i)' => InTasks(t, i) /\ taskQueue'[i] = taskQueue[i]
  <2>1. CASE PublishTask(o)
    BY <1>1, <2>1 DEF PublishTask, InTasks
  <2>2. CASE UNCHANGED taskQueue
    BY <2>2 DEF InTasks
  <2>3. PublishTask(o) \/ UNCHANGED taskQueue
    BY DEF Orchestrate, Advance, Evaluation, Invoke, Research, Synthesize, ReturnCode,
       PollResult, GiveUp, CacheEvaluation, LogEvaluation, ReturnEvaluation,
       Reflect, Finish, Abort
  <2> QED  BY <2>1, <2>2, <2>3
<1>5. \/ \A i \in Nat : InResults(t, i)' => /\ InResults(t, i)
                                           /\ resultQueue'[i] = resultQueue[i]
      \/ \A i \in Nat : InResults(t, i)' => /\ InResults(t, i + 1)
                                           /\ resultQueue'[i] = resultQueue[i + 1]
  <2>1. CASE PollResult(o)
    BY <1>1, <2>1 DEF PollResult, InResults
  <2>2. CASE UNCHANGED resultQueue
    BY <2>2 DEF InResults
  <2>3. PollResult(o) \/ UNCHANGED resultQueue
    BY DEF Orchestrate, Advance, Evaluation, Invoke, Research, Synthesize, ReturnCode,
       PublishTask, GiveUp, CacheEvaluation, LogEvaluation, ReturnEvaluation,
       Reflect, Finish, Abort
  <2> QED  BY <2>1, <2>2, <2>3
<1>6. ASSUME AtMostOneCopy(t) PROVE AtMostOneCopy(t)'
  BY <1>3, <1>4, <1>5, <1>6 DEF AtMostOneCopy
<1>7. ASSUME NEW n, CopiesAreOf(t, n) PROVE CopiesAreOf(t, n)'
  BY <1>3, <1>4, <1>5, <1>7 DEF CopiesAreOf
<1>8. ASSUME NoCopy(t) PROVE NoCopy(t)'
  BY <1>3, <1>4, <1>5, <1>8 DEF NoCopy
<1> QED  BY <1>6, <1>7, <1>8

(* The own task of the orchestrator that moves, action by action.          *)
LEMMA OwnCopy ==
  ASSUME IInv, CurrentInv, NEW o \in Orchestrators, Orchestrate(o),
         pc'[o] # "idle", NEW t, NEW n, t = TaskOf(o)', n = iteration'[o], t \notin late'
  PROVE  /\ AtMostOneCopy(t)' /\ CopiesAreOf(t, n)'
         /\ pc'[o] # "wait" => NoCopy(t)'
         /\ pc'[o] \in Judging \cup {"edge"} /\ executed'[o] # None =>
                executed'[o].iteration = n
<1> USE DEF Judging
<1>1. /\ pc \in [Orchestrators -> Locations] /\ runs \in [Orchestrators -> 0..MaxRuns]
      /\ iteration \in [Orchestrators -> Nat] /\ DOMAIN executed = Orchestrators
      /\ taskQueue \in Seq(Submissions) /\ resultQueue \in Seq(Replies)
      /\ held \in [Consumers -> Seq(Submissions)] /\ submitted \subseteq Submissions
  BY DEF IInv, TypeOK, RunTypes, BrokerTypes, ConsumerTypes
<1>2. ASSUME NEW u, NoCopy(u) PROVE AtMostOneCopy(u) /\ \A m : CopiesAreOf(u, m)
  BY <1>2 DEF NoCopy, AtMostOneCopy, CopiesAreOf
<1>3. ASSUME NEW u, NoCopy(u)' PROVE AtMostOneCopy(u)' /\ \A m : CopiesAreOf(u, m)'
  BY <1>3 DEF NoCopy, AtMostOneCopy, CopiesAreOf
<1>4. CASE Invoke(o)
  <2>1. /\ t = <<o, runs[o] + 1>> /\ pc'[o] = "researcher" /\ executed'[o] = None
        /\ UNCHANGED <<taskQueue, resultQueue, held, stage>>
    BY <1>1, <1>4 DEF Invoke, Goto, TaskOf
  <2>2. \A s \in submitted : s.task # <<o, runs[o] + 1>>
    <3> SUFFICES ASSUME NEW s \in submitted, s.task = <<o, runs[o] + 1>> PROVE FALSE
      OBVIOUS
    <3>1. s.task[1] = o /\ s.task[2] = runs[o] + 1
      OBVIOUS
    <3>2. s.task[2] <= runs[o]
      BY <3>1 DEF IInv, SubmittedInv
    <3>3. runs[o] \in Int
      BY <1>1, PipelineAssumption
    <3> QED  BY <3>1, <3>2, <3>3
  <2>3. NoCopy(t)'
    BY <1>1, <2>1, <2>2 DEF NoCopy, InTasks, InHands, InResults, IInv, QueueInv,
       InQueue, Genuine
  <2> QED  BY <1>3, <2>1, <2>3
<1>5. CASE ~Invoke(o)
  <2>1. /\ pc[o] # "idle" /\ UNCHANGED runs /\ late \subseteq late'
    BY <1>5 DEF Orchestrate, Advance, Evaluation, Research, Synthesize, ReturnCode,
       PublishTask, PollResult, GiveUp, CacheEvaluation, LogEvaluation,
       ReturnEvaluation, Reflect, Finish, Abort, Goto
  <2>2. /\ t \in TaskIds /\ TaskOf(o) = t /\ t \notin late
    BY <2>1, CurrentTask DEF TaskOf
  <2>3. PICK m : /\ m = iteration[o] /\ AtMostOneCopy(t) /\ CopiesAreOf(t, m)
                 /\ pc[o] # "wait" => NoCopy(t)
                 /\ pc[o] \in Judging \cup {"edge"} /\ executed[o] # None =>
                        executed[o].iteration = m
    BY <1>1, <2>1, <2>2 DEF CurrentInv
  <2>4. CASE PublishTask(o)
    <3> DEFINE s == [task |-> t, iteration |-> n, source |-> source[o]]
    <3>1. /\ NoCopy(t) /\ pc'[o] = "wait" /\ iteration[o] = n /\ s.iteration = n
          /\ taskQueue' = Append(taskQueue, s) /\ UNCHANGED <<resultQueue, held, stage>>
      BY <1>1, <2>2, <2>3, <2>4 DEF PublishTask, Goto
    <3>2. \A i \in Nat : /\ InTasks(t, i)' => i = Len(taskQueue) + 1 /\ taskQueue'[i] = s
                         /\ ~InResults(t, i)'
                         /\ \A c \in Consumers : ~InHands(t, c, i)'
      BY <1>1, <3>1 DEF NoCopy, InTasks, InResults, InHands
    <3>3. AtMostOneCopy(t)'
      BY <3>2 DEF AtMostOneCopy
    <3>4. CopiesAreOf(t, n)'
      BY <3>1, <3>2 DEF CopiesAreOf
    <3> QED  BY <2>2, <3>1, <3>3, <3>4
  <2>5. CASE PollResult(o) /\ Awaits(o, Head(resultQueue))
    <3>1. /\ resultQueue # <<>> /\ resultQueue' = Tail(resultQueue)
          /\ resultQueue[1].task = t /\ executed'[o] = resultQueue[1].of
          /\ iteration[o] = n /\ pc'[o] = "evaluate"
          /\ UNCHANGED <<taskQueue, held, stage>>
      BY <1>1, <2>2, <2>5 DEF PollResult, Awaits
    <3>2. InResults(t, 1)
      BY <1>1, <3>1 DEF InResults
    <3>3. resultQueue[1].of.iteration = n
      BY <2>3, <3>1, <3>2 DEF CopiesAreOf
    <3>4. \A i \in Nat : ~InTasks(t, i) /\ \A c \in Consumers : ~InHands(t, c, i)
      BY <2>3, <3>2 DEF AtMostOneCopy
    <3>5. \A i \in Nat : InTasks(t, i)' => InTasks(t, i)
      BY <3>1 DEF InTasks
    <3>6. \A c \in Consumers, i \in Nat : InHands(t, c, i)' => InHands(t, c, i)
      BY <3>1 DEF InHands
    <3>7. \A i \in Nat : InResults(t, i)' => InResults(t, i + 1) /\ i # 0
      BY <1>1, <3>1 DEF InResults
    <3>8. \A i \in Nat : ~InResults(t, i)'
      BY <2>3, <3>2, <3>7 DEF AtMostOneCopy
    <3>9. NoCopy(t)'
      BY <3>4, <3>5, <3>6, <3>8 DEF NoCopy
    <3> QED  BY <1>3, <2>2, <3>1, <3>3, <3>9
  <2>6. CASE ~PublishTask(o) /\ ~(PollResult(o) /\ Awaits(o, Head(resultQueue)))
    <3>1. AtMostOneCopy(t)' /\ CopiesAreOf(t, m)' /\ (NoCopy(t) => NoCopy(t)')
      BY <2>3, <2>6, CopiesStay
    <3>2. ~GiveUp(o) /\ ~Finish(o) /\ ~Abort(o)
      BY <1>1, <2>2 DEF GiveUp, Finish, Abort, Goto
    <3>3. CASE ReturnCode(o)
      <4>1. pc[o] = "coded" /\ pc'[o] = "evaluator"
        BY <1>1, <3>3 DEF ReturnCode, Goto
      <4> QED  BY <1>3, <2>2, <2>3, <3>1, <4>1
    <3>4. CASE PollResult(o)
      BY <2>2, <2>3, <2>6, <3>1, <3>4 DEF PollResult
    <3>5. CASE \/ Research(o) \/ Synthesize(o) \/ Evaluation(o) \/ Reflect(o)
      <4>1. /\ UNCHANGED <<iteration, executed>> /\ pc[o] # "wait" /\ pc'[o] # "wait"
            /\ pc'[o] \in Judging \cup {"edge"} => pc[o] \in Judging \cup {"edge"}
        BY <1>1, <3>5 DEF Research, Synthesize, Evaluation, CacheEvaluation,
           LogEvaluation, ReturnEvaluation, Reflect, Goto
      <4> QED  BY <2>2, <2>3, <3>1, <4>1
    <3> QED  BY <1>5, <2>6, <3>2, <3>3, <3>4, <3>5 DEF Orchestrate, Advance
  <2> QED  BY <2>4, <2>5, <2>6
<1> QED  BY <1>4, <1>5

(* A run evaluates the outcome of the strategy it has just submitted, as   *)
(* long as it never gave up waiting and no consumer crashed, whatever the  *)
(* interleaving of any number of runs and consumers.                       *)
THEOREM FreshUnlessLateAlways == Safe => []FreshUnlessLate
<1>1. Init => FreshInv
  BY DEF Init, FreshInv, AnswerInv, CurrentInv
<1>2. IInv /\ FreshInv => FreshUnlessLate
  <2> SUFFICES ASSUME IInv, FreshInv, NEW o \in Orchestrators,
                      pc[o] \in {"evaluate", "cached", "logged", "edge"},
                      executed[o] # None, TaskOf(o) \notin late, ~(crashes > 0)
               PROVE  executed[o].iteration = iteration[o]
    BY DEF FreshUnlessLate
  <2>1. crashes = 0 /\ iteration[o] \in Nat
    BY PipelineAssumption DEF IInv, TypeOK, ConsumerTypes, RunTypes
  <2>2. TaskOf(o) \in TaskIds
    BY CurrentTask
  <2> QED  BY <2>1, <2>2 DEF FreshInv, CurrentInv, Judging
<1>3. IInv /\ FreshInv /\ [Next]_vars => FreshInv'
  <2> SUFFICES ASSUME IInv, FreshInv, [Next]_vars
               PROVE  FreshInv'
    OBVIOUS
  <2> SUFFICES ASSUME crashes' = 0 PROVE AnswerInv' /\ CurrentInv'
    BY DEF FreshInv
  <2>1. CASE UNCHANGED vars
    BY <2>1 DEF FreshInv, AnswerInv, CurrentInv, AtMostOneCopy, CopiesAreOf, NoCopy,
       InTasks, InHands, InResults, TaskOf
  <2>2. ASSUME NEW c \in Consumers, Consume(c) PROVE AnswerInv' /\ CurrentInv'
    <3>1. ~Crash(c) /\ crashes = 0
      BY <2>2 DEF Consume, Handle, Deliver, Execute, PublishResult, Ack, Nack, Crash,
         Restart, IInv, TypeOK, ConsumerTypes
    <3>2. UNCHANGED runVars
      BY <2>2 DEF Consume, Handle, Deliver, Execute, PublishResult, Ack, Nack, Crash,
         Restart
    <3>3. ASSUME NEW t
          PROVE  /\ AnswerInv'
                 /\ AtMostOneCopy(t) => AtMostOneCopy(t)'
                 /\ \A n : CopiesAreOf(t, n) => CopiesAreOf(t, n)'
                 /\ NoCopy(t) => NoCopy(t)'
      <4>1. AnswerInv
        BY <3>1 DEF FreshInv
      <4> QED  BY <2>2, <3>1, <4>1, CopiesMove
    <3> QED  BY <3>1, <3>2, <3>3 DEF FreshInv, CurrentInv, TaskOf
  <2>3. ASSUME NEW p \in Orchestrators, Orchestrate(p) PROVE AnswerInv' /\ CurrentInv'
    <3>1. UNCHANGED consumerVars /\ late \subseteq late'
      BY <2>3 DEF Orchestrate, Advance, Evaluation, Invoke, Research, Synthesize,
         ReturnCode, PublishTask, PollResult, GiveUp, CacheEvaluation, LogEvaluation,
         ReturnEvaluation, Reflect, Finish, Abort
    <3>2. AnswerInv /\ CurrentInv
      BY <3>1 DEF FreshInv
    <3>3. AnswerInv'
      BY <3>1, <3>2 DEF AnswerInv
    <3>4. \A o \in Orchestrators : o # p =>
              /\ pc'[o] = pc[o] /\ TaskOf(o)' = TaskOf(o) /\ TaskOf(o) # TaskOf(p)
              /\ iteration'[o] = iteration[o] /\ executed'[o] = executed[o]
      BY <2>3 DEF IInv, TypeOK, RunTypes, TaskOf, Orchestrate, Advance, Evaluation,
         Invoke, Research, Synthesize, ReturnCode, PublishTask, PollResult, GiveUp,
         CacheEvaluation, LogEvaluation, ReturnEvaluation, Reflect, Finish, Abort, Goto
    <3>5. ASSUME NEW o \in Orchestrators, NEW t \in TaskIds, NEW n \in Nat,
                 t = TaskOf(o)', n = iteration'[o], pc'[o] # "idle", t \notin late'
          PROVE  /\ AtMostOneCopy(t)' /\ CopiesAreOf(t, n)'
                 /\ pc'[o] # "wait" => NoCopy(t)'
                 /\ pc'[o] \in Judging \cup {"edge"} /\ executed'[o] # None =>
                        executed'[o].iteration = n
      <4>1. CASE o = p
        BY <2>3, <3>2, <3>5, <4>1, OwnCopy
      <4>2. CASE o # p
        <5>1. /\ t = TaskOf(o) /\ n = iteration[o] /\ pc[o] # "idle" /\ t \notin late
              /\ t # TaskOf(p)
          BY <3>1, <3>4, <3>5, <4>2
        <5>2. /\ AtMostOneCopy(t) /\ CopiesAreOf(t, n)
              /\ pc[o] # "wait" => NoCopy(t)
              /\ pc[o] \in Judging \cup {"edge"} /\ executed[o] # None =>
                     executed[o].iteration = n
          BY <3>2, <5>1 DEF CurrentInv
        <5>3. AtMostOneCopy(t)' /\ CopiesAreOf(t, n)' /\ (NoCopy(t) => NoCopy(t)')
          BY <2>3, <5>1, <5>2, CopiesStay
        <5> QED  BY <3>4, <4>2, <5>2, <5>3
      <4> QED  BY <4>1, <4>2
    <3>6. CurrentInv'
      BY <3>5 DEF CurrentInv
    <3> QED  BY <3>3, <3>6
  <2> QED  BY <2>1, <2>2, <2>3 DEF Next
<1> QED  BY <1>1, <1>2, <1>3, Invariance, PTL DEF Safe

=============================================================================
