------------------------- MODULE BatchWorkerProofs --------------------------
(***************************************************************************)
(* Theorems about the batch pipeline, for every number of workers, inputs  *)
(* and post actions and for all options, replies and errors.               *)
(***************************************************************************)
EXTENDS BatchWorker, TLAPS, SequenceTheorems

\* checkError returns an error value again.
LEMMA CheckErrorType ==
    ASSUME NEW err \in Error
    PROVE  CheckError(err) \in Error
BY DEF CheckError, CheckPostCommandError, Error, Kinds, NoError, Err,
       ExitNotFound404, ExitUserError

\* The constants that the program writes into error variables are errors.
LEMMA ErrorConstants == NoError \in Error /\ AbortAction \in Error
BY DEF NoError, AbortAction, Err, Error, Kinds

\* A worker's new state and a result built from typed parts are typed.
LEMMA WorkerStateType ==
    ASSUME NEW pc \in {"idle", "request", "action", "send", "done"},
           NEW job \in 0..NumInputs, NEW err \in Error, NEW action \in Nat
    PROVE  At(pc, job, err, action) \in WorkerState
BY DEF At, WorkerState

LEMMA ResultType ==
    ASSUME NEW job \in Jobs, NEW err \in Error
    PROVE  [job |-> job, err |-> err] \in Result
BY DEF Result

\* The only element of a sequence belongs to the sequence's element set.
LEMMA SoleElement ==
    ASSUME NEW S, NEW seq \in Seq(S), Len(seq) = 1
    PROVE  seq[1] \in S
<1>1. 1 \in 1..Len(seq)
  OBVIOUS
<1> QED
  BY <1>1, ElementOfSeq

\* The initial state satisfies the inductive invariant.
LEMMA InitIInv == Init => IInv
<1> SUFFICES ASSUME Init PROVE IInv
  OBVIOUS
<1>1. TypeOK
  <2>1. At("idle", 0, NoError, 0) \in WorkerState
    BY WorkerStateType, ErrorConstants, SizeAssumption
  <2>2. worker \in [Workers -> WorkerState]
    BY <2>1 DEF Init
  <2>3. jobs \in Seq(Jobs) /\ results \in Seq(Result) /\ totalErrors \in Seq(Error)
    BY DEF Init
  <2>4. status \in [Jobs -> Statuses] /\ answers \in [Jobs -> Answers]
    BY DEF Init, Statuses, Answers
  <2>5. pendingErr \in Error /\ received \in Error
    BY ErrorConstants DEF Init
  <2>6. jobID \in 0..NumInputs /\ jobInputErrors \in Nat /\ exitCode \in Nat
    BY SizeAssumption DEF Init, ExitOK
  <2>7. reply \in Answers /\ producer \in ProducerStates
    BY DEF Init, Answers, ProducerStates
  <2>8. opts \in BatchOptions /\ collected \subseteq Jobs
    BY DEF Init
  <2>9. skipConfirm \in BOOLEAN /\ jobsClosed \in BOOLEAN /\ resultsClosed \in BOOLEAN
    BY Zenon DEF Init
  <2>10. promptWG \in Nat /\ promptCount \in Int /\ wasCancelled \in Nat
    BY DEF Init
  <2>11. /\ closer \in {"wait", "close", "done"}
        /\ collector \in {"receive", "handle", "abortClose", "promptDone", "returned"}
        /\ process \in {"running", "exited", "crashed"}
    BY DEF Init
  <2> QED
    BY <2>2, <2>3, <2>4, <2>5, <2>6, <2>7, <2>8, <2>9, <2>10, <2>11
       DEF TypeOK
<1>2. HeldJobs
  BY DEF Init, At, HeldJobs
<1>3. PromptBalance
  BY DEF Init, PromptBalance
<1>4. CloseOrder
  BY DEF Init, At, CloseOrder
<1> QED
  BY <1>1, <1>2, <1>3, <1>4 DEF IInv

\* The two ways a request or an action can end keep the types.
LEMMA RequestStepType ==
    ASSUME TypeOK, NEW w \in Workers, NEW done \in Nat,
           NextAction(w, done) \/ \E e \in RequestErrors : FinishJob(w, e)
    PROVE  worker' \in [Workers -> WorkerState] /\ status' \in [Jobs -> Statuses]
<1>1. worker[w].job \in 0..NumInputs
  BY DEF TypeOK, WorkerState
<1>2. \A e \in Error : At("send", worker[w].job, e, 0) \in WorkerState
  BY <1>1, WorkerStateType
<1>3. At("action", worker[w].job, NoError, done) \in WorkerState
  BY <1>1, WorkerStateType, ErrorConstants
<1>4. ASSUME NEW e \in Error, FinishJob(w, e)
      PROVE  worker' \in [Workers -> WorkerState] /\ status' \in [Jobs -> Statuses]
  BY <1>2, <1>4 DEF TypeOK, FinishJob, Outcome, Statuses
<1>5. RequestErrors \subseteq Error
  BY DataAssumption
<1> QED
  BY <1>3, <1>4, <1>5, ErrorConstants DEF TypeOK, NextAction

\* Every step of the program keeps the types.
LEMMA TypeStep ==
    ASSUME TypeOK, HeldJobs, PromptBalance, Next
    PROVE  TypeOK'
<1> USE DEF TypeOK
<1>1. CASE GetNext
  <2>1. jobID' \in 0..NumInputs /\ jobInputErrors' \in Nat
    BY <1>1, SizeAssumption DEF GetNext, InputExhausted
  <2>2. pendingErr' \in Error
    BY <1>1, DataAssumption DEF GetNext
  <2>3. producer' \in ProducerStates
    BY <1>1 DEF GetNext, ProducerStates, NeedsConfirm
  <2>4. status' \in [Jobs -> Statuses]
    BY <1>1 DEF GetNext, Statuses, Outcome
  <2> QED
    BY <1>1, <2>1, <2>2, <2>3, <2>4 DEF GetNext,
       jobsVars, resultsVars, promptVars, collectorVars, processVars
<1>2. CASE SendInputError
  <2>1. [job |-> jobID, err |-> pendingErr] \in Result
    BY <1>2, ResultType DEF SendInputError, HeldJobs
  <2>2. Append(results, [job |-> jobID, err |-> pendingErr]) \in Seq(Result)
    BY <2>1, AppendProperties
  <2>3. results' \in Seq(Result)
    BY <1>2, <2>2 DEF SendInputError, SendResult
  <2>4. producer' \in ProducerStates
    BY <1>2 DEF SendInputError, SendResult, ProducerStates
  <2>5. process' \in {"running", "exited", "crashed"} /\ exitCode' \in Nat
    BY <1>2 DEF SendInputError, SendResult, Panic, ExitPanic, processVars
  <2> QED
    BY <1>2, <2>3, <2>4, <2>5 DEF SendInputError, jobsVars, promptVars, collectorVars, historyVars
<1>3. CASE PromptWait
  BY <1>3 DEF PromptWait, ProducerStates,
       jobsVars, resultsVars, promptVars, collectorVars, processVars, historyVars
<1>4. CASE Prompt
  BY <1>4, ErrorConstants DEF Prompt, ConfirmResult, ProducerStates, Statuses, Answers,
       jobsVars, resultsVars, promptVars, collectorVars, processVars
<1>5. CASE SendDeclined
  <2>1. [job |-> jobID, err |-> pendingErr] \in Result
    BY <1>5, ResultType DEF SendDeclined, HeldJobs
  <2>2. Append(results, [job |-> jobID, err |-> pendingErr]) \in Seq(Result)
    BY <2>1, AppendProperties
  <2>3. results' \in Seq(Result)
    BY <1>5, <2>2 DEF SendDeclined, SendResult
  <2>4. producer' \in ProducerStates
    BY <1>5 DEF SendDeclined, AfterDecline, SendResult, ProducerStates
  <2>5. process' \in {"running", "exited", "crashed"} /\ exitCode' \in Nat
    BY <1>5 DEF SendDeclined, SendResult, Panic, ExitPanic, processVars
  <2> QED
    BY <1>5, <2>3, <2>4, <2>5 DEF SendDeclined, jobsVars, promptVars, collectorVars, historyVars
<1>6. CASE PromptAdd
  BY <1>6 DEF PromptAdd, ProducerStates,
       jobsVars, resultsVars, collectorVars, processVars, historyVars
<1>7. CASE PromptCount
  BY <1>7 DEF PromptCount, ProducerStates,
       jobsVars, resultsVars, collectorVars, processVars, historyVars
<1>8. CASE SendJob
  BY <1>8 DEF SendJob, HeldJobs, ProducerStates, Statuses,
       resultsVars, promptVars, collectorVars, processVars
<1>9. CASE CloseJobs
  BY <1>9 DEF CloseJobs, ProducerStates,
       resultsVars, promptVars, collectorVars, processVars, historyVars
<1>10. ASSUME NEW w \in Workers, TakeJob(w) PROVE TypeOK'
  <2>1. worker' \in [Workers -> WorkerState]
    <3>1. CASE jobs # <<>>
      <4>1. Head(jobs) \in Jobs
        BY <3>1
      <4>2. At("request", Head(jobs), NoError, 0) \in WorkerState
        BY <4>1, WorkerStateType, ErrorConstants, SizeAssumption DEF Jobs
      <4> QED
        BY <1>10, <3>1, <4>2 DEF TakeJob, JobsDrained
    <3>2. CASE jobs = <<>>
      <4>1. At("done", 0, NoError, 0) \in WorkerState
        BY WorkerStateType, ErrorConstants, SizeAssumption
      <4> QED
        BY <1>10, <3>2, <4>1 DEF TakeJob
    <3> QED
      BY <3>1, <3>2
  <2>2. jobs' \in Seq(Jobs)
    <3>1. jobs \in Seq(Jobs)
      OBVIOUS
    <3>2. jobs # <<>> => Tail(jobs) \in Seq(Jobs)
      BY <3>1, HeadTailProperties
    <3> QED
      BY <1>10, <3>1, <3>2 DEF TakeJob
  <2>3. status' \in [Jobs -> Statuses]
    BY <1>10 DEF TakeJob, Statuses
  <2> QED
    BY <1>10, <2>1, <2>2, <2>3 DEF TakeJob, producerVars,
       resultsVars, promptVars, collectorVars, processVars
<1>11. ASSUME NEW w \in Workers, SendRequest(w) PROVE TypeOK'
  <2>1. worker' \in [Workers -> WorkerState] /\ status' \in [Jobs -> Statuses]
    BY <1>11, RequestStepType DEF SendRequest
  <2> QED
    BY <1>11, <2>1 DEF SendRequest, producerVars, jobsVars, resultsVars, promptVars,
       collectorVars, processVars
<1>12. ASSUME NEW w \in Workers, RunAction(w) PROVE TypeOK'
  <2>1. worker[w].action + 1 \in Nat
    BY DEF WorkerState
  <2>2. worker' \in [Workers -> WorkerState] /\ status' \in [Jobs -> Statuses]
    BY <1>12, <2>1, RequestStepType DEF RunAction
  <2> QED
    BY <1>12, <2>2 DEF RunAction, producerVars, jobsVars, resultsVars, promptVars,
       collectorVars, processVars
<1>13. ASSUME NEW w \in Workers, ReportJob(w) PROVE TypeOK'
  <2>1. [job |-> worker[w].job, err |-> worker[w].err] \in Result
    BY <1>13, ResultType DEF ReportJob, HeldJobs, WorkerState
  <2>2. At("idle", 0, NoError, 0) \in WorkerState
    BY WorkerStateType, ErrorConstants, SizeAssumption
  <2>3. Append(results, [job |-> worker[w].job, err |-> worker[w].err]) \in Seq(Result)
    BY <2>1, AppendProperties
  <2>4. results' \in Seq(Result)
    BY <1>13, <2>3 DEF ReportJob, SendResult
  <2>5. worker' \in [Workers -> WorkerState]
    BY <1>13, <2>2 DEF ReportJob, SendResult
  <2>6. process' \in {"running", "exited", "crashed"} /\ exitCode' \in Nat
    BY <1>13 DEF ReportJob, SendResult, Panic, ExitPanic, processVars
  <2> QED
    BY <1>13, <2>4, <2>5, <2>6 DEF ReportJob,
       producerVars, jobsVars, promptVars, collectorVars, historyVars
<1>14. CASE WaitWorkers
  BY <1>14 DEF WaitWorkers, producerVars, jobsVars, resultsVars, promptVars,
       collectorVars, processVars, historyVars
<1>15. CASE CloseResults
  BY <1>15 DEF CloseResults, Panic, ExitPanic, producerVars, jobsVars, promptVars,
       collectorVars, processVars, historyVars
<1>16. CASE Receive
  <2>1. Head(results) \in Result /\ Tail(results) \in Seq(Result)
    BY <1>16 DEF Receive
  <2>2. received' \in Error /\ collected' \subseteq Jobs
    BY <1>16, <2>1 DEF Receive, Result
  <2>3. CheckError(received') \in Error
    BY <2>2, CheckErrorType
  <2>4. totalErrors' \in Seq(Error)
    BY <1>16, <2>3 DEF Receive
  <2> QED
    BY <1>16, <2>1, <2>2, <2>4 DEF Receive, producerVars, jobsVars, promptVars, processVars
<1>17. CASE Abort
  BY <1>17 DEF Abort, ExitAbortedWithErrors, producerVars, jobsVars, resultsVars,
       promptVars, historyVars
<1>18. CASE AbortClose
  BY <1>18 DEF AbortClose, Panic, ExitPanic, producerVars, jobsVars, promptVars,
       processVars, historyVars
<1>19. CASE ReleasePrompt
  BY <1>19 DEF ReleasePrompt, producerVars, jobsVars, resultsVars, processVars, historyVars
<1>20. CASE PromptDone
  BY <1>20 DEF PromptDone, Panic, ExitPanic, PromptBalance, producerVars, jobsVars,
       resultsVars, historyVars, processVars
<1>21. CASE Return
  <2>1. BatchExitCode \in Nat
    <3>1. Len(totalErrors) = 1 => totalErrors[1] \in Error
      BY SoleElement
    <3> QED
      BY <3>1 DEF BatchExitCode, Error, ExitCompletedWithErrors, ExitJobLimitExceeded, ExitOK
  <2> QED
    BY <1>21, <2>1 DEF Return, producerVars, jobsVars, resultsVars, promptVars, historyVars
<1>22. CASE Exit
  BY <1>22 DEF Exit, producerVars, jobsVars, resultsVars, promptVars,
       collectorVars, historyVars
<1> QED
  BY <1>1, <1>2, <1>3, <1>4, <1>5, <1>6, <1>7, <1>8, <1>9, <1>10, <1>11, <1>12, <1>13,
     <1>14, <1>15, <1>16, <1>17, <1>18, <1>19, <1>20, <1>21, <1>22
     DEF Next, ProducerNext, WorkerNext, CloserNext, CollectorNext

\* A step that changes no variable keeps the whole invariant.
LEMMA StutterStep ==
    ASSUME IInv, UNCHANGED vars
    PROVE  IInv'
BY DEF IInv, TypeOK, HeldJobs, PromptBalance, CloseOrder, AbortReached, vars,
       producerVars, jobsVars, resultsVars, promptVars, collectorVars, processVars,
       historyVars

\* Every step keeps jobs in hand among the inputs.
LEMMA HeldJobsStep ==
    ASSUME TypeOK, HeldJobs, Next
    PROVE  HeldJobs'
<1> USE DEF HeldJobs
<1>1. ASSUME ProducerNext PROVE HeldJobs'
  <2>1. worker' = worker
    BY <1>1 DEF ProducerNext, GetNext, SendInputError, PromptWait, Prompt, SendDeclined,
       PromptAdd, PromptCount, SendJob, CloseJobs
  <2>2. producer' \notin {"next", "close", "done"} => jobID' \in Jobs
    <3>1. CASE GetNext
      BY <3>1, SizeAssumption DEF GetNext, InputExhausted, TypeOK, Jobs
    <3> QED
      BY <1>1, <3>1 DEF ProducerNext, SendInputError, SendResult, PromptWait, Prompt,
         SendDeclined, PromptAdd, PromptCount, SendJob, CloseJobs
  <2> QED
    BY <2>1, <2>2
<1>2. ASSUME NEW w \in Workers, WorkerNext(w) PROVE HeldJobs'
  <2>1. producer' = producer /\ jobID' = jobID
    BY <1>2 DEF WorkerNext, TakeJob, SendRequest, RunAction, ReportJob, producerVars
  <2>2. \A v \in Workers : v # w => worker'[v] = worker[v]
    BY <1>2 DEF WorkerNext, TakeJob, SendRequest, RunAction, ReportJob, SendResult,
       NextAction, FinishJob, TypeOK
  <2>3. worker'[w].pc \in {"request", "action", "send"} => worker'[w].job \in Jobs
    <3>1. CASE TakeJob(w)
      <4>1. jobs # <<>> => Head(jobs) \in Jobs
        BY HeadTailProperties DEF TypeOK
      <4> QED
        BY <3>1, <4>1 DEF TakeJob, At, TypeOK
    <3>2. CASE SendRequest(w) \/ RunAction(w)
      BY <3>2 DEF SendRequest, RunAction, NextAction, FinishJob, At, TypeOK
    <3>3. CASE ReportJob(w)
      BY <3>3 DEF ReportJob, SendResult, At, TypeOK
    <3> QED
      BY <1>2, <3>1, <3>2, <3>3 DEF WorkerNext
  <2> QED
    BY <2>1, <2>2, <2>3
<1>3. ASSUME CloserNext \/ CollectorNext PROVE HeldJobs'
  BY <1>3 DEF CloserNext, WaitWorkers, CloseResults, CollectorNext, Receive, Abort,
     AbortClose, ReleasePrompt, PromptDone, Return, Exit, producerVars
<1> QED
  BY <1>1, <1>2, <1>3 DEF Next

\* Every step keeps the wait group above the prompts it stands for.
LEMMA PromptBalanceStep ==
    ASSUME TypeOK, PromptBalance, Next
    PROVE  PromptBalance'
<1> USE DEF PromptBalance, TypeOK
<1>1. ASSUME ProducerNext PROVE PromptBalance'
  <2>1. CASE PromptAdd
    BY <2>1 DEF PromptAdd, collectorVars
  <2>2. CASE PromptCount
    BY <2>2 DEF PromptCount, collectorVars
  <2>3. CASE ~PromptAdd /\ ~PromptCount
    <3>1. promptWG' = promptWG /\ promptCount' = promptCount /\ collector' = collector
      BY <1>1, <2>3 DEF ProducerNext, GetNext, SendInputError, PromptWait, Prompt,
         SendDeclined, SendJob, CloseJobs, promptVars, collectorVars
    <3>2. producer # "promptCount" /\ producer' # "promptCount"
      BY <1>1, <2>3 DEF ProducerNext, GetNext, SendInputError, SendResult, PromptWait,
         Prompt, SendDeclined, AfterDecline, SendJob, CloseJobs
    <3> QED
      BY <3>1, <3>2
  <2> QED
    BY <2>1, <2>2, <2>3
<1>2. ASSUME NEW w \in Workers, WorkerNext(w) PROVE PromptBalance'
  BY <1>2 DEF WorkerNext, TakeJob, SendRequest, RunAction, ReportJob, producerVars,
     promptVars, collectorVars
<1>3. ASSUME CloserNext PROVE PromptBalance'
  BY <1>3 DEF CloserNext, WaitWorkers, CloseResults, producerVars, promptVars, collectorVars
<1>4. ASSUME CollectorNext PROVE PromptBalance'
  <2>1. CASE ReleasePrompt
    BY <2>1 DEF ReleasePrompt, ReleaseOwed, producerVars
  <2>2. CASE PromptDone
    BY <2>2 DEF PromptDone, producerVars
  <2>3. CASE Receive \/ Abort \/ AbortClose \/ Return \/ Exit
    BY <2>3 DEF Receive, Abort, AbortClose, Return, Exit, producerVars, promptVars,
       collectorVars
  <2> QED
    BY <1>4, <2>1, <2>2, <2>3 DEF CollectorNext
<1> QED
  BY <1>1, <1>2, <1>3, <1>4 DEF Next

\* Once the threshold is reached it stays reached: errors are only added.
LEMMA AbortReachedStays ==
    ASSUME TypeOK, Next, AbortReached
    PROVE  AbortReached'
<1>1. opts' = opts
  BY DEF Next, ProducerNext, GetNext, SendInputError, PromptWait, Prompt, SendDeclined,
     PromptAdd, PromptCount, SendJob, CloseJobs, WorkerNext, TakeJob, SendRequest,
     RunAction, ReportJob, CloserNext, WaitWorkers, CloseResults, CollectorNext, Receive,
     Abort, AbortClose, ReleasePrompt, PromptDone, Return, Exit
<1>2. totalErrors' = totalErrors \/ Receive
  BY DEF Next, ProducerNext, GetNext, SendInputError, PromptWait, Prompt, SendDeclined,
     PromptAdd, PromptCount, SendJob, CloseJobs, WorkerNext, TakeJob, SendRequest,
     RunAction, ReportJob, CloserNext, WaitWorkers, CloseResults, CollectorNext,
     Abort, AbortClose, ReleasePrompt, PromptDone, Return, Exit, collectorVars
<1>3. Len(totalErrors) \in Nat /\ opts.abortOnErrors \in Nat
  BY DataAssumption DEF TypeOK, OptionSet
<1>4. CASE totalErrors' = totalErrors
  BY <1>1, <1>4 DEF AbortReached
<1>5. CASE Receive /\ totalErrors' # totalErrors
  <2>1. received' \in Error
    <3>1. Head(results) \in Result
      BY <1>5, HeadTailProperties DEF Receive, TypeOK
    <3> QED
      BY <1>5, <3>1 DEF Receive, Result
  <2>2. CheckError(received') \in Error
    BY <2>1, CheckErrorType
  <2>3. totalErrors' = Append(totalErrors, CheckError(received'))
    BY <1>5 DEF Receive
  <2>4. Len(totalErrors') = Len(totalErrors) + 1
    BY <2>2, <2>3, AppendProperties DEF TypeOK
  <2> QED
    BY <1>1, <1>3, <2>4 DEF AbortReached
<1> QED
  BY <1>2, <1>4, <1>5

\* Every step keeps the order in which the goroutines close the channels.
LEMMA CloseOrderStep ==
    ASSUME TypeOK, PromptBalance, CloseOrder, Next
    PROVE  CloseOrder'
<1> USE DEF CloseOrder
<1>1. AbortReached => AbortReached'
  BY AbortReachedStays
<1>2. ASSUME ProducerNext PROVE CloseOrder'
  <2>1. UNCHANGED <<worker, resultsClosed, closer, wasCancelled, collector>>
    BY <1>2 DEF ProducerNext, GetNext, SendInputError, SendResult, PromptWait, Prompt,
       SendDeclined, PromptAdd, PromptCount, SendJob, CloseJobs, resultsVars, collectorVars
  <2>2. (jobsClosed' => producer' = "done") /\ (jobsClosed => jobsClosed')
    BY <1>2 DEF ProducerNext, GetNext, SendInputError, SendResult, PromptWait, Prompt,
       SendDeclined, PromptAdd, PromptCount, SendJob, CloseJobs, jobsVars
  <2>3. process' = "crashed" => AbortReached'
    <3>1. process' = "crashed" => resultsClosed /\ producer # "done"
      BY <1>2 DEF ProducerNext, GetNext, SendInputError, SendResult, PromptWait, Prompt,
         SendDeclined, PromptAdd, PromptCount, SendJob, CloseJobs, processVars
    <3>2. closer # "wait" => producer = "done"
      BY WorkersAssumption
    <3> QED
      BY <1>1, <3>1, <3>2
  <2>4. \A w \in Workers : worker'[w].pc = "done" => jobsClosed'
    BY <2>1, <2>2
  <2> QED
    BY <1>1, <2>1, <2>2, <2>3, <2>4
<1>3. ASSUME NEW w \in Workers, WorkerNext(w) PROVE CloseOrder'
  <2>1. UNCHANGED <<producer, jobsClosed, resultsClosed, closer, wasCancelled, collector>>
    BY <1>3 DEF WorkerNext, TakeJob, SendRequest, RunAction, ReportJob, producerVars,
       jobsVars, resultsVars, collectorVars
  <2>2. worker[w].pc # "done"
    BY <1>3 DEF WorkerNext, TakeJob, SendRequest, RunAction, ReportJob
  <2>3. closer = "wait"
    BY <2>2
  <2>4. \A v \in Workers : worker'[v].pc = "done" => jobsClosed
    BY <1>3 DEF JobsDrained, WorkerNext, TakeJob, SendRequest, RunAction, ReportJob, SendResult,
       NextAction, FinishJob, At, TypeOK
  <2>5. process' = "crashed" => resultsClosed \/ process = "crashed"
    BY <1>3 DEF WorkerNext, TakeJob, SendRequest, RunAction, ReportJob, SendResult,
       processVars
  <2> QED
    BY <1>1, <2>1, <2>3, <2>4, <2>5
<1>4. ASSUME CloserNext PROVE CloseOrder'
  <2>1. UNCHANGED <<producer, jobsClosed, worker, collector>>
    BY <1>4 DEF CloserNext, WaitWorkers, CloseResults, producerVars, jobsVars, collectorVars
  <2>2. CASE WaitWorkers
    BY <1>1, <2>1, <2>2 DEF WaitWorkers, AllWorkersDone, resultsVars, processVars, TypeOK
  <2>3. CASE CloseResults
    BY <1>1, <2>1, <2>3 DEF CloseResults, processVars, TypeOK
  <2> QED
    BY <1>4, <2>2, <2>3 DEF CloserNext
<1>5. ASSUME CollectorNext PROVE CloseOrder'
  <2>1. UNCHANGED <<producer, jobsClosed, worker, closer>>
    BY <1>5 DEF CollectorNext, Receive, Abort, AbortClose, ReleasePrompt, PromptDone,
       Return, Exit, producerVars, jobsVars
  <2>2. CASE Abort
    BY <1>1, <2>1, <2>2 DEF Abort, resultsVars, TypeOK
  <2>3. CASE AbortClose
    BY <1>1, <2>1, <2>3 DEF AbortClose, processVars, TypeOK
  <2>4. CASE PromptDone
    <3>1. promptWG # 0
      BY <2>4 DEF PromptDone, PromptBalance, TypeOK
    <3> QED
      BY <1>1, <2>1, <2>4, <3>1 DEF PromptDone, resultsVars, processVars, TypeOK
  <2>5. CASE Receive \/ ReleasePrompt \/ Return \/ Exit
    BY <1>1, <2>1, <2>5 DEF Receive, ReleasePrompt, Return, Exit, resultsVars,
       processVars, collectorVars
  <2> QED
    BY <1>5, <2>2, <2>3, <2>4, <2>5 DEF CollectorNext
<1> QED
  BY <1>2, <1>3, <1>4, <1>5 DEF Next

\* The inductive invariant holds in every reachable state.
LEMMA InvariantHolds == Spec => []IInv
<1>1. Init => IInv
  BY InitIInv
<1>2. IInv /\ [Next]_vars => IInv'
  <2>1. ASSUME IInv, Next PROVE IInv'
    BY <2>1, TypeStep, HeldJobsStep, PromptBalanceStep, CloseOrderStep DEF IInv
  <2> QED
    BY <2>1, StutterStep
<1> QED
  BY <1>1, <1>2, PTL DEF Spec

\* The variables keep their types, for every instance of the constants.
THEOREM TypeCorrect == Spec => []TypeOK
<1>1. IInv => TypeOK
  BY DEF IInv
<1> QED
  BY <1>1, InvariantHolds, PTL

\* The collector never calls Done on a wait group that is at zero
\* (worker.go:366-369): a result that belongs to no prompt may use up the
\* release of one that does, but never one that was not given.
THEOREM PromptReleaseSafe == Spec => []PromptReleaseIsOwed
<1>1. IInv => PromptReleaseIsOwed
  BY DEF IInv, PromptBalance, PromptReleaseIsOwed, TypeOK
<1> QED
  BY <1>1, InvariantHolds, PTL

\* A batch that does not reach its error threshold never panics
\* (worker.go:331-363): "results" is closed once, after all of its senders.
THEOREM NoPanicBeforeAbort == Spec => []PanicOnlyAfterAbort
<1>1. IInv => PanicOnlyAfterAbort
  BY DEF IInv, CloseOrder, PanicOnlyAfterAbort
<1> QED
  BY <1>1, InvariantHolds, PTL
=============================================================================
