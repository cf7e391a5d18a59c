------------------------ MODULE BatchRefinementProofs ------------------------
(***************************************************************************)
(* The batch pipeline implements the abstract batch, for every number of   *)
(* workers, inputs and post actions and for all options, replies and       *)
(* errors; and the theorems about lost items, exit code 0, unconfirmed     *)
(* requests, the failures of an aborted batch, the order of prompts, the   *)
(* absence of deadlock and the bounded progress of every step.             *)
(* They rest on invariants by which the status of an item tells where the  *)
(* item and its result are.                                                *)
(***************************************************************************)
EXTENDS BatchWorkerProofs, FiniteSetTheorems

-----------------------------------------------------------------------------
\* What the steps of each goroutine do to the variables of the invariants.

LEMMA OutcomeCases ==
    ASSUME NEW err, NEW bad
    PROVE  /\ Outcome(err, bad) \in {"ok", "ignored", bad}
           /\ err # NoError => Outcome(err, bad) \in {"ignored", bad}
           /\ bad \in Wrong => (Counts(err) <=> Outcome(err, bad) \in Wrong)
BY DEF Outcome, Counts, Wrong

\* A declined item counts.
LEMMA DeclinedCounts == Counts(AbortAction)
BY DEF Counts, CheckError, CheckPostCommandError, AbortAction, NoError, Err, ExitUserError

LEMMA ProducerFrame ==
    ASSUME ProducerNext
    PROVE  UNCHANGED <<opts, worker, resultsClosed, closer, wasCancelled,
                       collectorVars, collected>>
BY DEF ProducerNext, GetNext, SendInputError, SendResult, PromptWait, Prompt, SendDeclined,
       PromptAdd, PromptCount, SendJob, CloseJobs, resultsVars, collectorVars, historyVars

\* The producer's steps that move no item.
LEMMA ProducerSteps ==
    ASSUME ProducerNext
    PROVE  \/ GetNext \/ Prompt \/ SendJob
           \/ /\ SendInputError \/ SendDeclined
              /\ UNCHANGED <<jobID, pendingErr, skipConfirm, reply, jobs, status, answers>>
           \/ /\ PromptWait \/ PromptAdd \/ PromptCount \/ CloseJobs
              /\ UNCHANGED <<jobID, pendingErr, skipConfirm, reply, jobs, results,
                             status, answers, processVars>>
BY DEF ProducerNext, SendInputError, PromptWait, SendDeclined, PromptAdd, PromptCount,
       CloseJobs, jobsVars, resultsVars, historyVars

LEMMA WorkerFrame ==
    ASSUME NEW w \in Workers, WorkerNext(w)
    PROVE  UNCHANGED <<opts, producerVars, resultsClosed, closer, wasCancelled,
                       collectorVars, answers, collected>>
BY DEF WorkerNext, TakeJob, SendRequest, RunAction, ReportJob, resultsVars, historyVars

Taken(w) ==
    /\ worker[w].pc = "idle" /\ jobs # <<>> /\ jobs' = Tail(jobs)
    /\ worker' = [worker EXCEPT ![w] = At("request", Head(jobs), NoError, 0)]
    /\ status' = [status EXCEPT ![Head(jobs)] = "started"]
    /\ UNCHANGED <<results, processVars>>

Drained(w) ==
    /\ worker[w].pc = "idle" /\ jobs = <<>>
    /\ worker' = [worker EXCEPT ![w] = At("done", 0, NoError, 0)]
    /\ UNCHANGED <<jobs, status, results, processVars>>

Continued(w) ==
    /\ Busy(w)
    /\ \E n : worker' = [worker EXCEPT ![w] = At("action", worker[w].job, NoError, n)]
    /\ UNCHANGED <<jobs, status, results, processVars>>

Finished(w) ==
    /\ Busy(w)
    /\ \E e \in RequestErrors \cup {NoError} : FinishJob(w, e)
    /\ UNCHANGED <<jobs, results, processVars>>

Told(w) ==
    /\ worker[w].pc = "send"
    /\ worker' = [worker EXCEPT ![w] = At("idle", 0, NoError, 0)]
    /\ results' = Append(results, [job |-> worker[w].job, err |-> worker[w].err])
    /\ UNCHANGED <<jobs, status, processVars>>

Crashed(w) ==
    /\ worker[w].pc = "send" /\ resultsClosed
    /\ Panic
    /\ UNCHANGED <<jobs, status, results, worker>>

LEMMA WorkerSteps ==
    ASSUME NEW w \in Workers, WorkerNext(w)
    PROVE  Taken(w) \/ Drained(w) \/ Continued(w) \/ Finished(w) \/ Told(w) \/ Crashed(w)
<1>1. CASE TakeJob(w)
  BY <1>1 DEF TakeJob, JobsDrained, Taken, Drained, resultsVars
<1>2. CASE SendRequest(w) \/ RunAction(w)
  <2>1. Busy(w) /\ UNCHANGED <<jobs, results, processVars>>
    BY <1>2 DEF SendRequest, RunAction, Busy, jobsVars, resultsVars
  <2>2. (\E n : NextAction(w, n)) \/ \E e \in RequestErrors : FinishJob(w, e)
    BY <1>2 DEF SendRequest, RunAction
  <2> QED
    BY <2>1, <2>2 DEF NextAction, Continued, Finished
<1>3. CASE ReportJob(w)
  BY <1>3 DEF ReportJob, SendResult, Told, Crashed, jobsVars, historyVars
<1> QED
  BY <1>1, <1>2, <1>3 DEF WorkerNext

LEMMA CollectorFrame ==
    ASSUME CloserNext \/ CollectorNext
    PROVE  UNCHANGED <<opts, producerVars, jobs, worker, status, answers>>
BY DEF CloserNext, WaitWorkers, CloseResults, CollectorNext, Receive, Abort, AbortClose,
       ReleasePrompt, PromptDone, Return, Exit, jobsVars, historyVars

-----------------------------------------------------------------------------
\* Reading in order

LEMMA ReadFrame ==
    ASSUME ReadInOrder,
           UNCHANGED <<opts, producer, jobID, pendingErr, status, answers>>
    PROVE  ReadInOrder'
BY DEF ReadInOrder, Queueing, MaxJobsExceeded, Outcome, CheckError

\* Workers change the status of queued and started items only.
LEMMA ReadWorker ==
    ASSUME TypeOK, HeldJobs, ReadInOrder, QueueInOrder, OneWorkerEach,
           NEW w \in Workers, WorkerNext(w)
    PROVE  ReadInOrder'
<1>1. UNCHANGED <<opts, producer, jobID, pendingErr, answers>>
  BY WorkerFrame DEF producerVars
<1>2. CASE UNCHANGED status
  BY <1>1, <1>2, ReadFrame
<1>3. ASSUME NEW j \in Jobs, status[j] \in {"queued", "started"},
             NEW s \in {"started", "ok", "ignored", "failed"},
             status' = [status EXCEPT ![j] = s]
      PROVE  ReadInOrder'
  <2>1. \A i \in Jobs : status'[i] = IF i = j THEN s ELSE status[i]
    BY <1>3 DEF TypeOK
  <2>2. \A e : Outcome(e, "rejected") \in {"ok", "ignored", "rejected"}
    BY OutcomeCases
  <2>3. \A i \in Jobs : status[i] \in {"ready", "unread", "ignored", "rejected"}
                            => i # j /\ status'[i] = status[i]
    BY <1>3, <2>1
  <2>4. (Queueing \/ producer \in {"sendInputError", "sendDeclined"}) =>
            jobID \in Jobs /\ jobID # j /\ status'[jobID] = status[jobID]
    BY <2>3, OutcomeCases DEF HeldJobs, ReadInOrder, Queueing
  <2>5. Outcome(pendingErr, "rejected")' = Outcome(pendingErr, "rejected")
    BY <1>1 DEF Outcome, CheckError
  <2>6. MaxJobsExceeded(jobID)' <=> MaxJobsExceeded(jobID)
    BY <1>1 DEF MaxJobsExceeded
  <2>7. \A i \in Jobs : status'[i] \in {"ready", "unread"} => status[i] = status'[i]
    BY <1>3, <2>1
  <2>8. j <= jobID \/ ~(j > jobID)
    BY <1>3 DEF ReadInOrder
  <2> QED
    BY <1>1, <1>3, <2>1, <2>3, <2>4, <2>5, <2>6, <2>7 DEF ReadInOrder, Queueing
<1>4. CASE Taken(w)
  <2>1. Head(jobs) \in Jobs /\ status[Head(jobs)] = "queued"
    <3>1. 1 \in 1..Len(jobs) /\ Head(jobs) = jobs[1] /\ jobs[1] \in Jobs
      BY <1>4 DEF Taken, TypeOK
    <3> QED
      BY <3>1 DEF QueueInOrder
  <2> QED
    BY <1>3, <1>4, <2>1 DEF Taken
<1>5. CASE Finished(w)
  <2>1. worker[w].job \in Jobs /\ status[worker[w].job] = "started"
    BY <1>5 DEF Finished, Busy, HeldJobs, OneWorkerEach
  <2>2. PICK e \in RequestErrors \cup {NoError} : FinishJob(w, e)
    BY <1>5 DEF Finished
  <2>3. Outcome(e, "failed") \in {"ok", "ignored", "failed"}
    BY OutcomeCases
  <2> QED
    BY <1>3, <2>1, <2>2, <2>3 DEF FinishJob
<1> QED
  BY <1>2, <1>4, <1>5, WorkerSteps DEF Drained, Continued, Told, Crashed

LEMMA ReadProducer ==
    ASSUME TypeOK, HeldJobs, ReadInOrder, ProducerNext
    PROVE  ReadInOrder'
<1>1. opts' = opts
  BY ProducerFrame
<1>2. jobID \in 0..NumInputs /\ NumInputs \in Nat
  BY SizeAssumption DEF TypeOK
<1>3. \A e : Outcome(e, "rejected")' = Outcome(e, "rejected")
  BY <1>1 DEF Outcome, CheckError
<1>4. \A id : MaxJobsExceeded(id)' <=> MaxJobsExceeded(id)
  BY <1>1 DEF MaxJobsExceeded
<1>5. CASE GetNext
  <2>1. producer = "next" /\ answers' = answers
    BY <1>5 DEF GetNext
  <2>2. CASE InputExhausted
    <3>1. UNCHANGED <<jobID, pendingErr, status>> /\ producer' = "close"
      BY <1>5, <2>2 DEF GetNext
    <3> QED
      BY <1>1, <1>4, <2>1, <2>2, <3>1 DEF ReadInOrder, Queueing, InputExhausted
  <2>3. CASE ~InputExhausted
    <3>1. jobID + 1 \in Jobs /\ jobID' = jobID + 1 /\ status[jobID + 1] = "unread"
      BY <1>2, <1>5, <2>3 DEF GetNext, InputExhausted, Jobs, ReadInOrder
    <3>2. CASE MaxJobsExceeded(jobID + 1)
      <4>1. UNCHANGED <<pendingErr, status>> /\ producer' = "close"
        BY <1>5, <2>3, <3>2 DEF GetNext
      <4> QED
        BY <1>1, <1>2, <1>4, <2>1, <3>1, <3>2, <4>1 DEF ReadInOrder, Queueing, Jobs
    <3>3. ASSUME ~MaxJobsExceeded(jobID + 1),
                 NEW s \in {"ready", "ignored", "rejected"},
                 status' = [status EXCEPT ![jobID + 1] = s],
                 \/ s = "ready" /\ producer' \in {"wait", "sendJob"}
                 \/ /\ producer' = "sendInputError" /\ pendingErr' # NoError
                    /\ s = Outcome(pendingErr', "rejected")
          PROVE  ReadInOrder'
      <4>1. \A i \in Jobs : status'[i] = IF i = jobID' THEN s ELSE status[i]
        BY <3>1, <3>3 DEF TypeOK
      <4>2. \A i \in Jobs : status'[i] \in {"ready", "unread"} =>
                \/ i = jobID' /\ s = "ready"
                \/ i > jobID' /\ status[i] = "unread"
        BY <1>2, <2>1, <3>1, <3>3, <4>1 DEF ReadInOrder, Queueing, Jobs
      <4>3. \A i \in Jobs : i > jobID' => i > jobID /\ i # jobID'
        BY <1>2, <3>1 DEF Jobs
      <4>4. s = "ready" => Queueing'
        BY <3>3, OutcomeCases DEF Queueing
      <4>5. producer' = "sendInputError" => status'[jobID'] = Outcome(pendingErr, "rejected")'
        BY <1>3, <3>1, <3>3, <4>1 DEF Outcome, CheckError
      <4>6. Queueing' => status'[jobID'] = "ready"
        BY <3>1, <3>3, <4>1 DEF Queueing
      <4>7. \A j \in Jobs : j > jobID' => status'[j] = "unread" /\ answers'[j] = "none"
        BY <2>1, <3>1, <4>1, <4>3 DEF ReadInOrder
      <4>8. producer' \in {"wait", "sendJob", "sendInputError"}
        BY <3>3
      <4>9. \A j \in Jobs : j <= jobID' /\ status'[j] = "unread" => FALSE
        BY <1>2, <3>1, <4>1, <4>2 DEF Jobs
      <4>10. pendingErr' # NoError \/ producer' # "sendInputError"
        BY <3>3
      <4>11. ~MaxJobsExceeded(jobID)'
        BY <1>1, <3>1, <3>3 DEF MaxJobsExceeded
      <4> QED
        BY <4>2, <4>4, <4>5, <4>6, <4>7, <4>8, <4>9, <4>10, <4>11 DEF ReadInOrder
    <3>4. CASE ~MaxJobsExceeded(jobID + 1)
      <4>1. CASE \E e \in InputErrors :
                   /\ pendingErr' = e /\ producer' = "sendInputError"
                   /\ status' = [status EXCEPT ![jobID + 1] = Outcome(e, "rejected")]
        <5>1. pendingErr' # NoError
          BY <4>1, DataAssumption
        <5>2. Outcome(pendingErr', "rejected") \in {"ignored", "rejected"}
          BY <5>1, OutcomeCases
        <5> QED
          BY <3>3, <3>4, <4>1, <5>1, <5>2
      <4>2. CASE /\ producer' \in {"wait", "sendJob"}
                 /\ status' = [status EXCEPT ![jobID + 1] = "ready"]
        BY <3>3, <3>4, <4>2
      <4> QED
        BY <1>5, <2>3, <3>4, <4>1, <4>2 DEF GetNext
    <3> QED
      BY <3>2, <3>4
  <2> QED
    BY <2>2, <2>3
<1>6. CASE Prompt
  <2>1. jobID \in Jobs /\ status[jobID] = "ready" /\ jobID' = jobID /\ producer = "prompt"
    BY <1>6 DEF Prompt, HeldJobs, ReadInOrder, Queueing
  <2>2. \A j \in Jobs : j > jobID => answers'[j] = answers[j]
    BY <1>2, <1>6 DEF Prompt, TypeOK, Jobs
  <2>3. CASE producer' = "promptAdd" /\ UNCHANGED <<pendingErr, status>>
    BY <1>4, <2>1, <2>2, <2>3 DEF ReadInOrder, Queueing
  <2>4. CASE /\ producer' = "sendDeclined" /\ pendingErr' = AbortAction
             /\ status' = [status EXCEPT ![jobID] = "rejected"]
    <3>1. \A i \in Jobs : status'[i] = IF i = jobID THEN "rejected" ELSE status[i]
      BY <2>4 DEF TypeOK
    <3> QED
      BY <1>2, <1>4, <2>1, <2>2, <2>4, <3>1 DEF ReadInOrder, Queueing, Jobs
  <2> QED
    BY <1>6, <2>3, <2>4 DEF Prompt
<1>7. CASE SendJob
  <2>1. /\ jobID \in Jobs /\ status[jobID] = "ready" /\ jobID' = jobID
        /\ producer = "sendJob" /\ producer' = "next" /\ answers' = answers
        /\ status' = [status EXCEPT ![jobID] = "queued"]
    BY <1>7 DEF SendJob, HeldJobs, ReadInOrder, Queueing
  <2>2. \A i \in Jobs : status'[i] = IF i = jobID THEN "queued" ELSE status[i]
    BY <2>1 DEF TypeOK
  <2> QED
    BY <1>2, <1>4, <2>1, <2>2 DEF ReadInOrder, Queueing, Jobs
<1>8. CASE /\ SendInputError \/ SendDeclined
           /\ UNCHANGED <<jobID, pendingErr, status, answers>>
  <2>1. CASE producer' = producer
    BY <1>1, <1>8, <2>1, ReadFrame
  <2>2. CASE producer' \in {"close", "next"}
    <3>1. producer \in {"sendInputError", "sendDeclined"} /\ jobID \in Jobs
      BY <1>8 DEF SendInputError, SendDeclined, HeldJobs
    <3>2. status[jobID] \in {"ignored", "rejected"}
      BY <3>1, OutcomeCases DEF ReadInOrder
    <3> QED
      BY <1>4, <1>8, <2>2, <3>1, <3>2 DEF ReadInOrder, Queueing
  <2> QED
    BY <1>8, <2>1, <2>2 DEF SendInputError, SendDeclined, SendResult, AfterDecline
<1>9. CASE /\ PromptWait \/ PromptAdd \/ PromptCount \/ CloseJobs
           /\ UNCHANGED <<jobID, pendingErr, status, answers>>
  <2>1. \/ Queueing /\ Queueing'
        \/ producer = "close" /\ producer' = "done"
    BY <1>9 DEF PromptWait, PromptAdd, PromptCount, CloseJobs, Queueing
  <2> QED
    BY <1>4, <1>9, <2>1 DEF ReadInOrder, Queueing
<1> QED
  BY <1>5, <1>6, <1>7, <1>8, <1>9, ProducerSteps

LEMMA ReadStep ==
    ASSUME TypeOK, HeldJobs, ReadInOrder, QueueInOrder, OneWorkerEach, Next
    PROVE  ReadInOrder'
BY ReadProducer, ReadWorker, CollectorFrame, ReadFrame DEF Next, producerVars

-----------------------------------------------------------------------------
\* The queue

LEMMA QueueFrame ==
    ASSUME QueueInOrder, UNCHANGED <<jobs, worker, status>>
    PROVE  QueueInOrder'
BY DEF QueueInOrder

\* A status that does not concern the queue may change.
LEMMA QueueStatus ==
    ASSUME TypeOK, QueueInOrder, NEW j \in Jobs, status[j] # "queued",
           NEW s \in Statuses, s # "queued", status' = [status EXCEPT ![j] = s], jobs' = jobs,
           \A w \in Workers : worker'[w].pc = "done" => worker[w].pc = "done"
    PROVE  QueueInOrder'
<1>1. \A i \in Jobs : status'[i] = IF i = j THEN s ELSE status[i]
  BY DEF TypeOK
<1>2. \A k \in 1..Len(jobs) : jobs[k] \in Jobs /\ jobs[k] # j
  BY DEF QueueInOrder, TypeOK
<1> QED
  BY <1>1, <1>2 DEF QueueInOrder

LEMMA QueueProducer ==
    ASSUME TypeOK, HeldJobs, CloseOrder, ReadInOrder, QueueInOrder, ProducerNext
    PROVE  QueueInOrder'
<1>1. worker' = worker
  BY ProducerFrame
<1>2. jobID \in 0..NumInputs /\ NumInputs \in Nat
  BY SizeAssumption DEF TypeOK
<1>3. CASE GetNext
  <2>1. jobs' = jobs
    BY <1>3 DEF GetNext, jobsVars
  <2>2. CASE status' = status
    BY <1>1, <2>1, <2>2, QueueFrame
  <2>3. CASE ~InputExhausted
    <3>1. jobID + 1 \in Jobs /\ status[jobID + 1] = "unread"
      BY <1>2, <2>3 DEF InputExhausted, Jobs, ReadInOrder
    <3>2. status' = status \/ \E s \in {"ready", "ok", "ignored", "rejected"} :
                                 status' = [status EXCEPT ![jobID + 1] = s]
      BY <1>3, OutcomeCases DEF GetNext
    <3> QED
      BY <1>1, <2>1, <2>2, <3>1, <3>2, QueueStatus DEF Statuses
  <2> QED
    BY <1>3, <2>2, <2>3 DEF GetNext
<1>4. CASE Prompt
  <2>1. jobID \in Jobs /\ status[jobID] = "ready" /\ jobs' = jobs
    BY <1>4 DEF Prompt, HeldJobs, ReadInOrder, Queueing, jobsVars
  <2>2. status' = status \/ status' = [status EXCEPT ![jobID] = "rejected"]
    BY <1>4 DEF Prompt
  <2> QED
    BY <1>1, <2>1, <2>2, QueueFrame, QueueStatus DEF Statuses
<1>5. CASE SendJob
  <2>1. /\ jobID \in Jobs /\ status[jobID] = "ready" /\ jobs' = Append(jobs, jobID)
        /\ status' = [status EXCEPT ![jobID] = "queued"] /\ producer # "done"
    BY <1>5 DEF SendJob, HeldJobs, ReadInOrder, Queueing
  <2>2. \A i \in Jobs : status'[i] = IF i = jobID THEN "queued" ELSE status[i]
    BY <2>1 DEF TypeOK
  <2>3. /\ Len(jobs') = Len(jobs) + 1 /\ Len(jobs) \in Nat
        /\ \A k \in 1..Len(jobs) : jobs'[k] = jobs[k] /\ jobs[k] \in Jobs
        /\ jobs'[Len(jobs) + 1] = jobID
    BY <2>1 DEF TypeOK
  <2>4. \A k \in 1..Len(jobs) : jobs[k] < jobID
    <3>1. SUFFICES ASSUME NEW k \in 1..Len(jobs) PROVE jobs[k] < jobID
      OBVIOUS
    <3>2. status[jobs[k]] = "queued" /\ jobs[k] \in Jobs
      BY <2>3 DEF QueueInOrder
    <3>3. ~(jobs[k] > jobID) /\ jobs[k] # jobID
      BY <2>1, <3>2 DEF ReadInOrder
    <3> QED
      BY <1>2, <3>2, <3>3 DEF Jobs
  <2>5. \A k \in 1..Len(jobs') : k \in 1..Len(jobs) \/ k = Len(jobs) + 1
    BY <2>3
  <2>6. \A k \in 1..Len(jobs') : status'[jobs'[k]] = "queued"
    BY <2>1, <2>2, <2>3, <2>5 DEF QueueInOrder
  <2>7. \A k, l \in 1..Len(jobs') : k < l => jobs'[k] < jobs'[l]
    BY <2>3, <2>4, <2>5 DEF QueueInOrder
  <2>8. \A j \in Jobs : status'[j] = "queued" => \E k \in 1..Len(jobs') : jobs'[k] = j
    <3>1. SUFFICES ASSUME NEW j \in Jobs, status'[j] = "queued"
                   PROVE  \E k \in 1..Len(jobs') : jobs'[k] = j
      OBVIOUS
    <3>2. CASE j = jobID
      BY <2>3, <3>2
    <3>3. CASE j # jobID
      <4>1. PICK k \in 1..Len(jobs) : jobs[k] = j
        BY <2>2, <3>1, <3>3 DEF QueueInOrder
      <4> QED
        BY <2>3, <4>1
    <3> QED
      BY <3>2, <3>3
  <2>9. ~ \E w \in Workers : worker[w].pc = "done"
    BY <2>1 DEF CloseOrder
  <2> QED
    BY <1>1, <2>6, <2>7, <2>8, <2>9 DEF QueueInOrder
<1>6. CASE UNCHANGED <<jobs, status>>
  BY <1>1, <1>6, QueueFrame
<1> QED
  BY <1>3, <1>4, <1>5, <1>6, ProducerSteps

LEMMA QueueWorker ==
    ASSUME TypeOK, HeldJobs, QueueInOrder, OneWorkerEach, NEW w \in Workers, WorkerNext(w)
    PROVE  QueueInOrder'
<1>1. CASE Taken(w)
  <2> DEFINE j == Head(jobs)
  <2>1. /\ j \in Jobs /\ j = jobs[1] /\ jobs' = Tail(jobs) /\ jobs # <<>>
        /\ status' = [status EXCEPT ![j] = "started"]
    BY <1>1 DEF Taken, TypeOK
  <2>2. \A i \in Jobs : status'[i] = IF i = j THEN "started" ELSE status[i]
    BY <2>1 DEF TypeOK
  <2>3. /\ Len(jobs) \in Nat /\ Len(jobs') = Len(jobs) - 1
        /\ \A k \in 1..Len(jobs') : jobs'[k] = jobs[k + 1]
        /\ \A k \in 1..Len(jobs) : jobs[k] \in Jobs
    BY <2>1 DEF TypeOK
  <2> HIDE DEF j
  <2>4. \A k \in 1..Len(jobs') : k + 1 \in 1..Len(jobs) /\ 1 < k + 1
    BY <2>3
  <2>5. 1 \in 1..Len(jobs)
    BY <2>1, <2>3 DEF TypeOK
  <2>6. \A k \in 1..Len(jobs') : jobs'[k] # j /\ jobs'[k] \in Jobs
    <3>1. SUFFICES ASSUME NEW k \in 1..Len(jobs') PROVE jobs'[k] # j /\ jobs'[k] \in Jobs
      OBVIOUS
    <3>2. jobs[1] < jobs[k + 1]
      BY <2>4, <2>5 DEF QueueInOrder
    <3> QED
      BY <2>1, <2>3, <2>4, <3>2, SizeAssumption DEF Jobs
  <2>7. \A k \in 1..Len(jobs') : status'[jobs'[k]] = "queued"
    BY <2>2, <2>3, <2>4, <2>6 DEF QueueInOrder
  <2>8. \A k, l \in 1..Len(jobs') : k < l => jobs'[k] < jobs'[l]
    <3>1. SUFFICES ASSUME NEW k \in 1..Len(jobs'), NEW l \in 1..Len(jobs'), k < l
                   PROVE  jobs'[k] < jobs'[l]
      OBVIOUS
    <3>2. k + 1 < l + 1
      BY <2>3, <3>1
    <3>3. jobs[k + 1] < jobs[l + 1]
      BY <2>4, <3>2 DEF QueueInOrder
    <3> QED
      BY <2>3, <3>3
  <2>9. \A i \in Jobs : status'[i] = "queued" => \E k \in 1..Len(jobs') : jobs'[k] = i
    <3>1. SUFFICES ASSUME NEW i \in Jobs, status'[i] = "queued"
                   PROVE  \E k \in 1..Len(jobs') : jobs'[k] = i
      OBVIOUS
    <3>2. PICK k \in 1..Len(jobs) : jobs[k] = i
      BY <2>2, <3>1 DEF QueueInOrder
    <3>3. k # 1
      BY <2>1, <2>2, <3>1, <3>2
    <3>4. k - 1 \in 1..Len(jobs') /\ (k - 1) + 1 = k
      BY <2>3, <3>3
    <3>5. jobs'[k - 1] = i
      BY <2>3, <3>2, <3>4
    <3> QED
      BY <3>4, <3>5
  <2>10. \A v \in Workers : worker'[v].pc # "done"
    <3>1. \A v \in Workers : worker[v].pc # "done"
      BY <2>1 DEF QueueInOrder
    <3>2. \A v \in Workers : worker'[v] =
            IF v = w THEN At("request", Head(jobs), NoError, 0) ELSE worker[v]
      BY <1>1 DEF Taken, TypeOK
    <3> QED
      BY <3>1, <3>2 DEF At
  <2> QED
    BY <2>7, <2>8, <2>9, <2>10 DEF QueueInOrder
<1>2. CASE Drained(w)
  <2>1. UNCHANGED <<jobs, status>> /\ jobs = <<>>
    BY <1>2 DEF Drained
  <2> QED
    BY <2>1 DEF QueueInOrder
<1>3. CASE Continued(w) \/ Told(w) \/ Crashed(w)
  <2>1. UNCHANGED <<jobs, status>>
    BY <1>3 DEF Continued, Told, Crashed
  <2>2. \A v \in Workers : worker'[v].pc = "done" => worker[v].pc = "done"
    <3>1. CASE Continued(w)
      <4>1. PICK n : worker' = [worker EXCEPT ![w] = At("action", worker[w].job, NoError, n)]
        BY <3>1 DEF Continued
      <4> QED
        BY <4>1 DEF At, TypeOK
    <3>2. CASE Told(w)
      BY <3>2 DEF Told, At, TypeOK
    <3>3. CASE Crashed(w)
      BY <3>3 DEF Crashed
    <3> QED
      BY <1>3, <3>1, <3>2, <3>3
  <2> QED
    BY <2>1, <2>2 DEF QueueInOrder
<1>4. CASE Finished(w)
  <2>1. worker[w].job \in Jobs /\ status[worker[w].job] = "started" /\ jobs' = jobs
    BY <1>4 DEF Finished, Busy, HeldJobs, OneWorkerEach
  <2>2. PICK e \in RequestErrors \cup {NoError} : FinishJob(w, e)
    BY <1>4 DEF Finished
  <2>3. Outcome(e, "failed") \in Statuses \ {"queued"}
    BY OutcomeCases DEF Statuses
  <2>4. \A v \in Workers : worker'[v].pc = "done" => worker[v].pc = "done"
    BY <2>2 DEF FinishJob, At, TypeOK
  <2> QED
    BY <2>1, <2>2, <2>3, <2>4, QueueStatus DEF FinishJob
<1> QED
  BY <1>1, <1>2, <1>3, <1>4, WorkerSteps

LEMMA QueueStep ==
    ASSUME TypeOK, HeldJobs, CloseOrder, ReadInOrder, QueueInOrder, OneWorkerEach, Next
    PROVE  QueueInOrder'
BY QueueProducer, QueueWorker, CollectorFrame, QueueFrame DEF Next

-----------------------------------------------------------------------------
\* The items of the workers

LEMMA OneWorkerFrame ==
    ASSUME OneWorkerEach, UNCHANGED <<opts, worker, status>>
    PROVE  OneWorkerEach'
BY DEF OneWorkerEach, Busy, Outcome, CheckError

LEMMA OneWorkerProducer ==
    ASSUME TypeOK, HeldJobs, ReadInOrder, OneWorkerEach, ProducerNext
    PROVE  OneWorkerEach'
<1>1. UNCHANGED <<opts, worker>>
  BY ProducerFrame
<1>2. jobID \in 0..NumInputs /\ NumInputs \in Nat
  BY SizeAssumption DEF TypeOK
<1>3. \A e : Outcome(e, "failed")' = Outcome(e, "failed")
  BY <1>1 DEF Outcome, CheckError
<1>4. CASE status' = status
  BY <1>1, <1>4, OneWorkerFrame
<1>5. ASSUME NEW j \in Jobs, status[j] \in {"unread", "ready"},
             NEW s, s # "started", status' = [status EXCEPT ![j] = s]
      PROVE  OneWorkerEach'
  <2>1. \A i \in Jobs : status'[i] = IF i = j THEN s ELSE status[i]
    BY <1>5 DEF TypeOK
  <2>2. \A w \in Workers : worker[w].pc = "send" => worker[w].job \in Jobs /\ worker[w].job # j
    BY <1>5, OutcomeCases DEF HeldJobs, OneWorkerEach
  <2>3. \A w \in Workers : Busy(w) => worker[w].job \in Jobs /\ worker[w].job # j
    BY <1>5 DEF HeldJobs, OneWorkerEach, Busy
  <2>4. \A w \in Workers : Outcome(worker[w].err, "failed")' = Outcome(worker[w].err, "failed")
    BY <1>1 DEF Outcome, CheckError
  <2> QED
    BY <1>1, <1>5, <2>1, <2>2, <2>3, <2>4 DEF OneWorkerEach, Busy
<1>6. CASE GetNext
  <2>1. CASE ~InputExhausted
    <3>1. jobID + 1 \in Jobs /\ status[jobID + 1] = "unread"
      BY <1>2, <2>1 DEF InputExhausted, Jobs, ReadInOrder
    <3>2. status' = status \/ \E s \in {"ready", "ok", "ignored", "rejected"} :
                                 status' = [status EXCEPT ![jobID + 1] = s]
      BY <1>6, OutcomeCases DEF GetNext
    <3> QED
      BY <1>4, <1>5, <3>1, <3>2
  <2> QED
    BY <1>4, <1>6, <2>1 DEF GetNext
<1>7. CASE Prompt
  <2>1. jobID \in Jobs /\ status[jobID] = "ready"
    BY <1>7 DEF Prompt, HeldJobs, ReadInOrder, Queueing
  <2>2. status' = status \/ status' = [status EXCEPT ![jobID] = "rejected"]
    BY <1>7 DEF Prompt
  <2> QED
    BY <1>4, <1>5, <2>1, <2>2
<1>8. CASE SendJob
  <2>1. /\ jobID \in Jobs /\ status[jobID] = "ready"
        /\ status' = [status EXCEPT ![jobID] = "queued"]
    BY <1>8 DEF SendJob, HeldJobs, ReadInOrder, Queueing
  <2> QED
    BY <1>5, <2>1
<1> QED
  BY <1>4, <1>6, <1>7, <1>8, ProducerSteps

LEMMA OneWorkerWorker ==
    ASSUME TypeOK, HeldJobs, QueueInOrder, OneWorkerEach, NEW w \in Workers, WorkerNext(w)
    PROVE  OneWorkerEach'
<1>1. opts' = opts
  BY WorkerFrame
<1>2. \A e : Outcome(e, "failed")' = Outcome(e, "failed")
  BY <1>1 DEF Outcome, CheckError
<1>3. CASE Taken(w)
  <2> DEFINE j == Head(jobs)
  <2>1. j \in Jobs /\ status[j] = "queued" /\ ~Busy(w) /\ worker[w].pc # "send"
    <3>1. 1 \in 1..Len(jobs) /\ j = jobs[1] /\ jobs[1] \in Jobs
      BY <1>3 DEF Taken, TypeOK
    <3> QED
      BY <1>3, <3>1 DEF QueueInOrder, Taken, Busy
  <2>2. \A i \in Jobs : status'[i] = IF i = j THEN "started" ELSE status[i]
    BY <1>3, <2>1 DEF Taken, TypeOK
  <2>3. /\ \A v \in Workers : v # w => worker'[v] = worker[v]
        /\ worker'[w].pc = "request" /\ worker'[w].job = j
    BY <1>3 DEF Taken, TypeOK, At
  <2> HIDE DEF j
  <2>4. \A v \in Workers : Busy(v)' <=> v = w \/ Busy(v)
    BY <2>3 DEF Busy
  <2>5. \A v \in Workers : Busy(v) \/ worker[v].pc = "send" =>
            worker[v].job \in Jobs /\ worker[v].job # j
    BY <2>1, OutcomeCases DEF HeldJobs, OneWorkerEach, Busy
  <2>6. \A v \in Workers : v # w =>
            Outcome(worker[v].err, "failed")' = Outcome(worker[v].err, "failed")
    BY <1>1, <2>3 DEF Outcome, CheckError
  <2>7. \A v \in Workers : Busy(v)' => status'[worker'[v].job] = "started"
    BY <2>1, <2>2, <2>3, <2>4, <2>5 DEF OneWorkerEach
  <2>8. \A u, v \in Workers :
            Busy(u)' /\ Busy(v)' /\ worker'[u].job = worker'[v].job => u = v
    BY <2>3, <2>4, <2>5 DEF OneWorkerEach
  <2>9. \A i \in Jobs : status'[i] = "started" =>
            \E v \in Workers : Busy(v)' /\ worker'[v].job = i
    BY <2>1, <2>2, <2>3, <2>4 DEF OneWorkerEach
  <2>10. \A v \in Workers : worker'[v].pc = "send" =>
             status'[worker'[v].job] = Outcome(worker[v].err, "failed")'
    BY <2>2, <2>3, <2>5, <2>6 DEF OneWorkerEach
  <2> QED
    BY <2>7, <2>8, <2>9, <2>10 DEF OneWorkerEach
<1>4. ASSUME UNCHANGED status, NEW s, worker' = [worker EXCEPT ![w] = s],
             s.pc # "send", s.pc \in {"request", "action"} <=> Busy(w),
             Busy(w) => s.job = worker[w].job
      PROVE  OneWorkerEach'
  <2>1. worker'[w] = s /\ \A v \in Workers : v # w => worker'[v] = worker[v]
    BY <1>4 DEF TypeOK
  <2>2. \A v \in Workers : Busy(v)' <=> Busy(v)
    BY <1>4, <2>1 DEF Busy
  <2>3. \A v \in Workers : Busy(v) => worker'[v].job = worker[v].job
    BY <1>4, <2>1
  <2>4. \A v \in Workers : worker'[v].pc = "send" =>
            status'[worker'[v].job] = Outcome(worker[v].err, "failed")'
    <3>1. SUFFICES ASSUME NEW v \in Workers, worker'[v].pc = "send"
                   PROVE  status'[worker'[v].job] = Outcome(worker[v].err, "failed")'
      OBVIOUS
    <3>2. worker'[v] = worker[v]
      BY <1>4, <2>1, <3>1
    <3>3. Outcome(worker[v].err, "failed")' = Outcome(worker[v].err, "failed")
      BY <1>1, <3>2 DEF Outcome, CheckError
    <3> QED
      BY <1>4, <3>1, <3>2, <3>3 DEF OneWorkerEach
  <2>5. \A v \in Workers : Busy(v)' => status'[worker'[v].job] = "started"
    BY <1>4, <2>2, <2>3 DEF OneWorkerEach
  <2>6. \A u, v \in Workers :
            Busy(u)' /\ Busy(v)' /\ worker'[u].job = worker'[v].job => u = v
    BY <2>2, <2>3 DEF OneWorkerEach
  <2>7. \A i \in Jobs : status'[i] = "started" =>
            \E v \in Workers : Busy(v)' /\ worker'[v].job = i
    BY <1>4, <2>2, <2>3 DEF OneWorkerEach
  <2> QED
    BY <2>4, <2>5, <2>6, <2>7 DEF OneWorkerEach
<1>5. CASE Drained(w)
  <2> DEFINE s == At("done", 0, NoError, 0)
  <2>1. s.pc = "done" /\ ~Busy(w) /\ UNCHANGED status /\ worker' = [worker EXCEPT ![w] = s]
    BY <1>5 DEF At, Drained, Busy
  <2> HIDE DEF s
  <2> QED
    BY <1>4, <2>1
<1>6. CASE Continued(w)
  <2>1. PICK n : worker' = [worker EXCEPT ![w] = At("action", worker[w].job, NoError, n)]
    BY <1>6 DEF Continued
  <2> DEFINE s == At("action", worker[w].job, NoError, n)
  <2>2. /\ s.pc = "action" /\ s.job = worker[w].job /\ Busy(w) /\ UNCHANGED status
        /\ worker' = [worker EXCEPT ![w] = s]
    BY <1>6, <2>1 DEF At, Continued
  <2> HIDE DEF s
  <2> QED
    BY <1>4, <2>2
<1>7. CASE Told(w)
  <2> DEFINE s == At("idle", 0, NoError, 0)
  <2>1. s.pc = "idle" /\ ~Busy(w) /\ UNCHANGED status /\ worker' = [worker EXCEPT ![w] = s]
    BY <1>7 DEF At, Told, Busy
  <2> HIDE DEF s
  <2> QED
    BY <1>4, <2>1
<1>8. CASE Crashed(w)
  BY <1>1, <1>8, OneWorkerFrame DEF Crashed
<1>9. CASE Finished(w)
  <2> DEFINE j == worker[w].job
  <2>1. j \in Jobs /\ status[j] = "started" /\ Busy(w)
    BY <1>9 DEF Finished, Busy, HeldJobs, OneWorkerEach
  <2>2. PICK e \in RequestErrors \cup {NoError} : FinishJob(w, e)
    BY <1>9 DEF Finished
  <2>3. Outcome(e, "failed") \in {"ok", "ignored", "failed"}
    BY OutcomeCases
  <2>4. \A i \in Jobs : status'[i] = IF i = j THEN Outcome(e, "failed") ELSE status[i]
    BY <2>1, <2>2 DEF FinishJob, TypeOK
  <2>5. /\ \A v \in Workers : v # w => worker'[v] = worker[v]
        /\ worker'[w].pc = "send" /\ worker'[w].job = j /\ worker'[w].err = e
    BY <2>2 DEF FinishJob, TypeOK, At
  <2> HIDE DEF j
  <2>6. \A v \in Workers : Busy(v)' <=> v # w /\ Busy(v)
    BY <2>5 DEF Busy
  <2>7. \A v \in Workers : v # w /\ (Busy(v) \/ worker[v].pc = "send") =>
            worker[v].job \in Jobs /\ worker[v].job # j
    BY <2>1, OutcomeCases DEF HeldJobs, OneWorkerEach, Busy, j
  <2>8. \A v \in Workers : Busy(v)' => status'[worker'[v].job] = "started"
    BY <2>4, <2>5, <2>6, <2>7 DEF OneWorkerEach
  <2>9. \A u, v \in Workers :
            Busy(u)' /\ Busy(v)' /\ worker'[u].job = worker'[v].job => u = v
    BY <2>5, <2>6 DEF OneWorkerEach
  <2>10. \A i \in Jobs : status'[i] = "started" =>
             \E v \in Workers : Busy(v)' /\ worker'[v].job = i
    <3>1. SUFFICES ASSUME NEW i \in Jobs, status'[i] = "started"
                   PROVE  \E v \in Workers : Busy(v)' /\ worker'[v].job = i
      OBVIOUS
    <3>2. i # j /\ status[i] = "started"
      BY <2>3, <2>4, <3>1
    <3>3. PICK v \in Workers : Busy(v) /\ worker[v].job = i
      BY <3>2 DEF OneWorkerEach
    <3>4. v # w
      BY <3>2, <3>3 DEF j
    <3> QED
      BY <2>5, <2>6, <3>3, <3>4
  <2>11. \A v \in Workers : worker'[v].pc = "send" =>
             status'[worker'[v].job] = Outcome(worker[v].err, "failed")'
    <3>1. SUFFICES ASSUME NEW v \in Workers, worker'[v].pc = "send"
                   PROVE  status'[worker'[v].job] = Outcome(worker[v].err, "failed")'
      OBVIOUS
    <3>2. CASE v = w
      BY <1>1, <2>1, <2>4, <2>5, <3>2 DEF Outcome, CheckError
    <3>3. CASE v # w
      <4>1. Outcome(worker[v].err, "failed")' = Outcome(worker[v].err, "failed")
        BY <1>1, <2>5, <3>3 DEF Outcome, CheckError
      <4> QED
        BY <2>4, <2>5, <2>7, <3>1, <3>3, <4>1 DEF OneWorkerEach
    <3> QED
      BY <3>2, <3>3
  <2> QED
    BY <2>8, <2>9, <2>10, <2>11 DEF OneWorkerEach
<1> QED
  BY <1>3, <1>5, <1>6, <1>7, <1>8, <1>9, WorkerSteps

LEMMA OneWorkerStep ==
    ASSUME TypeOK, HeldJobs, ReadInOrder, QueueInOrder, OneWorkerEach, Next
    PROVE  OneWorkerEach'
BY OneWorkerProducer, OneWorkerWorker, CollectorFrame, OneWorkerFrame DEF Next

-----------------------------------------------------------------------------
\* The results

LEMMA ResultsFrame ==
    ASSUME ResultsTellStatus, UNCHANGED <<opts, status, results, totalErrors, collected>>,
           \A j \in Jobs : Reported(j) => Reported(j)'
    PROVE  ResultsTellStatus'
<1>1. \A k \in 1..Len(results) : Counts(results[k].err)' <=> Counts(results[k].err)
  BY DEF Counts, CheckError
<1> QED
  BY <1>1 DEF ResultsTellStatus

\* An item that had not ended gets another status.
LEMMA ResultsStatus ==
    ASSUME TypeOK, ResultsTellStatus, UNCHANGED <<opts, results, totalErrors, collected>>,
           \A i \in Jobs : Reported(i) => Reported(i)',
           NEW j \in Jobs, status[j] \notin Final, NEW s,
           status' = [status EXCEPT ![j] = s], s \in Final => Reported(j)'
    PROVE  ResultsTellStatus'
<1>1. \A i \in Jobs : status'[i] = IF i = j THEN s ELSE status[i]
  BY DEF TypeOK
<1>2. \A k \in 1..Len(results) : Counts(results[k].err)' <=> Counts(results[k].err)
  BY DEF Counts, CheckError
<1>3. \A k \in 1..Len(results) : results[k].job \in Jobs /\ results[k].job # j
  <2>1. \A k \in 1..Len(results) : results[k] \in Result
    BY DEF TypeOK
  <2> QED
    BY <2>1 DEF ResultsTellStatus, Result
<1>4. \A i \in collected : i \in Jobs /\ i # j
  BY DEF ResultsTellStatus, TypeOK
<1>5. \A k \in 1..Len(results) :
          /\ status'[results[k].job] \in Final
          /\ Counts(results[k].err)' <=> status'[results[k].job] \in Wrong
  BY <1>1, <1>2, <1>3 DEF ResultsTellStatus
<1>6. \A i \in collected :
          status'[i] \in Final /\ (status'[i] \in Wrong => totalErrors # <<>>)
  BY <1>1, <1>4 DEF ResultsTellStatus
<1>7. \A i \in Jobs : status'[i] \in Final => Reported(i)'
  BY <1>1 DEF ResultsTellStatus
<1>8. totalErrors # <<>> => \E i \in Jobs : status'[i] \in Wrong
  BY <1>1 DEF ResultsTellStatus, Final, Wrong
<1> QED
  BY <1>5, <1>6, <1>7, <1>8 DEF ResultsTellStatus

\* A result is sent.
LEMMA ResultsSent ==
    ASSUME TypeOK, ResultsTellStatus, UNCHANGED <<opts, status, totalErrors, collected>>,
           NEW j \in Jobs, NEW e \in Error, status[j] \in Final,
           Counts(e) <=> status[j] \in Wrong,
           results' = Append(results, [job |-> j, err |-> e]),
           \A i \in Jobs : Reported(i) => Reported(i)' \/ i = j
    PROVE  ResultsTellStatus'
<1>1. /\ Len(results) \in Nat /\ Len(results') = Len(results) + 1
      /\ \A k \in 1..Len(results) : results'[k] = results[k]
      /\ results'[Len(results) + 1] = [job |-> j, err |-> e]
  BY DEF TypeOK
<1>2. \A k \in 1..Len(results') : k \in 1..Len(results) \/ k = Len(results) + 1
  BY <1>1
<1>3. \A x : Counts(x)' <=> Counts(x)
  BY DEF Counts, CheckError
<1>4. \A k \in 1..Len(results') :
          /\ status[results'[k].job] \in Final
          /\ Counts(results'[k].err) <=> status[results'[k].job] \in Wrong
  <2>1. SUFFICES ASSUME NEW k \in 1..Len(results')
                 PROVE  /\ status[results'[k].job] \in Final
                        /\ Counts(results'[k].err) <=> status[results'[k].job] \in Wrong
    OBVIOUS
  <2>2. CASE k \in 1..Len(results)
    BY <1>1, <2>2 DEF ResultsTellStatus
  <2>3. CASE k = Len(results) + 1
    <3>1. results'[k].job = j /\ results'[k].err = e
      BY <1>1, <2>3
    <3> QED
      BY <3>1
  <2> QED
    BY <1>2, <2>2, <2>3
<1>5. \A k \in 1..Len(results') : Counts(results'[k].err) <=> Counts(results[k].err)'
  BY DEF Counts, CheckError
<1>6. Reported(j)'
  <2>1. Len(results) + 1 \in 1..Len(results') /\ results'[Len(results) + 1].job = j
    BY <1>1
  <2> QED
    BY <2>1 DEF Reported
<1>7. \A i \in Jobs : status[i] \in Final => Reported(i)'
  BY <1>6 DEF ResultsTellStatus
<1> QED
  BY <1>4, <1>5, <1>7 DEF ResultsTellStatus

LEMMA ResultsProducer ==
    ASSUME TypeOK, TypeOK', HeldJobs, ReadInOrder, ResultsTellStatus, ProducerNext
    PROVE  ResultsTellStatus'
<1>1. UNCHANGED <<opts, worker, totalErrors, collected>>
  BY ProducerFrame DEF collectorVars
<1>2. jobID \in 0..NumInputs /\ NumInputs \in Nat
  BY SizeAssumption DEF TypeOK
<1>3. ASSUME producer \notin {"sendInputError", "sendDeclined"}, results' = results
      PROVE  \A j \in Jobs : Reported(j) => Reported(j)'
  BY <1>1, <1>3 DEF Reported
<1>4. CASE GetNext
  <2>1. results' = results /\ producer = "next"
    BY <1>4 DEF GetNext, resultsVars
  <2>2. \A j \in Jobs : Reported(j) => Reported(j)'
    BY <1>3, <2>1
  <2>3. CASE status' = status
    BY <1>1, <2>1, <2>2, <2>3, ResultsFrame
  <2>4. CASE status' # status
    <3>1. jobID + 1 \in Jobs /\ status[jobID + 1] = "unread" /\ jobID' = jobID + 1
      BY <1>2, <1>4, <2>4 DEF GetNext, InputExhausted, Jobs, ReadInOrder
    <3>2. \/ status' = [status EXCEPT ![jobID + 1] = "ready"]
          \/ /\ \E s : status' = [status EXCEPT ![jobID + 1] = s]
             /\ producer' = "sendInputError"
      BY <1>4, <2>4 DEF GetNext
    <3>3. PICK j \in Jobs : j = jobID + 1
      BY <3>1
    <3>4. producer' = "sendInputError" => Reported(j)'
      BY <3>1, <3>3 DEF Reported
    <3>5. "ready" \notin Final /\ "unread" \notin Final
      BY DEF Final
    <3>6. CASE status' = [status EXCEPT ![j] = "ready"]
      BY <1>1, <2>1, <2>2, <3>1, <3>3, <3>5, <3>6, ResultsStatus
    <3>7. ASSUME producer' = "sendInputError", NEW s, status' = [status EXCEPT ![j] = s]
          PROVE  ResultsTellStatus'
      BY <1>1, <2>1, <2>2, <3>1, <3>3, <3>4, <3>5, <3>7, ResultsStatus
    <3> QED
      BY <3>2, <3>3, <3>6, <3>7
  <2> QED
    BY <2>3, <2>4
<1>5. CASE Prompt
  <2>1. /\ results' = results /\ producer = "prompt" /\ jobID' = jobID
        /\ jobID \in Jobs /\ status[jobID] = "ready"
    BY <1>5 DEF Prompt, resultsVars, HeldJobs, ReadInOrder, Queueing
  <2>2. \A j \in Jobs : Reported(j) => Reported(j)'
    BY <1>3, <2>1
  <2>3. \/ status' = status
        \/ producer' = "sendDeclined" /\ status' = [status EXCEPT ![jobID] = "rejected"]
    BY <1>5 DEF Prompt
  <2>4. producer' = "sendDeclined" => Reported(jobID)'
    BY <2>1 DEF Reported
  <2>5. "ready" \notin Final
    BY DEF Final
  <2> QED
    BY <1>1, <2>1, <2>2, <2>3, <2>4, <2>5, ResultsFrame, ResultsStatus
<1>6. CASE SendJob
  <2>1. /\ results' = results /\ producer = "sendJob"
        /\ jobID \in Jobs /\ status[jobID] = "ready"
        /\ status' = [status EXCEPT ![jobID] = "queued"]
    BY <1>6 DEF SendJob, resultsVars, HeldJobs, ReadInOrder, Queueing
  <2>2. "ready" \notin Final /\ "queued" \notin Final
    BY DEF Final
  <2> QED
    BY <1>1, <1>3, <2>1, <2>2, ResultsStatus
<1>7. CASE /\ SendInputError \/ SendDeclined
           /\ UNCHANGED <<jobID, pendingErr, status>>
  <2>1. producer \in {"sendInputError", "sendDeclined"} /\ jobID \in Jobs
    BY <1>7 DEF SendInputError, SendDeclined, HeldJobs
  <2>2. status[jobID] \in Final /\ (Counts(pendingErr) <=> status[jobID] \in Wrong)
    BY <2>1, OutcomeCases, DeclinedCounts DEF ReadInOrder, Final, Wrong
  <2>3. CASE UNCHANGED <<results, producer>>
    <3>1. \A j \in Jobs : Reported(j) => Reported(j)'
      BY <1>1, <1>7, <2>3 DEF Reported
    <3> QED
      BY <1>1, <1>7, <2>3, <3>1, ResultsFrame
  <2>4. CASE results' = Append(results, [job |-> jobID, err |-> pendingErr])
    <3>1. \A j \in Jobs : Reported(j) => Reported(j)' \/ j = jobID
      <4>1. \A k \in 1..Len(results) : k \in 1..Len(results') /\ results'[k] = results[k]
        BY <2>4 DEF TypeOK
      <4> QED
        BY <1>1, <4>1 DEF Reported
    <3>2. pendingErr \in Error
      BY DEF TypeOK
    <3> QED
      BY <1>1, <1>7, <2>1, <2>2, <2>4, <3>1, <3>2, ResultsSent
  <2> QED
    BY <1>7, <2>3, <2>4 DEF SendInputError, SendDeclined, SendResult
<1>8. CASE /\ PromptWait \/ PromptAdd \/ PromptCount \/ CloseJobs
           /\ UNCHANGED <<results, status>>
  <2>1. producer \notin {"sendInputError", "sendDeclined"}
    BY <1>8 DEF PromptWait, PromptAdd, PromptCount, CloseJobs
  <2> QED
    BY <1>1, <1>3, <1>8, <2>1, ResultsFrame
<1> QED
  BY <1>4, <1>5, <1>6, <1>7, <1>8, ProducerSteps

LEMMA ResultsWorker ==
    ASSUME TypeOK, HeldJobs, QueueInOrder, OneWorkerEach, ResultsTellStatus,
           NEW w \in Workers, WorkerNext(w)
    PROVE  ResultsTellStatus'
<1>1. UNCHANGED <<opts, producer, jobID, totalErrors, collected>>
  BY WorkerFrame DEF producerVars, collectorVars
<1>2. ASSUME results' = results, worker[w].pc # "send",
             \A v \in Workers : v # w => worker'[v] = worker[v]
      PROVE  \A j \in Jobs : Reported(j) => Reported(j)'
  BY <1>1, <1>2 DEF Reported
<1>3. CASE Taken(w)
  <2>1. Head(jobs) \in Jobs /\ status[Head(jobs)] = "queued"
    <3>1. 1 \in 1..Len(jobs) /\ Head(jobs) = jobs[1] /\ jobs[1] \in Jobs
      BY <1>3 DEF Taken, TypeOK
    <3> QED
      BY <3>1 DEF QueueInOrder
  <2>2. \A j \in Jobs : Reported(j) => Reported(j)'
    BY <1>2, <1>3 DEF Taken, TypeOK
  <2>3. "queued" \notin Final /\ "started" \notin Final
    BY DEF Final
  <2> QED
    BY <1>1, <1>3, <2>1, <2>2, <2>3, ResultsStatus DEF Taken
<1>4. CASE Drained(w)
  <2>1. \A j \in Jobs : Reported(j) => Reported(j)'
    BY <1>2, <1>4 DEF Drained, TypeOK
  <2> QED
    BY <1>1, <1>4, <2>1, ResultsFrame DEF Drained
<1>5. CASE Continued(w)
  <2>1. PICK n : worker' = [worker EXCEPT ![w] = At("action", worker[w].job, NoError, n)]
    BY <1>5 DEF Continued
  <2>2. \A j \in Jobs : Reported(j) => Reported(j)'
    BY <1>2, <1>5, <2>1 DEF Continued, TypeOK, Busy
  <2> QED
    BY <1>1, <1>5, <2>2, ResultsFrame DEF Continued
<1>6. CASE Finished(w)
  <2>1. worker[w].job \in Jobs /\ status[worker[w].job] = "started" /\ worker[w].pc # "send"
    BY <1>6 DEF Finished, Busy, HeldJobs, OneWorkerEach
  <2>2. PICK e \in RequestErrors \cup {NoError} : FinishJob(w, e)
    BY <1>6 DEF Finished
  <2>3. \A j \in Jobs : Reported(j) => Reported(j)'
    BY <1>2, <1>6, <2>1, <2>2 DEF Finished, FinishJob, TypeOK
  <2>4. PICK j \in Jobs : j = worker[w].job
    BY <2>1
  <2>5. worker'[w].pc = "send" /\ worker'[w].job = j
    BY <2>2, <2>4 DEF FinishJob, TypeOK, At
  <2>6. Reported(j)'
    BY <2>5 DEF Reported
  <2>7. "started" \notin Final
    BY DEF Final
  <2>8. status' = [status EXCEPT ![j] = Outcome(e, "failed")] /\ results' = results
    BY <1>6, <2>2, <2>4 DEF Finished, FinishJob
  <2> QED
    BY <1>1, <2>1, <2>3, <2>4, <2>6, <2>7, <2>8, ResultsStatus
<1>7. CASE Told(w)
  <2> DEFINE j == worker[w].job
  <2>1. j \in Jobs /\ status[j] = Outcome(worker[w].err, "failed") /\ worker[w].err \in Error
    BY <1>7 DEF Told, HeldJobs, OneWorkerEach, TypeOK, WorkerState
  <2>2. status[j] \in Final /\ (Counts(worker[w].err) <=> status[j] \in Wrong)
    BY <2>1, OutcomeCases DEF Final, Wrong
  <2>3. results' = Append(results, [job |-> j, err |-> worker[w].err]) /\ status' = status
    BY <1>7 DEF Told
  <2>4. \A i \in Jobs : Reported(i) => Reported(i)' \/ i = j
    <3>1. \A k \in 1..Len(results) : k \in 1..Len(results') /\ results'[k] = results[k]
      BY <2>3 DEF TypeOK
    <3>2. \A v \in Workers : v # w => worker'[v] = worker[v]
      BY <1>7 DEF Told, TypeOK
    <3> QED
      BY <1>1, <3>1, <3>2 DEF Reported
  <2> HIDE DEF j
  <2> QED
    BY <1>1, <2>1, <2>2, <2>3, <2>4, ResultsSent
<1>8. CASE Crashed(w)
  <2>1. \A j \in Jobs : Reported(j) => Reported(j)'
    BY <1>1, <1>8 DEF Crashed, Reported
  <2> QED
    BY <1>1, <1>8, <2>1, ResultsFrame DEF Crashed
<1> QED
  BY <1>3, <1>4, <1>5, <1>6, <1>7, <1>8, WorkerSteps

\* The collector takes a result out of the channel and counts it.
LEMMA ResultsReceive ==
    ASSUME TypeOK, ResultsTellStatus, Receive
    PROVE  ResultsTellStatus'
<1>1. /\ results # <<>> /\ results' = Tail(results) /\ received' = Head(results).err
      /\ collected' = collected \cup {Head(results).job}
      /\ totalErrors' = IF Counts(received') THEN Append(totalErrors, CheckError(received'))
                        ELSE totalErrors
      /\ UNCHANGED <<opts, status, worker, producer, jobID>>
  BY DEF Receive, Counts, producerVars
<1>2. /\ Len(results) \in Nat \ {0} /\ Len(results') = Len(results) - 1
      /\ \A k \in 1..Len(results') : results'[k] = results[k + 1]
      /\ Head(results) = results[1] /\ 1 \in 1..Len(results) /\ results[1] \in Result
  BY <1>1 DEF TypeOK
<1>3. PICK j \in Jobs : j = Head(results).job
  BY <1>2 DEF Result
<1>4. PICK e \in Error : e = Head(results).err
  BY <1>2 DEF Result
<1>5. status[j] \in Final /\ (Counts(e) <=> status[j] \in Wrong)
  BY <1>2, <1>3, <1>4 DEF ResultsTellStatus
<1>6. \A x : Counts(x)' <=> Counts(x)
  BY <1>1 DEF Counts, CheckError
<1>7. totalErrors' # <<>> <=> totalErrors # <<>> \/ Counts(e)
  <2>1. totalErrors' = IF Counts(e) THEN Append(totalErrors, CheckError(e)) ELSE totalErrors
    BY <1>1, <1>4
  <2>2. Append(totalErrors, CheckError(e)) # <<>>
    <3>1. CheckError(e) \in Error /\ totalErrors \in Seq(Error)
      BY CheckErrorType DEF TypeOK
    <3>2. Len(Append(totalErrors, CheckError(e))) = Len(totalErrors) + 1
      BY <3>1, AppendProperties
    <3> QED
      BY <3>1, <3>2, EmptySeq
  <2> QED
    BY <2>1, <2>2
<1>8. \A i \in Jobs : Reported(i) => Reported(i)'
  <2>1. SUFFICES ASSUME NEW i \in Jobs, NEW k \in 1..Len(results), results[k].job = i
                 PROVE  Reported(i)'
    BY <1>1 DEF Reported
  <2>2. CASE k = 1
    BY <1>1, <1>2, <1>3, <2>1, <2>2 DEF Reported
  <2>3. CASE k # 1
    <3>1. k - 1 \in 1..Len(results') /\ (k - 1) + 1 = k
      BY <1>2, <2>3
    <3>2. results'[k - 1].job = i
      BY <1>2, <2>1, <3>1
    <3> QED
      BY <3>1, <3>2 DEF Reported
  <2> QED
    BY <2>2, <2>3
<1>9. \A k \in 1..Len(results') :
          /\ status[results'[k].job] \in Final
          /\ Counts(results'[k].err) <=> status[results'[k].job] \in Wrong
  <2>1. \A k \in 1..Len(results') : k + 1 \in 1..Len(results)
    BY <1>2
  <2> QED
    BY <1>2, <2>1 DEF ResultsTellStatus
<1>10. \A k \in 1..Len(results') : Counts(results[k].err)' <=> Counts(results'[k].err)
  BY <1>1 DEF Counts, CheckError
<1>11. \A i \in collected' :
           status[i] \in Final /\ (status[i] \in Wrong => totalErrors' # <<>>)
  BY <1>1, <1>3, <1>5, <1>7 DEF ResultsTellStatus
<1>12. totalErrors' # <<>> => \E i \in Jobs : status[i] \in Wrong
  BY <1>5, <1>7 DEF ResultsTellStatus
<1>13. \A i \in Jobs : status[i] \in Final => Reported(i)'
  BY <1>8 DEF ResultsTellStatus
<1> QED
  BY <1>1, <1>9, <1>10, <1>11, <1>12, <1>13 DEF ResultsTellStatus

LEMMA ResultsStep ==
    ASSUME TypeOK, TypeOK', HeldJobs, ReadInOrder, QueueInOrder, OneWorkerEach,
           ResultsTellStatus, Next
    PROVE  ResultsTellStatus'
<1>1. ASSUME ~Receive, CloserNext \/ CollectorNext PROVE ResultsTellStatus'
  <2>1. UNCHANGED <<opts, status, results, totalErrors, collected, worker, producer, jobID>>
    BY <1>1 DEF CloserNext, WaitWorkers, CloseResults, CollectorNext, Abort, AbortClose,
       ReleasePrompt, PromptDone, Return, Exit, producerVars, resultsVars, collectorVars,
       historyVars
  <2>2. \A j \in Jobs : Reported(j) => Reported(j)'
    BY <2>1 DEF Reported
  <2> QED
    BY <2>1, <2>2, ResultsFrame
<1> QED
  BY <1>1, ResultsProducer, ResultsWorker, ResultsReceive DEF Next

-----------------------------------------------------------------------------
\* The errors

\* Neither "ok" nor "job limit exceeded" is the code of an error that counts.
LEMMA CodeOfCounted ==
    ASSUME NEW e \in KnownErrors, Counts(e)
    PROVE  CheckError(e).exit \notin {ExitOK, ExitJobLimitExceeded}
<1>1. e.kind = "command" => e \in InputErrors \cup RequestErrors
  BY DEF KnownErrors, NoError, AbortAction, Err
<1>2. e.kind = "command" => e.exit \notin {ExitOK, ExitJobLimitExceeded}
  BY <1>1, ExitCodeAssumption
<1> QED
  BY <1>2 DEF Counts, CheckError, CheckPostCommandError, Err, NoError, ExitOK,
     ExitJobLimitExceeded, ExitNotFound404, ExitUserError

LEMMA ErrorCodesStep ==
    ASSUME TypeOK, ErrorCodes, Next
    PROVE  ErrorCodes'
<1>1. NoError \in KnownErrors /\ AbortAction \in KnownErrors
      /\ InputErrors \subseteq KnownErrors /\ RequestErrors \subseteq KnownErrors
  BY DEF KnownErrors
<1>2. ASSUME NEW j \in Jobs, NEW e \in KnownErrors,
             results' = Append(results, [job |-> j, err |-> e])
      PROVE  \A k \in 1..Len(results') : results'[k].err \in KnownErrors
  <2>1. /\ Len(results) \in Nat /\ Len(results') = Len(results) + 1
        /\ \A k \in 1..Len(results) : results'[k] = results[k]
        /\ results'[Len(results) + 1].err = e
    BY <1>2 DEF TypeOK
  <2>2. \A k \in 1..Len(results') : k \in 1..Len(results) \/ k = Len(results) + 1
    BY <2>1
  <2> QED
    BY <2>1, <2>2 DEF ErrorCodes
<1>3. CASE ProducerNext
  <2>1. UNCHANGED <<worker, totalErrors>>
    BY <1>3, ProducerFrame DEF collectorVars
  <2>2. pendingErr' \in KnownErrors
    BY <1>1, <1>3, ProducerSteps DEF GetNext, Prompt, SendJob, ErrorCodes
  <2>3. \A k \in 1..Len(results') : results'[k].err \in KnownErrors
    <3>1. results' = results \/ results' = Append(results, [job |-> jobID, err |-> pendingErr])
      BY <1>3 DEF ProducerNext, GetNext, SendInputError, SendResult, PromptWait, Prompt,
         SendDeclined, PromptAdd, PromptCount, SendJob, CloseJobs, resultsVars
    <3> QED
      BY <1>2, <3>1 DEF ErrorCodes
  <2> QED
    BY <2>1, <2>2, <2>3 DEF ErrorCodes
<1>4. ASSUME NEW w \in Workers, WorkerNext(w) PROVE ErrorCodes'
  <2>1. UNCHANGED <<pendingErr, totalErrors>>
    BY <1>4, WorkerFrame DEF producerVars, collectorVars
  <2>2. \A v \in Workers : worker'[v].err \in KnownErrors
    <3>1. ASSUME NEW s, s.err \in KnownErrors, worker' = [worker EXCEPT ![w] = s]
          PROVE  \A v \in Workers : worker'[v].err \in KnownErrors
      <4>1. \A v \in Workers : worker'[v] = IF v = w THEN s ELSE worker[v]
        BY <3>1 DEF TypeOK
      <4> QED
        BY <3>1, <4>1 DEF ErrorCodes
    <3>2. ASSUME NEW pc, NEW job, NEW e \in KnownErrors, NEW n,
                 worker' = [worker EXCEPT ![w] = At(pc, job, e, n)]
          PROVE  \A v \in Workers : worker'[v].err \in KnownErrors
      <4>1. At(pc, job, e, n).err \in KnownErrors
        BY DEF At
      <4> QED
        BY <3>1, <3>2, <4>1
    <3>3. CASE Crashed(w)
      BY <3>3 DEF Crashed, ErrorCodes
    <3>4. CASE Taken(w) \/ Drained(w) \/ Told(w)
      BY <1>1, <3>2, <3>4 DEF Taken, Drained, Told
    <3>5. CASE Continued(w)
      BY <1>1, <3>2, <3>5 DEF Continued
    <3>6. CASE Finished(w)
      <4>1. PICK e \in RequestErrors \cup {NoError} : FinishJob(w, e)
        BY <3>6 DEF Finished
      <4> QED
        BY <1>1, <3>2, <4>1 DEF FinishJob
    <3> QED
      BY <1>4, <3>3, <3>4, <3>5, <3>6, WorkerSteps
  <2>3. \A k \in 1..Len(results') : results'[k].err \in KnownErrors
    <3>1. CASE results' = results
      BY <3>1 DEF ErrorCodes
    <3>2. CASE results' = Append(results, [job |-> worker[w].job, err |-> worker[w].err])
      BY <1>2, <3>2 DEF ErrorCodes
    <3> QED
      BY <1>4, <3>1, <3>2, WorkerSteps DEF Taken, Drained, Continued, Finished, Told, Crashed
  <2> QED
    BY <2>1, <2>2, <2>3 DEF ErrorCodes
<1>5. CASE Receive
  <2>1. UNCHANGED <<pendingErr, worker>> /\ results # <<>> /\ results' = Tail(results)
    BY <1>5 DEF Receive, producerVars
  <2>2. /\ Len(results) \in Nat \ {0} /\ Len(results') = Len(results) - 1
        /\ \A k \in 1..Len(results') : results'[k] = results[k + 1] /\ k + 1 \in 1..Len(results)
        /\ Head(results) = results[1] /\ 1 \in 1..Len(results) /\ results[1] \in Result
    BY <2>1 DEF TypeOK
  <2>3. \A k \in 1..Len(results') : results'[k].err \in KnownErrors
    BY <2>2 DEF ErrorCodes
  <2>4. PICK e \in Error : e = Head(results).err /\ e \in KnownErrors
    BY <2>2 DEF Result, ErrorCodes
  <2>5. totalErrors' = IF Counts(e) THEN Append(totalErrors, CheckError(e)) ELSE totalErrors
    BY <1>5, <2>4 DEF Receive, Counts
  <2>6. \A k \in 1..Len(totalErrors') :
            totalErrors'[k].exit \notin {ExitOK, ExitJobLimitExceeded}
    <3>1. CASE ~Counts(e)
      BY <2>5, <3>1 DEF ErrorCodes
    <3>2. CASE Counts(e)
      <4>1. CheckError(e) \in Error /\ CheckError(e).exit \notin {ExitOK, ExitJobLimitExceeded}
        BY <2>4, <3>2, CheckErrorType, CodeOfCounted
      <4>2. /\ Len(totalErrors) \in Nat /\ Len(totalErrors') = Len(totalErrors) + 1
            /\ \A k \in 1..Len(totalErrors) : totalErrors'[k] = totalErrors[k]
            /\ totalErrors'[Len(totalErrors) + 1] = CheckError(e)
        BY <2>5, <3>2, <4>1 DEF TypeOK
      <4>3. \A k \in 1..Len(totalErrors') :
                k \in 1..Len(totalErrors) \/ k = Len(totalErrors) + 1
        BY <4>2
      <4> QED
        BY <4>1, <4>2, <4>3 DEF ErrorCodes
    <3> QED
      BY <3>1, <3>2
  <2> QED
    BY <2>1, <2>3, <2>6 DEF ErrorCodes
<1>6. CASE ~Receive /\ (CloserNext \/ CollectorNext)
  <2>1. UNCHANGED <<pendingErr, worker, results, totalErrors>>
    BY <1>6 DEF CloserNext, WaitWorkers, CloseResults, CollectorNext, Abort, AbortClose,
       ReleasePrompt, PromptDone, Return, Exit, producerVars, resultsVars, collectorVars
  <2> QED
    BY <2>1 DEF ErrorCodes
<1> QED
  BY <1>3, <1>4, <1>5, <1>6 DEF Next

-----------------------------------------------------------------------------
\* The end

\* Nothing moves any more once the closer has seen all workers end.
LEMMA AllDone ==
    ASSUME CloseOrder, closer # "wait"
    PROVE  producer = "done" /\ \A w \in Workers : worker[w].pc = "done"
BY WorkersAssumption DEF CloseOrder

LEMMA StepOfRunning == ASSUME Next PROVE process = "running" /\ opts' = opts
BY DEF Next, ProducerNext, GetNext, SendInputError, PromptWait, Prompt, SendDeclined,
       PromptAdd, PromptCount, SendJob, CloseJobs, WorkerNext, TakeJob, SendRequest,
       RunAction, ReportJob, CloserNext, WaitWorkers, CloseResults, CollectorNext, Receive,
       Abort, AbortClose, ReleasePrompt, PromptDone, Return, Exit

LEMMA EndingStep ==
    ASSUME TypeOK, CloseOrder, Ending, Next
    PROVE  Ending'
<1>1. process = "running" /\ opts' = opts
  BY StepOfRunning
<1>2. ASSUME UNCHANGED <<collector, totalErrors, closer>>,
             collector # "returned" \/ closer = "wait",
             (process' = process /\ exitCode' = exitCode) \/ Panic
      PROVE  Ending'
  <2>1. AbortReached' <=> AbortReached
    BY <1>1, <1>2 DEF AbortReached
  <2> QED
    BY <1>1, <1>2, <2>1 DEF Ending, Panic
<1>3. CASE ProducerNext
  <2>1. producer # "done"
    BY <1>3 DEF ProducerNext, GetNext, SendInputError, PromptWait, Prompt, SendDeclined,
       PromptAdd, PromptCount, SendJob, CloseJobs
  <2>2. (process' = process /\ exitCode' = exitCode) \/ Panic
    BY <1>3 DEF ProducerNext, GetNext, SendInputError, SendResult, PromptWait, Prompt,
       SendDeclined, PromptAdd, PromptCount, SendJob, CloseJobs, processVars
  <2> QED
    BY <1>2, <1>3, <2>1, <2>2, AllDone, ProducerFrame DEF collectorVars
<1>4. ASSUME NEW w \in Workers, WorkerNext(w) PROVE Ending'
  <2>1. worker[w].pc # "done"
    BY <1>4 DEF WorkerNext, TakeJob, SendRequest, RunAction, ReportJob
  <2>2. (process' = process /\ exitCode' = exitCode) \/ Panic
    BY <1>4, WorkerSteps
       DEF Taken, Drained, Continued, Finished, Told, Crashed, processVars
  <2> QED
    BY <1>2, <1>4, <2>1, <2>2, AllDone, WorkerFrame DEF collectorVars
<1>5. CASE WaitWorkers
  <2>1. UNCHANGED <<collector, totalErrors, process, exitCode>> /\ closer = "wait"
    BY <1>5 DEF WaitWorkers, collectorVars, processVars
  <2>2. AbortReached' <=> AbortReached
    BY <1>1, <2>1 DEF AbortReached
  <2> QED
    BY <1>1, <2>1, <2>2 DEF Ending
<1>6. CASE CloseResults
  <2>1. /\ UNCHANGED <<collector, totalErrors, results, jobID>>
        /\ closer' = "done"
        /\ (process' = process /\ exitCode' = exitCode) \/ Panic
    BY <1>6 DEF CloseResults, collectorVars, processVars, producerVars
  <2>2. (AbortReached' <=> AbortReached) /\ BatchExitCode' = BatchExitCode
    BY <1>1, <2>1 DEF AbortReached, BatchExitCode, MaxJobsExceeded
  <2> QED
    BY <1>1, <2>1, <2>2 DEF Ending, Panic
<1>7. CASE Receive
  BY <1>1, <1>7 DEF Receive, Ending, processVars
<1>8. CASE Abort \/ AbortClose
  <2>1. AbortReached /\ totalErrors' = totalErrors
    BY <1>8 DEF Abort, AbortClose, CloseOrder
  <2>2. AbortReached'
    BY <1>1, <2>1 DEF AbortReached
  <2> QED
    BY <1>1, <1>8, <2>2 DEF Abort, AbortClose, Ending, Panic, processVars
<1>9. CASE ReleasePrompt
  <2>1. totalErrors' = totalErrors /\ ~AbortReached
    BY <1>9 DEF ReleasePrompt
  <2>2. ~AbortReached'
    BY <1>1, <2>1 DEF AbortReached
  <2> QED
    BY <1>1, <1>9, <2>2 DEF ReleasePrompt, Ending, processVars
<1>10. CASE PromptDone
  <2>1. totalErrors' = totalErrors /\ ~AbortReached
    BY <1>10 DEF PromptDone, Ending
  <2>2. ~AbortReached'
    BY <1>1, <2>1 DEF AbortReached
  <2> QED
    BY <1>1, <1>10, <2>2 DEF PromptDone, Ending, Panic, processVars
<1>11. CASE Return
  <2>1. UNCHANGED <<totalErrors, results, jobID, closer, process>> /\ ~AbortReached
    BY <1>11 DEF Return, Ending, resultsVars, producerVars
  <2>2. ~AbortReached' /\ BatchExitCode' = BatchExitCode
    BY <1>1, <2>1 DEF AbortReached, BatchExitCode, MaxJobsExceeded
  <2>3. closer # "wait" /\ results = <<>>
    BY <1>11, <2>1 DEF Return, CloseOrder
  <2> QED
    BY <1>1, <1>11, <2>1, <2>2, <2>3 DEF Return, Ending
<1>12. CASE Exit
  <2>1. UNCHANGED <<collector, totalErrors, results, jobID, closer, exitCode>>
        /\ process' = "exited" /\ collector = "returned"
    BY <1>12 DEF Exit, collectorVars, resultsVars, producerVars
  <2>2. (AbortReached' <=> AbortReached) /\ BatchExitCode' = BatchExitCode
    BY <1>1, <2>1 DEF AbortReached, BatchExitCode, MaxJobsExceeded
  <2> QED
    BY <1>1, <2>1, <2>2 DEF Ending
<1> QED
  BY <1>3, <1>4, <1>5, <1>6, <1>7, <1>8, <1>9, <1>10, <1>11, <1>12
     DEF Next, CloserNext, CollectorNext

LEMMA InitRInv == Init => RInv
<1> SUFFICES ASSUME Init PROVE RInv
  OBVIOUS
<1>1. ReadInOrder
  <2>1. opts.maxJobs \in Nat
    BY DataAssumption DEF Init, OptionSet
  <2>2. ~MaxJobsExceeded(jobID)
    BY <2>1 DEF Init, MaxJobsExceeded
  <2> QED
    BY <2>2, SizeAssumption DEF Init, ReadInOrder, Queueing, Jobs
<1>2. QueueInOrder
  BY DEF Init, QueueInOrder, At
<1>3. OneWorkerEach
  BY DEF Init, OneWorkerEach, Busy, At
<1>4. ResultsTellStatus
  BY DEF Init, ResultsTellStatus, Final
<1>5. ErrorCodes
  BY DEF Init, ErrorCodes, KnownErrors, At
<1>6. Ending
  <2>1. opts.abortOnErrors \in Nat
    BY DataAssumption DEF Init, OptionSet
  <2> QED
    BY <2>1 DEF Init, Ending, AbortReached
<1> QED
  BY <1>1, <1>2, <1>3, <1>4, <1>5, <1>6 DEF RInv

LEMMA RInvStutter ==
    ASSUME RInv, UNCHANGED vars
    PROVE  RInv'
<1>1. UNCHANGED <<opts, producer, jobID, pendingErr, jobs, results, worker, closer,
                  collector, totalErrors, process, exitCode, status, answers, collected>>
  BY DEF vars, producerVars, jobsVars, resultsVars, collectorVars, processVars, historyVars
<1>2. ReadInOrder' /\ QueueInOrder' /\ OneWorkerEach'
  BY <1>1, ReadFrame, QueueFrame, OneWorkerFrame DEF RInv
<1>3. ResultsTellStatus'
  <2>1. \A j \in Jobs : Reported(j) => Reported(j)'
    BY <1>1 DEF Reported
  <2> QED
    BY <1>1, <2>1, ResultsFrame DEF RInv
<1>4. ErrorCodes'
  BY <1>1 DEF RInv, ErrorCodes
<1>5. Ending'
  BY <1>1 DEF RInv, Ending, AbortReached, BatchExitCode, MaxJobsExceeded
<1> QED
  BY <1>2, <1>3, <1>4, <1>5 DEF RInv

LEMMA PlacesInvariant == Spec => []RInv
<1>1. IInv /\ IInv' /\ RInv /\ [Next]_vars => RInv'
  <2>1. ASSUME IInv, IInv', RInv, Next PROVE RInv'
    BY <2>1, ReadStep, QueueStep, OneWorkerStep, ResultsStep, ErrorCodesStep, EndingStep
       DEF IInv, RInv
  <2> QED
    BY <2>1, RInvStutter
<1> QED
  BY <1>1, InitRInv, InvariantHolds, PTL DEF Spec

-----------------------------------------------------------------------------
\* Nothing is lost, and success is earned

\* When the collector returns and did not abort, every item that was read has
\* ended and its result was collected.
LEMMA AllCollected ==
    ASSUME IInv, RInv, collector = "returned", ~AbortReached,
           NEW j \in Jobs, status[j] # "unread"
    PROVE  j \in collected /\ status[j] \in Final
<1>1. closer # "wait" /\ results = <<>>
  BY DEF IInv, CloseOrder, RInv, Ending
<1>2. producer = "done" /\ \A w \in Workers : worker[w].pc = "done"
  BY <1>1, AllDone DEF IInv
<1>3. jobs = <<>>
  BY <1>2, WorkersAssumption DEF RInv, QueueInOrder
<1>4. status[j] # "ready"
  BY <1>2 DEF RInv, ReadInOrder, Queueing
<1>5. status[j] # "queued"
  BY <1>3 DEF RInv, QueueInOrder
<1>6. status[j] # "started"
  BY <1>2 DEF RInv, OneWorkerEach, Busy
<1>7. status[j] \in Final
  BY <1>4, <1>5, <1>6 DEF IInv, TypeOK, Statuses, Final
<1>8. Reported(j)
  BY <1>7 DEF RInv, ResultsTellStatus
<1> QED
  BY <1>1, <1>2, <1>7, <1>8 DEF Reported

\* A batch that returns without having been aborted has collected the result of
\* every item it read (worker.go:331-392).
THEOREM NothingIsLost == Spec => []NothingLost
<1>1. IInv /\ RInv => NothingLost
  BY AllCollected DEF NothingLost, Final
<1> QED
  BY <1>1, InvariantHolds, PlacesInvariant, PTL

\* The exit code that the batch returns, and what it says of the items.
LEMMA ReturnedCode ==
    ASSUME IInv, RInv, collector = "returned", ~AbortReached
    PROVE  \/ /\ totalErrors # <<>>
              /\ BatchExitCode \notin {ExitOK, ExitJobLimitExceeded}
           \/ /\ totalErrors = <<>> /\ MaxJobsExceeded(jobID)
              /\ BatchExitCode = ExitJobLimitExceeded
           \/ /\ totalErrors = <<>> /\ ~MaxJobsExceeded(jobID)
              /\ BatchExitCode = ExitOK
<1>1. totalErrors \in Seq(Error)
  BY DEF IInv, TypeOK
<1>2. CASE totalErrors = <<>>
  BY <1>2 DEF BatchExitCode
<1>3. CASE Len(totalErrors) = 1
  <2>1. 1 \in 1..Len(totalErrors) /\ totalErrors # <<>>
    BY <1>1, <1>3
  <2>2. totalErrors[1].exit \notin {ExitOK, ExitJobLimitExceeded}
    BY <2>1 DEF RInv, ErrorCodes
  <2> QED
    BY <1>3, <2>1, <2>2 DEF BatchExitCode
<1>4. CASE Len(totalErrors) > 1
  <2>1. totalErrors # <<>> /\ Len(totalErrors) # 1
    <3>1. totalErrors = <<>> => Len(totalErrors) = 0
      OBVIOUS
    <3>2. Len(totalErrors) \in Nat
      BY <1>1, LenProperties
    <3>3. \A n \in Nat : n > 1 => n # 0 /\ n # 1
      OBVIOUS
    <3> QED
      BY <1>4, <3>1, <3>2, <3>3, Zenon
  <2>2. BatchExitCode = ExitCompletedWithErrors
    BY <1>4, <2>1 DEF BatchExitCode
  <2> QED
    BY <2>1, <2>2 DEF ExitCompletedWithErrors, ExitOK, ExitJobLimitExceeded
<1>5. totalErrors = <<>> \/ Len(totalErrors) = 1 \/ Len(totalErrors) > 1
  BY <1>1, EmptySeq
<1> QED
  BY <1>2, <1>3, <1>4, <1>5

\* Without errors every item that was read is fine.
LEMMA SettledWithoutErrors ==
    ASSUME IInv, RInv, collector = "returned", ~AbortReached, totalErrors = <<>>
    PROVE  /\ \A j \in Jobs : status[j] \in {"unread", "ok", "ignored"}
           /\ ~MaxJobsExceeded(jobID) =>
                 \/ \A j \in Jobs : status[j] # "unread"
                 \/ \E j \in Jobs : status[j] = "ignored"
           /\ MaxJobsExceeded(jobID) => \E j \in Jobs : status[j] = "unread"
<1>1. \A j \in Jobs : status[j] \in {"unread", "ok", "ignored"}
  <2>1. SUFFICES ASSUME NEW j \in Jobs, status[j] # "unread"
                 PROVE  status[j] \in {"ok", "ignored"}
    OBVIOUS
  <2>2. j \in collected /\ status[j] \in Final
    BY <2>1, AllCollected
  <2>3. status[j] \notin Wrong
    BY <2>2 DEF RInv, ResultsTellStatus
  <2> QED
    BY <2>2, <2>3 DEF Final, Wrong
<1>2. closer # "wait"
  BY DEF IInv, CloseOrder, RInv, Ending
<1>3. producer = "done"
  BY <1>2, AllDone DEF IInv
<1>4. jobID \in 0..NumInputs /\ NumInputs \in Nat /\ opts.maxJobs \in Nat
  BY SizeAssumption, DataAssumption DEF IInv, TypeOK, OptionSet
<1>5. ASSUME ~MaxJobsExceeded(jobID), NEW j \in Jobs, status[j] = "unread"
      PROVE  \E i \in Jobs : status[i] = "ignored"
  <2>1. ~(j <= jobID)
    BY <1>5 DEF RInv, ReadInOrder
  <2>2. jobID # NumInputs
    BY <1>4, <2>1 DEF Jobs
  <2>3. \E i \in Jobs : status[i] \in {"ignored", "rejected"}
    BY <1>3, <1>5, <2>2 DEF RInv, ReadInOrder
  <2> QED
    BY <1>1, <2>3
<1>6. ASSUME MaxJobsExceeded(jobID) PROVE \E j \in Jobs : status[j] = "unread"
  <2>1. jobID \in Jobs
    BY <1>4, <1>6 DEF MaxJobsExceeded, Jobs
  <2> QED
    BY <1>6, <2>1 DEF RInv, ReadInOrder
<1> QED
  BY <1>1, <1>5, <1>6

\* Exit code 0 is honest: nothing failed that was not silenced, nothing was
\* declined, and nothing was left out unless an error was silenced
\* (worker.go:376-392).
THEOREM SuccessIsAlwaysEarned == Spec => []SuccessIsEarned
<1>1. ASSUME IInv, RInv PROVE SuccessIsEarned
  <2>1. SUFFICES ASSUME process = "exited", exitCode = ExitOK
                 PROVE  /\ \A j \in Jobs : status[j] \in {"unread", "ok", "ignored"}
                        /\ (\E j \in Jobs : status[j] = "unread")
                              => \E j \in Jobs : status[j] = "ignored"
    BY DEF SuccessIsEarned
  <2>2. collector = "returned" /\ ~AbortReached /\ BatchExitCode = ExitOK
    BY <1>1, <2>1 DEF RInv, Ending, ExitOK, ExitAbortedWithErrors
  <2>3. totalErrors = <<>> /\ ~MaxJobsExceeded(jobID)
    BY <1>1, <2>2, ReturnedCode DEF ExitOK, ExitJobLimitExceeded
  <2> QED
    BY <1>1, <2>2, <2>3, SettledWithoutErrors
<1> QED
  BY <1>1, InvariantHolds, PlacesInvariant, PTL

-----------------------------------------------------------------------------
\* No unconfirmed request

LEMMA AgreedStays ==
    ASSUME NEW j \in Jobs, Agreed(j), opts' = opts,
           \A i \in Jobs : answers[i] # "none" => answers'[i] = answers[i]
    PROVE  Agreed(j)'
<1>1. \A i \in 1..j : i \in Jobs
  BY SizeAssumption DEF Jobs
<1>2. j \in 1..j
  BY SizeAssumption DEF Jobs
<1> QED
  BY <1>1, <1>2 DEF Agreed

LEMMA AgreedProducer ==
    ASSUME IInv, ReadInOrder, UnderWayAgreed, ProducerNext
    PROVE  UnderWayAgreed'
<1>1. opts' = opts /\ TypeOK /\ HeldJobs
  BY ProducerFrame DEF IInv
<1>2. jobID \in 0..NumInputs /\ NumInputs \in Nat
  BY <1>1, SizeAssumption DEF TypeOK
<1>3. ASSUME UNCHANGED <<jobID, answers, status, skipConfirm, reply>>,
             \/ producer' = producer
             \/ producer \in {"promptAdd", "promptCount"}
                /\ producer' \in {"promptCount", "sendJob"}
             \/ producer = "wait" /\ producer' = "prompt"
             \/ producer = "close" /\ producer' = "done"
             \/ producer = "sendDeclined" /\ producer' = "close"
             \/ producer = "sendDeclined" /\ producer' = "next" /\ reply # "noToAll"
             \/ producer = "sendInputError" /\ producer' \in {"close", "next"}
             \/ producer = "next" /\ producer' = "close"
      PROVE  UnderWayAgreed'
  <2>1. \A j : Agreed(j) => (opts'.confirm =>
            answers'[j] = "yes" \/ \E i \in 1..j : answers'[i] = "yesToAll")
    BY <1>1, <1>3 DEF Agreed
  <2> QED
    BY <1>3, <2>1 DEF UnderWayAgreed, Agreed
<1>4. CASE GetNext
  <2>1. UNCHANGED <<answers, skipConfirm, reply>> /\ producer = "next"
    BY <1>4 DEF GetNext
  <2>2. CASE UNCHANGED <<jobID, status>> /\ producer' = "close"
    BY <1>3, <2>1, <2>2
  <2>3. CASE jobID' = jobID + 1 /\ jobID + 1 \in Jobs
    <3>1. status[jobID + 1] = "unread" /\ answers[jobID + 1] = "none"
      BY <1>2, <2>3 DEF ReadInOrder
    <3>2. /\ status' = status \/ \E s \in {"ready", "ignored", "rejected"} :
                                    status' = [status EXCEPT ![jobID + 1] = s]
          /\ producer' \in {"wait", "sendJob", "sendInputError", "close"}
          /\ producer' = "sendJob" => ~NeedsConfirm
      <4>1. ASSUME NEW e \in InputErrors PROVE Outcome(e, "rejected") \in {"ignored", "rejected"}
        BY DataAssumption, OutcomeCases
      <4>2. ~InputExhausted
        BY <1>2, <1>4, <2>3 DEF GetNext
      <4> QED
        BY <1>4, <4>1, <4>2 DEF GetNext
    <3>3. \A j \in Jobs : Agreed(j) => Agreed(j)'
      BY <1>1, <2>1, AgreedStays
    <3>4. \A j \in Jobs : status'[j] \in {"queued", "started", "ok", "failed"} => Agreed(j)'
      <4>1. \A j \in Jobs : status'[j] \in {"queued", "started", "ok", "failed"}
                                => status[j] = status'[j]
        BY <1>1, <2>3, <3>2 DEF TypeOK
      <4> QED
        BY <3>3, <4>1 DEF UnderWayAgreed
    <3>5. \A j \in Jobs : j = jobID' /\ producer' = "sendJob" => Agreed(j)'
      <4>1. SUFFICES ASSUME producer' = "sendJob", opts.confirm, NEW j \in Jobs, j = jobID'
                     PROVE  \E i \in 1..j : answers'[i] = "yesToAll"
        BY <1>1 DEF Agreed
      <4>2. skipConfirm
        BY <3>2, <4>1 DEF NeedsConfirm
      <4>3. PICK i \in Jobs : i <= jobID /\ answers[i] = "yesToAll"
        BY <4>2 DEF UnderWayAgreed
      <4>4. i \in 1..j
        BY <1>2, <2>3, <4>1, <4>3 DEF Jobs
      <4> QED
        BY <2>1, <4>3, <4>4
    <3>6. skipConfirm' => \E i \in Jobs : i <= jobID' /\ answers'[i] = "yesToAll"
      BY <1>2, <2>1, <2>3 DEF UnderWayAgreed, Jobs
    <3>7. \A i \in Jobs : answers'[i] # "noToAll"
      BY <2>1 DEF UnderWayAgreed
    <3>8. producer' \in {"wait", "prompt"} => answers'[jobID'] = "none"
      BY <2>1, <2>3, <3>1
    <3>9. producer' \in {"promptAdd", "promptCount", "sendJob"} => Agreed(jobID)'
      BY <2>3, <3>2, <3>5 DEF Agreed
    <3> QED
      BY <3>2, <3>4, <3>6, <3>7, <3>8, <3>9 DEF UnderWayAgreed
  <2> QED
    BY <1>2, <1>4, <2>2, <2>3 DEF GetNext, InputExhausted, Jobs
<1>5. CASE Prompt
  <2>1. /\ jobID \in Jobs /\ status[jobID] = "ready" /\ answers[jobID] = "none"
        /\ jobID' = jobID /\ producer = "prompt"
    BY <1>1, <1>5 DEF Prompt, HeldJobs, ReadInOrder, Queueing, UnderWayAgreed
  <2>2. /\ answers' = [answers EXCEPT ![jobID] = reply']
        /\ reply' \in {"yes", "yesToAll", "no", "noToAll"}
        /\ skipConfirm' = (skipConfirm \/ reply' = "yesToAll")
    BY <1>5 DEF Prompt, ConfirmResult
  <2>3. \/ reply' \in {"yes", "yesToAll"} /\ producer' = "promptAdd" /\ status' = status
        \/ /\ reply' \in {"no", "noToAll"} /\ producer' = "sendDeclined"
           /\ status' = [status EXCEPT ![jobID] = "rejected"]
    BY <1>5, <2>2 DEF Prompt
  <2>4. \A i \in Jobs : answers'[i] = IF i = jobID THEN reply' ELSE answers[i]
    BY <1>1, <2>1, <2>2 DEF TypeOK
  <2>5. \A j \in Jobs : Agreed(j) => Agreed(j)'
    BY <1>1, <2>1, <2>4, AgreedStays
  <2>6. \A j \in Jobs : status'[j] \in {"queued", "started", "ok", "failed"} => Agreed(j)'
    <3>1. \A j \in Jobs : status'[j] \in {"queued", "started", "ok", "failed"}
                              => status[j] = status'[j]
      BY <1>1, <2>1, <2>3 DEF TypeOK
    <3> QED
      BY <2>5, <3>1 DEF UnderWayAgreed
  <2>7. producer' = "promptAdd" => Agreed(jobID)'
    <3>1. jobID \in 1..jobID
      BY <1>2, <2>1 DEF Jobs
    <3> QED
      BY <2>1, <2>3, <2>4, <3>1 DEF Agreed
  <2>8. skipConfirm' => \E i \in Jobs : i <= jobID' /\ answers'[i] = "yesToAll"
    <3>1. CASE skipConfirm
      <4>1. PICK i \in Jobs : i <= jobID /\ answers[i] = "yesToAll"
        BY <3>1 DEF UnderWayAgreed
      <4> QED
        BY <2>1, <2>4, <4>1
    <3>2. CASE reply' = "yesToAll"
      BY <1>2, <2>1, <2>4, <3>2
    <3> QED
      BY <2>2, <3>1, <3>2
  <2>9. \A i \in Jobs : answers'[i] = "noToAll" => i = jobID' /\ producer' = "sendDeclined"
    BY <2>1, <2>3, <2>4 DEF UnderWayAgreed
  <2>10. producer' = "sendDeclined" => reply' = answers'[jobID']
    BY <2>1, <2>4
  <2> QED
    BY <2>3, <2>6, <2>7, <2>8, <2>9, <2>10 DEF UnderWayAgreed
<1>6. CASE SendJob
  <2>1. /\ jobID \in Jobs /\ producer = "sendJob" /\ producer' = "next"
        /\ UNCHANGED <<jobID, answers, skipConfirm, reply>>
        /\ status' = [status EXCEPT ![jobID] = "queued"]
    BY <1>1, <1>6 DEF SendJob, HeldJobs
  <2>2. \A i \in Jobs : status'[i] = IF i = jobID THEN "queued" ELSE status[i]
    BY <1>1, <2>1 DEF TypeOK
  <2>3. \A j \in Jobs : Agreed(j) => Agreed(j)'
    BY <1>1, <2>1, AgreedStays
  <2>4. \A j \in Jobs : status'[j] \in {"queued", "started", "ok", "failed"} => Agreed(j)'
    BY <2>1, <2>2, <2>3 DEF UnderWayAgreed
  <2> QED
    BY <2>1, <2>4 DEF UnderWayAgreed
<1>7. CASE /\ SendInputError \/ SendDeclined
           /\ UNCHANGED <<jobID, skipConfirm, reply, status, answers>>
  BY <1>3, <1>7 DEF SendInputError, SendDeclined, SendResult, AfterDecline
<1>8. CASE /\ PromptWait \/ PromptAdd \/ PromptCount \/ CloseJobs
           /\ UNCHANGED <<jobID, skipConfirm, reply, status, answers>>
  BY <1>3, <1>8 DEF PromptWait, PromptAdd, PromptCount, CloseJobs
<1> QED
  BY <1>4, <1>5, <1>6, <1>7, <1>8, ProducerSteps

LEMMA AgreedWorker ==
    ASSUME IInv, RInv, UnderWayAgreed, NEW w \in Workers, WorkerNext(w)
    PROVE  UnderWayAgreed'
<1>1. UNCHANGED <<opts, producerVars, answers>> /\ TypeOK /\ HeldJobs
  BY WorkerFrame DEF IInv
<1>2. \A j \in Jobs : Agreed(j) => Agreed(j)'
  BY <1>1, AgreedStays
<1>3. ASSUME \A j \in Jobs : status'[j] \in {"queued", "started", "ok", "failed"}
                                => Agreed(j)
      PROVE  UnderWayAgreed'
  BY <1>1, <1>2, <1>3 DEF UnderWayAgreed, Agreed, producerVars
<1>4. CASE status' = status
  BY <1>3, <1>4 DEF UnderWayAgreed
<1>5. ASSUME NEW j \in Jobs, status[j] \in {"queued", "started"},
             NEW s, status' = [status EXCEPT ![j] = s]
      PROVE  UnderWayAgreed'
  <2>1. \A i \in Jobs : i # j => status'[i] = status[i]
    BY <1>1, <1>5 DEF TypeOK
  <2> QED
    BY <1>3, <1>5, <2>1 DEF UnderWayAgreed
<1>6. CASE Taken(w)
  <2>1. 1 \in 1..Len(jobs) /\ Head(jobs) = jobs[1] /\ jobs[1] \in Jobs
    BY <1>1, <1>6 DEF Taken, TypeOK
  <2>2. status[jobs[1]] = "queued"
    BY <2>1 DEF RInv, QueueInOrder
  <2> QED
    BY <1>5, <1>6, <2>1, <2>2 DEF Taken
<1>7. CASE Finished(w)
  <2>1. worker[w].job \in Jobs /\ status[worker[w].job] = "started"
    BY <1>1, <1>7 DEF Finished, Busy, HeldJobs, RInv, OneWorkerEach
  <2> QED
    BY <1>5, <1>7, <2>1 DEF Finished, FinishJob
<1> QED
  BY <1>4, <1>6, <1>7, WorkerSteps DEF Drained, Continued, Told, Crashed

LEMMA AgreedFrame ==
    ASSUME UnderWayAgreed, UNCHANGED <<opts, producerVars, status, answers>>
    PROVE  UnderWayAgreed'
BY DEF UnderWayAgreed, Agreed, producerVars

LEMMA AgreedInvariant == Spec => []UnderWayAgreed
<1>1. Init => UnderWayAgreed
  BY DEF Init, UnderWayAgreed
<1>2. IInv /\ RInv /\ UnderWayAgreed /\ [Next]_vars => UnderWayAgreed'
  <2>1. ASSUME IInv, RInv, UnderWayAgreed, Next PROVE UnderWayAgreed'
    BY <2>1, AgreedProducer, AgreedWorker, CollectorFrame, AgreedFrame DEF Next, RInv
  <2>2. ASSUME UnderWayAgreed, UNCHANGED vars PROVE UnderWayAgreed'
    BY <2>2, AgreedFrame DEF vars, historyVars
  <2> QED
    BY <2>1, <2>2
<1> QED
  BY <1>1, <1>2, InvariantHolds, PlacesInvariant, PTL DEF Spec

\* In a batch that must be confirmed, a request is sent only after the user has
\* agreed to it, and nothing is read after "no to all" (worker.go:269-310).
THEOREM NoRequestUnconfirmed == Spec => []NoUnconfirmedRequest
<1>1. ASSUME IInv, RInv, UnderWayAgreed PROVE NoUnconfirmedRequest
  <2>1. \A j \in Jobs : status[j] \in Accepted \ {"ignored"} => Agreed(j)
    BY <1>1 DEF UnderWayAgreed, Accepted
  <2>2. ASSUME NEW i \in Jobs, NEW j \in Jobs, answers[i] = "noToAll", i < j
        PROVE  status[j] = "unread"
    <3>1. i = jobID
      BY <1>1, <2>2 DEF UnderWayAgreed
    <3>2. j > jobID
      BY <2>2, <3>1, SizeAssumption DEF Jobs
    <3> QED
      BY <1>1, <3>2 DEF RInv, ReadInOrder
  <2> QED
    BY <2>1, <2>2 DEF NoUnconfirmedRequest, Agreed
<1> QED
  BY <1>1, InvariantHolds, PlacesInvariant, AgreedInvariant, PTL

-----------------------------------------------------------------------------
\* The refinement

\* What is seen of an item with the given status.
Seen(s) ==
    IF s \in {"ready", "queued"} THEN "accepted"
    ELSE IF s = "started" THEN "running" ELSE s

LEMMA OutcomeSeen ==
    /\ observedOutcome = [j \in Jobs |-> Seen(status[j])]
    /\ observedOutcome' = [j \in Jobs |-> Seen(status'[j])]
BY DEF observedOutcome, Seen

LEMMA OutcomeChange ==
    ASSUME TypeOK, NEW j \in Jobs, NEW s, status' = [status EXCEPT ![j] = s]
    PROVE  observedOutcome' = [observedOutcome EXCEPT ![j] = Seen(s)]
BY OutcomeSeen DEF TypeOK

LEMMA VerdictOpen ==
    /\ process = "running" => observedVerdict = "open"
    /\ process' = "running" => observedVerdict' = "open"
BY DEF observedVerdict

LEMMA PromiseJobs == Promise!Jobs = Jobs
BY DEF Promise!Jobs, Jobs

\* A reached threshold means that something went wrong.
LEMMA WrongItem ==
    ASSUME IInv, RInv, AbortReached \/ totalErrors # <<>>
    PROVE  Promise!With("failed") \cup Promise!With("rejected") # {}
<1>1. totalErrors # <<>>
  <2>1. opts.abortOnErrors \in Nat
    BY DataAssumption DEF IInv, TypeOK, OptionSet
  <2> QED
    BY <2>1 DEF AbortReached
<1>2. PICK j \in Jobs : status[j] \in Wrong
  BY <1>1 DEF RInv, ResultsTellStatus
<1>3. observedOutcome[j] \in {"failed", "rejected"}
  BY <1>2, OutcomeSeen DEF Seen, Wrong
<1> QED
  BY <1>3, PromiseJobs DEF Promise!With

\* Steps that change no status: the process goes on, or it panics.
LEMMA QuietStep ==
    ASSUME IInv', RInv, IInv, process = "running", status' = status, totalErrors' = totalErrors,
           opts' = opts, process' = process \/ Panic
    PROVE  Promise!Verdict \/ UNCHANGED Promise!batchVars
<1>1. observedOutcome' = observedOutcome
  BY OutcomeSeen
<1>2. CASE process' = process
  BY <1>1, <1>2, VerdictOpen DEF Promise!batchVars
<1>3. CASE Panic
  <2>1. AbortReached'
    BY <1>3 DEF Panic, IInv, CloseOrder
  <2>2. AbortReached
    BY <2>1 DEF AbortReached
  <2>3. observedVerdict' = "failure"
    BY <1>3 DEF Panic, observedVerdict
  <2> QED
    BY <1>1, <2>2, <2>3, VerdictOpen, WrongItem DEF Promise!Verdict
<1> QED
  BY <1>2, <1>3

\* Reading an item, declining it and queueing it.
LEMMA PromiseProducer ==
    ASSUME IInv, IInv', RInv, ProducerNext
    PROVE  Promise!Next \/ UNCHANGED Promise!batchVars
<1>1. /\ TypeOK /\ opts' = opts /\ totalErrors' = totalErrors /\ process = "running"
      /\ jobID \in 0..NumInputs /\ NumInputs \in Nat
  BY ProducerFrame, StepOfRunning, SizeAssumption DEF Next, IInv, TypeOK, collectorVars
<1>2. process' = process \/ Panic
  BY DEF ProducerNext, GetNext, SendInputError, SendResult, PromptWait, Prompt, SendDeclined,
         PromptAdd, PromptCount, SendJob, CloseJobs, processVars
<1>3. CASE status' = status
  BY <1>1, <1>2, <1>3, QuietStep DEF Promise!Next
<1>4. CASE GetNext /\ status' # status
  <2>1. process' = process /\ producer = "next" /\ ~InputExhausted
    BY <1>4 DEF GetNext, processVars
  <2>2. PICK s \in {"ready", "ignored", "rejected"} :
            status' = [status EXCEPT ![jobID + 1] = s]
    <3>1. ASSUME NEW e \in InputErrors
          PROVE  Outcome(e, "rejected") \in {"ignored", "rejected"}
      BY DataAssumption, OutcomeCases
    <3> QED
      BY <1>4, <3>1 DEF GetNext
  <2>3. PICK j \in Jobs : j = jobID + 1
    BY <1>1, <2>1 DEF InputExhausted, Jobs
  <2>4. observedOutcome[j] = "unread"
    <3>1. j > jobID
      BY <1>1, <2>3
    <3> QED
      BY <3>1, OutcomeSeen DEF RInv, ReadInOrder, Seen
  <2>5. \A i \in Jobs : i < j => observedOutcome[i] # "unread"
    <3>1. SUFFICES ASSUME NEW i \in Jobs, i < j PROVE status[i] # "unread"
      BY OutcomeSeen DEF Seen
    <3>2. i <= jobID
      BY <1>1, <2>3, <3>1 DEF Jobs
    <3> QED
      BY <2>1, <3>2 DEF RInv, ReadInOrder
  <2>6. observedOutcome' = [observedOutcome EXCEPT ![j] = Seen(s)]
    BY <1>1, <2>2, <2>3, OutcomeChange
  <2>7. Seen(s) \in {"accepted", "rejected", "ignored"}
    BY DEF Seen
  <2>8. Promise!Read(j)
    BY <1>1, <2>1, <2>4, <2>5, <2>6, <2>7, VerdictOpen, PromiseJobs DEF Promise!Read
  <2> QED
    BY <2>8, PromiseJobs DEF Promise!Next
<1>5. CASE Prompt /\ status' # status
  <2>1. /\ jobID \in Jobs /\ status[jobID] = "ready" /\ process' = process
        /\ status' = [status EXCEPT ![jobID] = "rejected"]
    BY <1>5 DEF Prompt, IInv, HeldJobs, RInv, ReadInOrder, Queueing, processVars
  <2>2. observedOutcome' = [observedOutcome EXCEPT ![jobID] = "rejected"]
    BY <1>1, <2>1, OutcomeChange DEF Seen
  <2>3. observedOutcome[jobID] = "accepted"
    BY <2>1, OutcomeSeen DEF Seen
  <2>4. \A i \in Jobs : i > jobID => observedOutcome[i] = "unread"
    BY OutcomeSeen DEF RInv, ReadInOrder, Seen
  <2>5. Promise!Decline(jobID)
    BY <1>1, <2>1, <2>2, <2>3, <2>4, VerdictOpen, PromiseJobs DEF Promise!Decline
  <2> QED
    BY <2>1, <2>5, PromiseJobs DEF Promise!Next
<1>6. CASE SendJob
  <2>1. /\ jobID \in Jobs /\ status[jobID] = "ready" /\ process' = process
        /\ status' = [status EXCEPT ![jobID] = "queued"]
    BY <1>6 DEF SendJob, IInv, HeldJobs, RInv, ReadInOrder, Queueing, processVars
  <2>2. \A i \in Jobs : Seen(status'[i]) = Seen(status[i])
    BY <1>1, <2>1 DEF TypeOK, Seen
  <2>3. observedOutcome' = observedOutcome
    BY <2>2, OutcomeSeen
  <2> QED
    BY <1>1, <2>1, <2>3, VerdictOpen DEF Promise!batchVars
<1> QED
  BY <1>3, <1>4, <1>5, <1>6, ProducerSteps

\* The started items have a worker each, none of which is w.
LEMMA FewerThanWorkers ==
    ASSUME IInv, RInv, NEW w \in Workers, ~Busy(w)
    PROVE  Cardinality({j \in Jobs : status[j] = "started"}) < Cardinality(Workers)
<1> DEFINE Started == {j \in Jobs : status[j] = "started"}
<1> DEFINE workerOf == [j \in Started |-> CHOOSE v \in Workers : Busy(v) /\ worker[v].job = j]
<1>1. \A j \in Started : /\ workerOf[j] \in Workers \ {w}
                         /\ worker[workerOf[j]].job = j
  <2>1. SUFFICES ASSUME NEW j \in Started
                 PROVE  workerOf[j] \in Workers \ {w} /\ worker[workerOf[j]].job = j
    OBVIOUS
  <2>2. \E v \in Workers : Busy(v) /\ worker[v].job = j
    BY <2>1 DEF RInv, OneWorkerEach
  <2>3. workerOf[j] \in Workers /\ Busy(workerOf[j]) /\ worker[workerOf[j]].job = j
    BY <2>1, <2>2
  <2> QED
    BY <2>3
<1>2. workerOf \in Injection(Started, Workers \ {w})
  <2>1. workerOf \in [Started -> Workers \ {w}]
    BY <1>1
  <2> HIDE DEF workerOf, Started
  <2>2. \A i, j \in Started : workerOf[i] = workerOf[j] => i = j
    BY <1>1
  <2> QED
    BY <2>1, <2>2 DEF Injection, IsInjective
<1> HIDE DEF workerOf, Started
<1>3. /\ IsFiniteSet(Workers \ {w}) /\ Cardinality(Workers) \in Nat
      /\ Cardinality(Workers \ {w}) = Cardinality(Workers) - 1
  BY WorkersAssumption, FS_RemoveElement, FS_CardinalityType
<1>4. /\ IsFiniteSet(Started)
      /\ Cardinality(Started) <= Cardinality(Workers \ {w})
  BY <1>2, <1>3, FS_Injection
<1>5. Cardinality(Started) \in Nat
  BY <1>4, FS_CardinalityType
<1>6. Cardinality(Started) < Cardinality(Workers)
  BY <1>3, <1>4, <1>5
<1> QED
  BY <1>6 DEF Started

\* The instance of Batch has a Cardinality of its own.
LEMMA SameCardinality == \A S : Promise!Cardinality(S) = Cardinality(S)
BY Zenon DEF Promise!Cardinality, Cardinality

\* Starting and finishing a request.
LEMMA PromiseWorker ==
    ASSUME IInv, IInv', RInv, NEW w \in Workers, WorkerNext(w)
    PROVE  Promise!Next \/ UNCHANGED Promise!batchVars
<1>1. /\ TypeOK /\ opts' = opts /\ totalErrors' = totalErrors /\ process = "running"
      /\ jobID \in 0..NumInputs /\ NumInputs \in Nat
  BY WorkerFrame, StepOfRunning, SizeAssumption DEF Next, IInv, TypeOK, collectorVars
<1>2. CASE Taken(w)
  <2>1. 1 \in 1..Len(jobs) /\ Head(jobs) = jobs[1] /\ jobs[1] \in Jobs
    BY <1>1, <1>2 DEF Taken, TypeOK
  <2>2. PICK j \in Jobs : j = Head(jobs)
    BY <2>1
  <2>3. status[j] = "queued" /\ status' = [status EXCEPT ![j] = "started"] /\ process' = process
    BY <1>2, <2>1, <2>2 DEF Taken, RInv, QueueInOrder, processVars
  <2>4. observedOutcome' = [observedOutcome EXCEPT ![j] = "running"]
    BY <1>1, <2>3, OutcomeChange DEF Seen
  <2>5. observedOutcome[j] = "accepted"
    BY <2>3, OutcomeSeen DEF Seen
  <2>6. \A i \in Jobs : i < j => observedOutcome[i] # "accepted"
    <3>1. SUFFICES ASSUME NEW i \in Jobs, i < j PROVE status[i] \notin {"ready", "queued"}
      BY <1>1, OutcomeSeen DEF Seen, TypeOK, Statuses
    <3>2. status[i] # "ready"
      <4>1. ASSUME status[i] = "ready" PROVE FALSE
        <5>1. i = jobID
          BY <4>1 DEF RInv, ReadInOrder
        <5>2. j > jobID
          BY <3>1, <5>1, SizeAssumption DEF Jobs
        <5> QED
          BY <2>3, <5>2 DEF RInv, ReadInOrder
      <4> QED
        BY <4>1
    <3>3. ASSUME status[i] = "queued" PROVE FALSE
      <4>1. PICK k \in 1..Len(jobs) : jobs[k] = i
        BY <3>3 DEF RInv, QueueInOrder
      <4>2. k = 1 \/ 1 < k
        OBVIOUS
      <4>3. k = 1 \/ jobs[1] < jobs[k]
        BY <2>1, <4>2 DEF RInv, QueueInOrder
      <4> QED
        BY <2>1, <2>2, <3>1, <4>1, <4>3, SizeAssumption DEF Jobs
    <3> QED
      BY <3>2, <3>3
  <2>7. Promise!With("running") = {i \in Jobs : status[i] = "started"}
    <3>1. \A i \in Jobs : observedOutcome[i] = "running" <=> status[i] = "started"
      BY <1>1, OutcomeSeen DEF Seen, TypeOK, Statuses
    <3> QED
      BY <3>1, PromiseJobs DEF Promise!With
  <2>8. ~Busy(w)
    BY <1>2 DEF Taken, Busy
  <2>9. Promise!Cardinality(Promise!With("running")) < Cardinality(Workers)
    BY <2>7, <2>8, FewerThanWorkers, SameCardinality
  <2>10. Promise!Start(j)
    BY <1>1, <2>3, <2>4, <2>5, <2>6, <2>9, VerdictOpen, PromiseJobs DEF Promise!Start
  <2> QED
    BY <2>10, PromiseJobs DEF Promise!Next
<1>3. CASE Finished(w)
  <2>1. PICK j \in Jobs : j = worker[w].job
    BY <1>3 DEF Finished, Busy, IInv, HeldJobs
  <2>2. status[j] = "started" /\ process' = process
    BY <1>3, <2>1 DEF Finished, RInv, OneWorkerEach, processVars
  <2>3. PICK e : status' = [status EXCEPT ![j] = Outcome(e, "failed")]
    BY <1>3, <2>1 DEF Finished, FinishJob
  <2>4. Seen(Outcome(e, "failed")) \in {"ok", "ignored", "failed"}
    BY OutcomeCases DEF Seen
  <2>5. observedOutcome' = [observedOutcome EXCEPT ![j] = Seen(Outcome(e, "failed"))]
    BY <1>1, <2>3, OutcomeChange
  <2>6. observedOutcome[j] = "running"
    BY <2>2, OutcomeSeen DEF Seen
  <2>7. Promise!Finish(j)
    BY <1>1, <2>2, <2>4, <2>5, <2>6, VerdictOpen DEF Promise!Finish
  <2> QED
    BY <2>7, PromiseJobs DEF Promise!Next
<1>4. CASE status' = status /\ (process' = process \/ Panic)
  BY <1>1, <1>4, QuietStep DEF Promise!Next
<1> QED
  BY <1>2, <1>3, <1>4, WorkerSteps
     DEF Drained, Continued, Told, Crashed, processVars

\* The verdict agrees with the items.
LEMMA PromiseExit ==
    ASSUME IInv, RInv, Exit
    PROVE  Promise!Verdict
<1>1. /\ process = "running" /\ collector = "returned"
      /\ process' = "exited" /\ exitCode' = exitCode /\ status' = status
  BY DEF Exit, historyVars
<1>2. observedOutcome' = observedOutcome
  BY <1>1, OutcomeSeen
<1>3. \A j \in Jobs, s \in {"unread", "ok", "ignored"} :
          status[j] = s => observedOutcome[j] = s
  BY OutcomeSeen DEF Seen
<1>4. observedVerdict' = IF exitCode = ExitOK THEN "success"
                         ELSE IF exitCode = ExitJobLimitExceeded THEN "limit" ELSE "failure"
  BY <1>1 DEF observedVerdict, ExitOK, ExitJobLimitExceeded
<1>5. CASE AbortReached
  <2>1. exitCode = ExitAbortedWithErrors
    BY <1>1, <1>5 DEF RInv, Ending
  <2>2. observedVerdict' = "failure"
    BY <1>4, <2>1 DEF ExitOK, ExitJobLimitExceeded, ExitAbortedWithErrors
  <2> QED
    BY <1>1, <1>2, <1>5, <2>2, VerdictOpen, WrongItem DEF Promise!Verdict
<1>6. CASE ~AbortReached /\ totalErrors # <<>>
  <2>1. exitCode \notin {ExitOK, ExitJobLimitExceeded}
    BY <1>1, <1>6, ReturnedCode DEF RInv, Ending
  <2> QED
    BY <1>1, <1>2, <1>4, <1>6, <2>1, VerdictOpen, WrongItem DEF Promise!Verdict
<1>7. CASE ~AbortReached /\ totalErrors = <<>>
  <2>1. Promise!Settled
    BY <1>1, <1>3, <1>7, SettledWithoutErrors, PromiseJobs DEF Promise!Settled
  <2>2. exitCode = BatchExitCode
    BY <1>1, <1>7 DEF RInv, Ending
  <2>3. CASE MaxJobsExceeded(jobID)
    <3>1. PICK j \in Jobs : status[j] = "unread"
      BY <1>1, <1>7, <2>3, SettledWithoutErrors
    <3>2. Promise!With("unread") # {}
      BY <1>3, <3>1, PromiseJobs DEF Promise!With
    <3>3. observedVerdict' = "limit"
      BY <1>1, <1>4, <1>7, <2>2, <2>3, ReturnedCode DEF ExitOK, ExitJobLimitExceeded
    <3> QED
      BY <1>1, <1>2, <2>1, <3>2, <3>3, VerdictOpen DEF Promise!Verdict
  <2>4. CASE ~MaxJobsExceeded(jobID)
    <3>1. Promise!With("unread") = {} \/ Promise!With("ignored") # {}
      <4>1. CASE \A j \in Jobs : status[j] # "unread"
        <5>1. \A j \in Jobs : observedOutcome[j] # "unread"
          BY <4>1, OutcomeSeen DEF Seen
        <5> QED
          BY <5>1, PromiseJobs DEF Promise!With
      <4>2. CASE \E j \in Jobs : status[j] = "ignored"
        BY <1>3, <4>2, PromiseJobs DEF Promise!With
      <4> QED
        BY <1>1, <1>7, <2>4, <4>1, <4>2, SettledWithoutErrors
    <3>2. observedVerdict' = "success"
      BY <1>1, <1>4, <1>7, <2>2, <2>4, ReturnedCode
    <3> QED
      BY <1>1, <1>2, <2>1, <3>1, <3>2, VerdictOpen DEF Promise!Verdict
  <2> QED
    BY <2>3, <2>4
<1> QED
  BY <1>5, <1>6, <1>7

\* The closer and the collector touch no item: they close, count and conclude.
LEMMA PromiseCollector ==
    ASSUME IInv, IInv', RInv, RInv', CloserNext \/ CollectorNext
    PROVE  Promise!Next \/ UNCHANGED Promise!batchVars
<1>1. opts' = opts /\ status' = status /\ process = "running"
  BY CollectorFrame, StepOfRunning DEF Next
<1>2. CASE Exit
  BY <1>2, PromiseExit DEF Promise!Next
<1>3. CASE process' = process
  <2>1. observedOutcome' = observedOutcome
    BY <1>1, OutcomeSeen
  <2> QED
    BY <1>1, <1>3, <2>1, VerdictOpen DEF Promise!batchVars
<1>4. CASE Panic /\ totalErrors' = totalErrors
  BY <1>1, <1>4, QuietStep DEF Promise!Next
<1> QED
  BY <1>2, <1>3, <1>4
     DEF CloserNext, WaitWorkers, CloseResults, CollectorNext, Receive, Abort, AbortClose,
         ReleasePrompt, PromptDone, Return, processVars, collectorVars

\* The batch pipeline implements the abstract batch: items in order and at most
\* once, at most one running request per worker, and an exit code that agrees
\* with what happened to the items (worker.go:177-392).
THEOREM BatchKeepsItsPromise == Spec => ImplementsBatch
<1>1. Init => Promise!Init
  <2>1. ASSUME Init PROVE Promise!Init
    BY <2>1, OutcomeSeen, VerdictOpen, PromiseJobs DEF Init, Seen, Promise!Init
  <2> QED
    BY <2>1
<1>2. IInv /\ IInv' /\ RInv /\ RInv' /\ [Next]_vars => [Promise!Next]_Promise!batchVars
  <2>1. ASSUME IInv, IInv', RInv, RInv', Next
        PROVE  Promise!Next \/ UNCHANGED Promise!batchVars
    BY <2>1, PromiseProducer, PromiseWorker, PromiseCollector DEF Next
  <2>2. ASSUME UNCHANGED vars PROVE UNCHANGED Promise!batchVars
    BY <2>2 DEF vars, historyVars, processVars, observedOutcome, observedVerdict,
                Promise!batchVars
  <2> QED
    BY <2>1, <2>2
<1> QED
  BY <1>1, <1>2, InvariantHolds, PlacesInvariant, PTL DEF Spec, ImplementsBatch, Promise!Spec

-----------------------------------------------------------------------------
\* The failures of an aborted batch

\* An item that has ended keeps its status.
LEMMA FinalStays ==
    ASSUME IInv, RInv, Next, NEW j \in Jobs, status[j] \in Final
    PROVE  status'[j] = status[j]
<1>1. TypeOK /\ status \in [Jobs -> Statuses]
  BY DEF IInv, TypeOK
<1>2. ASSUME NEW i, status[i] \notin Final, NEW s, status' = [status EXCEPT ![i] = s]
      PROVE  status'[j] = status[j]
  BY <1>1, <1>2
<1>3. CASE ProducerNext
  <2>1. CASE GetNext
    <3>1. CASE j = jobID + 1
      <4>1. j > jobID
        BY <1>1, <3>1, SizeAssumption DEF TypeOK, Jobs
      <4> QED
        BY <4>1 DEF RInv, ReadInOrder, Final
    <3>2. CASE j # jobID + 1
      BY <1>1, <2>1, <3>2 DEF GetNext
    <3> QED
      BY <3>1, <3>2
  <2>2. CASE Prompt \/ SendJob
    <3>1. status[jobID] = "ready"
      BY <2>2 DEF Prompt, SendJob, RInv, ReadInOrder, Queueing
    <3> QED
      BY <1>2, <2>2, <3>1 DEF Prompt, SendJob, Final
  <2> QED
    BY <1>3, <2>1, <2>2, ProducerSteps
<1>4. ASSUME NEW w \in Workers, WorkerNext(w) PROVE status'[j] = status[j]
  <2>1. CASE Taken(w)
    <3>1. 1 \in 1..Len(jobs) /\ Head(jobs) = jobs[1]
      BY <1>1, <2>1 DEF Taken, TypeOK
    <3> QED
      BY <1>2, <2>1, <3>1 DEF Taken, RInv, QueueInOrder, Final
  <2>2. CASE Finished(w)
    BY <1>2, <2>2 DEF Finished, FinishJob, RInv, OneWorkerEach, Final
  <2> QED
    BY <1>4, <2>1, <2>2, WorkerSteps DEF Drained, Continued, Told, Crashed
<1> QED
  BY <1>3, <1>4, CollectorFrame DEF Next

\* A sender adds one result if there is room, and changes nothing of the collector's.
LEMMA SenderFrame ==
    ASSUME ProducerNext \/ \E w \in Workers : WorkerNext(w)
    PROVE  /\ UNCHANGED <<collector, totalErrors, collected>>
           /\ \/ results' = results
              \/ CanSendResult /\ \E r : results' = Append(results, r)
<1>1. CASE ProducerNext
  BY <1>1, ProducerFrame DEF ProducerNext, GetNext, SendInputError, SendResult, PromptWait, Prompt,
     SendDeclined, PromptAdd, PromptCount, SendJob, CloseJobs, resultsVars, collectorVars
<1>2. ASSUME NEW w \in Workers, WorkerNext(w)
      PROVE  /\ UNCHANGED <<collector, totalErrors, collected>>
             /\ \/ results' = results
                \/ CanSendResult /\ \E r : results' = Append(results, r)
  BY <1>2, WorkerFrame DEF WorkerNext, TakeJob, SendRequest, RunAction, ReportJob, SendResult,
     resultsVars, collectorVars
<1> QED
  BY <1>1, <1>2

LEMMA UnionBound ==
    ASSUME NEW S, NEW T, IsFiniteSet(S), IsFiniteSet(T)
    PROVE  IsFiniteSet(S \cup T) /\ Cardinality(S \cup T) <= Cardinality(S) + Cardinality(T)
<1>1. IsFiniteSet(S \cap T)
  BY FS_Subset
<1>2. Cardinality(S \cap T) \in Nat /\ Cardinality(S) \in Nat /\ Cardinality(T) \in Nat
  BY <1>1, FS_CardinalityType
<1>3. /\ IsFiniteSet(S \cup T)
      /\ Cardinality(S \cup T) = Cardinality(S) + Cardinality(T) - Cardinality(S \cap T)
  BY FS_Union
<1> QED
  BY <1>2, <1>3

LEMMA JobsFinite == \A S : S \subseteq Jobs => IsFiniteSet(S)
<1>1. 1 \in Int /\ NumInputs \in Int
  BY SizeAssumption
<1>2. IsFiniteSet(Jobs)
  BY <1>1, FS_Interval DEF Jobs
<1> QED
  BY <1>2, FS_Subset

LEMMA CapacityType ==
    Capacity \in Nat /\ Capacity + 1 = Cardinality(Workers) /\ Capacity' = Capacity
<1>1. PICK w \in Workers : TRUE
  BY WorkersAssumption
<1>2. Cardinality(Workers) \in Nat /\ Cardinality(Workers \ {w}) \in Nat
      /\ Cardinality(Workers \ {w}) = Cardinality(Workers) - 1
  BY WorkersAssumption, FS_RemoveElement, FS_CardinalityType
<1> QED
  BY <1>2 DEF Capacity

LEMMA FailuresStep ==
    ASSUME IInv, RInv, FailuresCounted, Next
    PROVE  FailuresCounted'
<1> DEFINE Failed == {j \in collected : status[j] = "failed"}
<1>1. /\ TypeOK /\ opts' = opts /\ collected \subseteq Jobs
      /\ results \in Seq(Result) /\ totalErrors \in Seq(Error) /\ opts.abortOnErrors \in Nat
  BY StepOfRunning, DataAssumption DEF IInv, TypeOK, OptionSet
<1>2. \A j \in collected : status'[j] = status[j]
  BY <1>1, FinalStays DEF RInv, ResultsTellStatus
<1>3. ASSUME UNCHANGED <<collected, totalErrors>>,
             Len(results') <= Capacity + (IF collector' = "receive" THEN 1 ELSE 0)
      PROVE  FailuresCounted'
  <2>1. Failed' = Failed
    BY <1>2, <1>3
  <2> QED
    BY <1>1, <1>3, <2>1, CapacityType DEF FailuresCounted
<1>4. Len(results) \in Nat /\ Len(totalErrors) \in Nat /\ Capacity \in Nat
  BY <1>1, CapacityType, LenProperties
<1>5. CASE ProducerNext \/ \E w \in Workers : WorkerNext(w)
  <2>1. CASE results' = results
    BY <1>3, <1>5, <2>1, SenderFrame DEF FailuresCounted
  <2>2. CASE CanSendResult /\ \E r : results' = Append(results, r)
    <3>1. Len(results') = Len(results) + 1
      BY <1>1, <2>2, <1>5
    <3>2. Len(results') <= Capacity + (IF collector = "receive" THEN 1 ELSE 0)
      BY <1>4, <2>2, <3>1 DEF CanSendResult
    <3> QED
      BY <1>3, <1>5, <3>2, SenderFrame
  <2> QED
    BY <1>5, <2>1, <2>2, SenderFrame
<1>6. CASE CloserNext
  BY <1>3, <1>6 DEF CloserNext, WaitWorkers, CloseResults, FailuresCounted, resultsVars,
                    collectorVars, historyVars
<1>7. CASE Receive
  <2>1. /\ collector = "receive" /\ collector' = "handle" /\ results # <<>>
        /\ results' = Tail(results) /\ collected' = collected \cup {Head(results).job}
    BY <1>7 DEF Receive
  <2>2. 1 \in 1..Len(results) /\ Head(results) = results[1] /\ results[1] \in Result
    BY <1>1, <2>1
  <2>3. Len(results') <= Capacity + (IF collector' = "receive" THEN 1 ELSE 0)
    <3>1. Len(results') = Len(results) - 1
      BY <1>1, <2>1
    <3> QED
      BY <1>4, <2>1, <3>1 DEF FailuresCounted
  <2>4. PICK i \in Jobs : i = results[1].job
    BY <2>2 DEF Result
  <2>5. IsFiniteSet(collected) /\ IsFiniteSet(Failed)
    <3>1. Failed \subseteq Jobs
      BY <1>1
    <3> QED
      BY <1>1, <3>1, JobsFinite
  <2>6. Failed' \in {Failed, Failed \cup {i}} /\ status'[i] = status[i]
    BY <1>2, <1>7, <2>1, <2>2, <2>4 DEF Receive
  <2>7. Cardinality(Failed) \in Nat /\ Cardinality(Failed \cup {i}) <= Cardinality(Failed) + 1
    <3> HIDE DEF Failed
    <3>1. Cardinality(Failed) \in Nat
      BY <2>5, FS_CardinalityType
    <3>2. Cardinality(Failed \cup {i}) =
              IF i \in Failed THEN Cardinality(Failed) ELSE Cardinality(Failed) + 1
      BY <2>5, FS_AddElement
    <3> QED
      BY <3>1, <3>2
  <2>8. Cardinality(Failed \cup {i}) \in Nat
    BY <2>5, FS_AddElement, FS_CardinalityType
  <2>9. CASE totalErrors' = totalErrors
    <3>1. ~Counts(results[1].err)
      BY <1>1, <1>7, <2>2, <2>9 DEF Receive, Counts
    <3>2. status[i] # "failed"
      BY <2>2, <2>4, <3>1 DEF RInv, ResultsTellStatus, Wrong
    <3>3. Failed' = Failed
      BY <1>2, <2>1, <2>2, <2>4, <2>6, <3>2
    <3>4. Cardinality(Failed') <= Len(totalErrors')
      BY <2>9, <3>3 DEF FailuresCounted
    <3>5. opts.abortOnErrors # 0 => Len(totalErrors') <= opts.abortOnErrors
      BY <2>9 DEF FailuresCounted
    <3> QED
      BY <1>1, <2>3, <3>4, <3>5, CapacityType DEF FailuresCounted
  <2>10. CASE \E e : totalErrors' = Append(totalErrors, e)
    <3>1. Len(totalErrors') = Len(totalErrors) + 1
      BY <1>1, <2>10
    <3>2. ~AbortReached
      BY <2>1 DEF RInv, Ending
    <3>3. opts.abortOnErrors # 0 => Len(totalErrors') <= opts.abortOnErrors
      BY <1>1, <1>4, <3>1, <3>2 DEF AbortReached
    <3>4. Cardinality(Failed') <= Len(totalErrors')
      <4>1. Cardinality(Failed) <= Len(totalErrors)
        BY DEF FailuresCounted
      <4>2. Cardinality(Failed') \in {Cardinality(Failed), Cardinality(Failed \cup {i})}
        BY <2>6
      <4> QED
        BY <1>4, <2>7, <2>8, <3>1, <4>1, <4>2
    <3> QED
      BY <1>1, <2>3, <3>3, <3>4, CapacityType DEF FailuresCounted
  <2> QED
    BY <1>7, <2>9, <2>10 DEF Receive
<1>8. CASE Abort \/ AbortClose \/ ReleasePrompt \/ PromptDone \/ Exit
  <2>1. /\ UNCHANGED <<collected, totalErrors, results>>
        /\ collector = "receive" => collector' = "receive"
    BY <1>8 DEF Abort, AbortClose, ReleasePrompt, PromptDone, Exit, resultsVars,
                collectorVars, historyVars
  <2>2. Len(results') <= Capacity + (IF collector' = "receive" THEN 1 ELSE 0)
    BY <1>4, <2>1 DEF FailuresCounted
  <2> QED
    BY <1>3, <2>1, <2>2
<1>9. CASE Return
  <2>1. UNCHANGED <<collected, totalErrors, results>> /\ results = <<>>
    BY <1>9 DEF Return, resultsVars, historyVars
  <2>2. Len(results') <= Capacity + (IF collector' = "receive" THEN 1 ELSE 0)
    BY <1>4, <2>1
  <2> QED
    BY <1>3, <2>1, <2>2
<1> QED
  BY <1>5, <1>6, <1>7, <1>8, <1>9 DEF Next, CollectorNext

LEMMA FailuresInvariant == Spec => []FailuresCounted
<1>1. Init => FailuresCounted
  <2>1. SUFFICES ASSUME Init PROVE FailuresCounted
    OBVIOUS
  <2>2. {j \in collected : status[j] = "failed"} = {}
    BY <2>1 DEF Init
  <2>3. opts.abortOnErrors \in Nat
    BY <2>1, DataAssumption DEF Init, OptionSet
  <2> QED
    BY <2>1, <2>2, <2>3, FS_EmptySet, CapacityType DEF Init, FailuresCounted
<1>2. IInv /\ RInv /\ FailuresCounted /\ [Next]_vars => FailuresCounted'
  <2>1. ASSUME FailuresCounted, UNCHANGED vars PROVE FailuresCounted'
    BY <2>1, CapacityType DEF FailuresCounted, vars, resultsVars, collectorVars, historyVars
  <2> QED
    BY <2>1, FailuresStep
<1> QED
  BY <1>1, <1>2, InvariantHolds, PlacesInvariant, PTL DEF Spec

\* The collected failures are in the list of errors, which ends at the threshold;
\* the others are in the channel or in a worker's hands (worker.go:357-363).
THEOREM FailuresAreBounded == Spec => []AbortBoundsFailures
<1>1. ASSUME IInv, RInv, FailuresCounted, opts.abortOnErrors # 0
      PROVE  Cardinality({j \in Jobs : status[j] = "failed"})
                <= opts.abortOnErrors + 2 * Cardinality(Workers) - 1
  <2> DEFINE Failed == {j \in Jobs : status[j] = "failed"}
             Listed == {j \in collected : status[j] = "failed"}
             Waiting == {results[k].job : k \in 1..Len(results)}
             Held == {worker[w].job : w \in Workers}
  <2>1. /\ results \in Seq(Result) /\ totalErrors \in Seq(Error) /\ collected \subseteq Jobs
        /\ opts.abortOnErrors \in Nat
    BY <1>1, DataAssumption DEF IInv, TypeOK, OptionSet
  <2>2. Len(results) \in Nat /\ Len(totalErrors) \in Nat
    BY <2>1, LenProperties
  <2>3. Failed \subseteq Listed \cup (Waiting \cup Held)
    <3>1. SUFFICES ASSUME NEW j \in Failed, j \notin Listed PROVE j \in Waiting \cup Held
      OBVIOUS
    <3>2. Reported(j) /\ status[j] = "failed" /\ j \notin collected
      BY <1>1, <3>1 DEF RInv, ResultsTellStatus, Final
    <3>3. ~(producer \in {"sendInputError", "sendDeclined"} /\ jobID = j)
      BY <1>1, <3>2, OutcomeCases DEF RInv, ReadInOrder
    <3> QED
      BY <3>2, <3>3 DEF Reported
  <2>4. IsFiniteSet(Listed) /\ Cardinality(Listed) <= Len(totalErrors)
    <3>1. Listed \subseteq Jobs
      BY <2>1
    <3> QED
      BY <1>1, <3>1, JobsFinite DEF FailuresCounted
  <2>5. IsFiniteSet(Waiting) /\ Cardinality(Waiting) <= Len(results)
    <3> DEFINE f == [k \in 1..Len(results) |-> results[k].job]
    <3>1. f \in Surjection(1..Len(results), Waiting)
      BY DEF Surjection
    <3>2. IsFiniteSet(1..Len(results)) /\ Cardinality(1..Len(results)) = Len(results)
      <4>1. \A n \in Nat : IsFiniteSet(1..n) /\ Cardinality(1..n) = n
        <5>1. SUFFICES ASSUME NEW n \in Nat PROVE IsFiniteSet(1..n) /\ Cardinality(1..n) = n
          OBVIOUS
        <5>2. 1 \in Int /\ n \in Int
          OBVIOUS
        <5>3. /\ IsFiniteSet(1..n)
              /\ Cardinality(1..n) = IF 1 > n THEN 0 ELSE n - 1 + 1
          BY <5>2, FS_Interval
        <5> QED
          BY <5>3
      <4> QED
        BY <2>2, <4>1
    <3> HIDE DEF f, Waiting
    <3> QED
      BY <3>1, <3>2, FS_Surjection
  <2>6. IsFiniteSet(Held) /\ Cardinality(Held) <= Cardinality(Workers)
    <3> DEFINE f == [w \in Workers |-> worker[w].job]
    <3>1. f \in Surjection(Workers, Held)
      BY DEF Surjection
    <3> HIDE DEF f, Held
    <3> QED
      BY <3>1, WorkersAssumption, FS_Surjection
  <2> HIDE DEF Failed, Listed, Waiting, Held
  <2>7. /\ IsFiniteSet(Waiting \cup Held)
        /\ Cardinality(Waiting \cup Held) <= Cardinality(Waiting) + Cardinality(Held)
    BY <2>5, <2>6, UnionBound
  <2>8. /\ IsFiniteSet(Listed \cup (Waiting \cup Held))
        /\ Cardinality(Listed \cup (Waiting \cup Held))
              <= Cardinality(Listed) + Cardinality(Waiting \cup Held)
    BY <2>4, <2>7, UnionBound
  <2>9. IsFiniteSet(Failed)
        /\ Cardinality(Failed) <= Cardinality(Listed \cup (Waiting \cup Held))
    BY <2>3, <2>8, FS_Subset
  <2>10. /\ Cardinality(Failed) \in Nat /\ Cardinality(Listed) \in Nat
         /\ Cardinality(Waiting) \in Nat /\ Cardinality(Held) \in Nat
         /\ Cardinality(Waiting \cup Held) \in Nat
         /\ Cardinality(Listed \cup (Waiting \cup Held)) \in Nat
    BY <2>4, <2>5, <2>6, <2>7, <2>8, <2>9, FS_CardinalityType
  <2>11. Len(totalErrors) + Len(results) <= opts.abortOnErrors + Cardinality(Workers) - 1
    <3>1. CASE collector = "receive"
      <4>1. Len(totalErrors) < opts.abortOnErrors
        BY <1>1, <2>1, <2>2, <3>1 DEF RInv, Ending, AbortReached
      <4>2. Len(results) <= Capacity + 1
        BY <1>1, <3>1 DEF FailuresCounted
      <4> QED
        BY <2>1, <2>2, <4>1, <4>2, CapacityType
    <3>2. CASE collector # "receive"
      <4>1. Len(totalErrors) <= opts.abortOnErrors /\ Len(results) <= Capacity
        BY <1>1, <3>2, CapacityType DEF FailuresCounted
      <4> QED
        BY <2>1, <2>2, <4>1, CapacityType
    <3> QED
      BY <3>1, <3>2
  <2>12. Cardinality(Failed) <= opts.abortOnErrors + 2 * Cardinality(Workers) - 1
    <3>1. Cardinality(Workers) \in Nat
      BY CapacityType
    <3> QED
      BY <2>1, <2>2, <2>4, <2>5, <2>6, <2>7, <2>8, <2>9, <2>10, <2>11, <3>1
  <2> QED
    BY <2>12 DEF Failed
<1>2. IInv /\ RInv /\ FailuresCounted => AbortBoundsFailures
  BY <1>1 DEF AbortBoundsFailures
<1> QED
  BY <1>2, InvariantHolds, PlacesInvariant, FailuresInvariant, PTL

-----------------------------------------------------------------------------
\* The prompts do not overlap

\* An item that has not ended has no result anywhere.
LEMMA NotYetReported ==
    ASSUME IInv, RInv, NEW j \in Jobs, status[j] \notin Final
    PROVE  /\ j \notin collected
           /\ \A k \in 1..Len(results) : results[k].job # j
           /\ \A w \in Workers : worker[w].pc = "send" => worker[w].job # j
           /\ producer \in {"sendInputError", "sendDeclined"} => jobID # j
<1>1. \A w \in Workers : worker[w].pc = "send" => worker[w].job # j
  BY OutcomeCases DEF RInv, OneWorkerEach, Final
<1>2. producer \in {"sendInputError", "sendDeclined"} => jobID # j
  BY OutcomeCases DEF RInv, ReadInOrder, Final
<1> QED
  BY <1>1, <1>2 DEF RInv, ResultsTellStatus

LEMMA OnceFrame ==
    ASSUME ReportedOnce, UNCHANGED <<results, collected>>,
           producer' \in {"sendInputError", "sendDeclined"} =>
               producer' = producer /\ jobID' = jobID,
           \A w \in Workers : worker'[w].pc = "send" => worker'[w] = worker[w]
    PROVE  ReportedOnce'
BY DEF ReportedOnce

\* A result is sent by the one who holds it.
LEMMA OnceSent ==
    ASSUME IInv, ReportedOnce, NEW j, NEW e,
           results' = Append(results, [job |-> j, err |-> e]), collected' = collected,
           j \notin collected, \A k \in 1..Len(results) : results[k].job # j,
           \A w \in Workers : worker'[w].pc = "send" =>
               worker'[w] = worker[w] /\ worker[w].job # j,
           producer' \in {"sendInputError", "sendDeclined"} =>
               producer' = producer /\ jobID' = jobID /\ jobID # j
    PROVE  ReportedOnce'
<1>1. results \in Seq(Result)
  BY DEF IInv, TypeOK
<1>2. \A k \in 1..Len(results') :
          \/ k \in 1..Len(results) /\ results'[k] = results[k]
          \/ k = Len(results) + 1 /\ k \notin 1..Len(results) /\ results'[k].job = j
  BY <1>1
<1> QED
  BY <1>2 DEF ReportedOnce

LEMMA OnceProducer ==
    ASSUME IInv, RInv, ReportedOnce, ProducerNext
    PROVE  ReportedOnce'
<1>1. /\ collected' = collected /\ worker' = worker
      /\ jobID \in 0..NumInputs /\ NumInputs \in Nat /\ results \in Seq(Result)
  BY ProducerFrame, SizeAssumption DEF IInv, TypeOK
<1>2. CASE GetNext
  <2>1. results' = results
    BY <1>2 DEF GetNext, resultsVars
  <2>2. CASE producer' # "sendInputError"
    <3>1. producer' # "sendDeclined"
      BY <1>2 DEF GetNext
    <3> QED
      BY <1>1, <2>1, <2>2, <3>1, OnceFrame
  <2>3. CASE producer' = "sendInputError"
    <3>1. jobID' = jobID + 1 /\ jobID + 1 \in Jobs
      BY <1>1, <1>2, <2>3 DEF GetNext, InputExhausted, Jobs
    <3>2. PICK j \in Jobs : j = jobID + 1
      BY <3>1
    <3>3. status[j] \notin Final
      BY <1>1, <3>2 DEF RInv, ReadInOrder, Final
    <3> QED
      BY <1>1, <2>1, <2>3, <3>1, <3>2, <3>3, NotYetReported DEF ReportedOnce
  <2> QED
    BY <2>2, <2>3
<1>3. CASE Prompt
  <2>1. /\ results' = results /\ jobID' = jobID /\ jobID \in Jobs
        /\ status[jobID] \notin Final
    BY <1>3 DEF Prompt, resultsVars, IInv, HeldJobs, RInv, ReadInOrder, Queueing, Final
  <2> QED
    BY <1>1, <2>1, NotYetReported DEF ReportedOnce
<1>4. CASE SendInputError \/ SendDeclined
  <2>1. /\ jobID' = jobID /\ producer \in {"sendInputError", "sendDeclined"}
        /\ \/ results' = results /\ producer' = producer
           \/ /\ results' = Append(results, [job |-> jobID, err |-> pendingErr])
              /\ producer' \in {"next", "close"}
    BY <1>4 DEF SendInputError, SendDeclined, SendResult, AfterDecline
  <2>2. CASE results' = results /\ producer' = producer
    BY <1>1, <2>1, <2>2, OnceFrame
  <2>3. CASE /\ results' = Append(results, [job |-> jobID, err |-> pendingErr])
             /\ producer' \in {"next", "close"}
    <3>1. /\ jobID \notin collected /\ \A k \in 1..Len(results) : results[k].job # jobID
          /\ \A w \in Workers : worker[w].pc = "send" => worker[w].job # jobID
      BY <2>1 DEF ReportedOnce
    <3> QED
      BY <1>1, <2>3, <3>1, OnceSent
  <2> QED
    BY <2>1, <2>2, <2>3
<1>5. CASE SendJob \/ PromptWait \/ PromptAdd \/ PromptCount \/ CloseJobs
  <2>1. results' = results /\ producer' \notin {"sendInputError", "sendDeclined"}
    BY <1>5 DEF SendJob, PromptWait, PromptAdd, PromptCount, CloseJobs, resultsVars
  <2> QED
    BY <1>1, <2>1, OnceFrame
<1> QED
  BY <1>2, <1>3, <1>4, <1>5, ProducerSteps

LEMMA OnceWorker ==
    ASSUME IInv, RInv, ReportedOnce, NEW w \in Workers, WorkerNext(w)
    PROVE  ReportedOnce'
<1>1. /\ collected' = collected /\ producer' = producer /\ jobID' = jobID
      /\ worker \in [Workers -> WorkerState]
  BY WorkerFrame DEF IInv, TypeOK, producerVars
<1>2. ASSUME NEW s, s.pc # "send", worker' = [worker EXCEPT ![w] = s]
      PROVE  /\ \A v \in Workers : v # w => worker'[v] = worker[v]
             /\ \A v \in Workers : worker'[v].pc = "send" => v # w /\ worker'[v] = worker[v]
  BY <1>1, <1>2
<1>3. CASE Taken(w) \/ Drained(w) \/ Continued(w)
  <2>1. results' = results /\ \E pc, i, n :
            /\ pc \in {"request", "done", "action"}
            /\ worker' = [worker EXCEPT ![w] = At(pc, i, NoError, n)]
    BY <1>3 DEF Taken, Drained, Continued
  <2>2. PICK pc, i, n :
            /\ pc \in {"request", "done", "action"}
            /\ worker' = [worker EXCEPT ![w] = At(pc, i, NoError, n)]
    BY <2>1
  <2> DEFINE s == At(pc, i, NoError, n)
  <2>3. s.pc # "send" /\ worker' = [worker EXCEPT ![w] = s]
    BY <2>2 DEF At
  <2> HIDE DEF s
  <2> QED
    BY <1>1, <1>2, <2>1, <2>3, OnceFrame
<1>4. CASE Finished(w)
  <2>1. PICK j \in Jobs : j = worker[w].job
    BY <1>4 DEF Finished, Busy, IInv, HeldJobs
  <2>2. status[j] \notin Final
    BY <1>4, <2>1 DEF Finished, RInv, OneWorkerEach, Final
  <2>3. PICK e : worker' = [worker EXCEPT ![w] = At("send", j, e, 0)]
    BY <1>4, <2>1 DEF Finished, FinishJob
  <2>4. /\ \A v \in Workers : v # w => worker'[v] = worker[v]
        /\ worker'[w].job = j
    BY <1>1, <2>3 DEF At
  <2>5. results' = results
    BY <1>4 DEF Finished
  <2> QED
    BY <1>1, <2>2, <2>4, <2>5, NotYetReported DEF ReportedOnce
<1>5. CASE Told(w)
  <2> DEFINE s == At("idle", 0, NoError, 0)
  <2>1. s.pc # "send" /\ worker' = [worker EXCEPT ![w] = s] /\ worker[w].pc = "send"
    BY <1>5 DEF Told, At
  <2> HIDE DEF s
  <2> DEFINE j == worker[w].job
             e == worker[w].err
  <2>2. results' = Append(results, [job |-> j, err |-> e])
    BY <1>5 DEF Told
  <2>3. /\ j \notin collected /\ \A k \in 1..Len(results) : results[k].job # j
        /\ producer \in {"sendInputError", "sendDeclined"} => jobID # j
    BY <2>1 DEF ReportedOnce
  <2>4. \A v \in Workers : worker'[v].pc = "send" =>
            worker'[v] = worker[v] /\ worker[v].job # j
    <3>1. \A v \in Workers : worker'[v].pc = "send" => v # w /\ worker'[v] = worker[v]
      BY <1>2, <2>1
    <3> QED
      BY <2>1, <3>1 DEF ReportedOnce
  <2> HIDE DEF j, e
  <2> QED
    BY <1>1, <2>2, <2>3, <2>4, OnceSent
<1>6. CASE Crashed(w)
  BY <1>1, <1>6, OnceFrame DEF Crashed
<1> QED
  BY <1>3, <1>4, <1>5, <1>6, WorkerSteps

LEMMA OnceCollector ==
    ASSUME IInv, ReportedOnce, CloserNext \/ CollectorNext
    PROVE  ReportedOnce'
<1>1. UNCHANGED <<producer, jobID, worker>> /\ results \in Seq(Result)
  BY CollectorFrame DEF producerVars, IInv, TypeOK
<1>2. CASE Receive
  <2>1. /\ results # <<>> /\ results' = Tail(results)
        /\ collected' = collected \cup {Head(results).job}
    BY <1>2 DEF Receive
  <2>2. 1 \in 1..Len(results) /\ Head(results) = results[1]
    BY <1>1, <2>1
  <2>3. \A k \in 1..Len(results') :
            /\ results'[k] = results[k + 1] /\ k + 1 \in 1..Len(results) /\ k + 1 # 1
    BY <1>1, <2>1
  <2>4. \A k \in 1..Len(results') :
            results'[k].job \notin collected /\ results'[k].job # results[1].job
    BY <2>2, <2>3 DEF ReportedOnce
  <2>5. \A k, l \in 1..Len(results') : results'[k].job = results'[l].job => k = l
    <3>1. \A k, l \in 1..Len(results') : k + 1 = l + 1 => k = l
      OBVIOUS
    <3> QED
      BY <2>3, <3>1 DEF ReportedOnce
  <2>6. \A w \in Workers : worker[w].pc = "send" =>
            /\ worker[w].job \notin collected'
            /\ \A k \in 1..Len(results') : results'[k].job # worker[w].job
    BY <2>1, <2>2, <2>3 DEF ReportedOnce
  <2>7. producer \in {"sendInputError", "sendDeclined"} =>
            /\ jobID \notin collected'
            /\ \A k \in 1..Len(results') : results'[k].job # jobID
    BY <2>1, <2>2, <2>3 DEF ReportedOnce
  <2>8. \A k \in 1..Len(results') : results'[k].job \notin collected'
    BY <2>1, <2>2, <2>4
  <2> QED
    BY <1>1, <2>5, <2>6, <2>7, <2>8 DEF ReportedOnce
<1>3. CASE UNCHANGED <<results, collected>>
  BY <1>1, <1>3, OnceFrame
<1> QED
  BY <1>2, <1>3 DEF CloserNext, WaitWorkers, CloseResults, CollectorNext, Abort, AbortClose,
     ReleasePrompt, PromptDone, Return, Exit, resultsVars, historyVars

LEMMA OnceInvariant == Spec => []ReportedOnce
<1>1. Init => ReportedOnce
  BY DEF Init, ReportedOnce, At
<1>2. IInv /\ RInv /\ ReportedOnce /\ [Next]_vars => ReportedOnce'
  <2>1. ASSUME IInv, RInv, ReportedOnce, Next PROVE ReportedOnce'
    BY <2>1, OnceProducer, OnceWorker, OnceCollector DEF Next
  <2>2. ASSUME ReportedOnce, UNCHANGED vars PROVE ReportedOnce'
    BY <2>2, OnceFrame DEF vars, producerVars, resultsVars, historyVars
  <2> QED
    BY <2>1, <2>2
<1> QED
  BY <1>1, <1>2, InvariantHolds, PlacesInvariant, PTL DEF Spec

\* A prompt that has come to nothing stays so.
LEMMA DriftStays == ASSUME IInv, RInv, Next, PromptDrift PROVE PromptDrift'
<1>1. PICK j \in Jobs : status[j] \in {"rejected", "ignored"}
  BY DEF PromptDrift
<1>2. status'[j] = status[j] /\ opts' = opts
  BY <1>1, FinalStays, StepOfRunning DEF Final
<1> QED
  BY <1>1, <1>2 DEF PromptDrift

LEMMA AwaitedFinite ==
    IsFiniteSet(AwaitedPrompts) /\ Cardinality(AwaitedPrompts) \in Nat
<1>1. IsFiniteSet(AwaitedPrompts)
  BY JobsFinite DEF AwaitedPrompts
<1> QED
  BY <1>1, FS_CardinalityType

\* Steps after which no more prompts are awaited and the wait group is the same.
LEMMA AwaitedFrame ==
    ASSUME IInv, PromptsAwaited, opts' = opts, PromptDrift => PromptDrift',
           skipConfirm => skipConfirm', (\E i \in Jobs : answers'[i] = "yesToAll") => skipConfirm',
           AwaitedPrompts' \subseteq AwaitedPrompts, promptWG' = promptWG,
           collector' \in {"handle", "promptDone"} => collector \in {"handle", "promptDone"},
           producer' \in {"wait", "prompt"} => opts.confirm /\ ~skipConfirm',
           producer' = "prompt" => producer = "prompt"
    PROVE  PromptsAwaited'
<1>1. Cardinality(AwaitedPrompts') <= Cardinality(AwaitedPrompts)
  BY AwaitedFinite, FS_Subset
<1>2. Cardinality(AwaitedPrompts') \in Nat /\ Cardinality(AwaitedPrompts) \in Nat
  <2>1. IsFiniteSet(AwaitedPrompts')
    BY AwaitedFinite, FS_Subset
  <2> QED
    BY <2>1, AwaitedFinite, FS_CardinalityType
<1>3. promptWG \in Nat
  BY DEF IInv, TypeOK
<1>4. opts'.confirm /\ ~skipConfirm' /\ ~PromptDrift' =>
          promptWG' >= Cardinality(AwaitedPrompts')
                         + (IF collector' \in {"handle", "promptDone"} THEN 1 ELSE 0)
  BY <1>1, <1>2, <1>3 DEF PromptsAwaited
<1>5. producer' = "prompt" /\ ~PromptDrift' => AwaitedPrompts' = {}
  BY DEF PromptsAwaited
<1> QED
  BY <1>4, <1>5 DEF PromptsAwaited

LEMMA AwaitedProducer ==
    ASSUME IInv, RInv, PromptsAwaited, ProducerNext
    PROVE  PromptsAwaited'
<1>1. /\ opts' = opts /\ collected' = collected /\ collector' = collector
      /\ PromptDrift => PromptDrift'
      /\ answers \in [Jobs -> Answers] /\ promptWG \in Nat
  BY ProducerFrame, DriftStays DEF collectorVars, Next, IInv, TypeOK
<1>2. ASSUME UNCHANGED <<answers, skipConfirm, promptWG>>, producer # "promptAdd",
             producer' \in {"wait", "prompt"} => opts.confirm /\ ~skipConfirm,
             producer' = "prompt" => producer = "prompt"
      PROVE  PromptsAwaited'
  <2>1. AwaitedPrompts' \subseteq AwaitedPrompts
    BY <1>1, <1>2 DEF AwaitedPrompts
  <2>2. (\E i \in Jobs : answers'[i] = "yesToAll") => skipConfirm'
    BY <1>2 DEF PromptsAwaited
  <2> QED
    BY <1>1, <1>2, <2>1, <2>2, AwaitedFrame
<1>3. CASE GetNext
  <2>1. /\ UNCHANGED <<answers, skipConfirm, promptWG>> /\ producer = "next"
        /\ producer' \in {"wait", "prompt"} => NeedsConfirm
        /\ producer' # "prompt"
    BY <1>3 DEF GetNext, promptVars
  <2> QED
    BY <1>2, <2>1 DEF NeedsConfirm
<1>4. CASE SendInputError \/ SendDeclined \/ PromptCount \/ SendJob \/ CloseJobs
  <2>1. /\ UNCHANGED <<answers, skipConfirm, promptWG>> /\ producer # "promptAdd"
        /\ producer' \notin {"wait", "prompt"}
    BY <1>4 DEF SendInputError, SendDeclined, SendResult, PromptCount, SendJob, CloseJobs,
                AfterDecline, promptVars, historyVars
  <2> QED
    BY <1>2, <2>1
<1>5. CASE PromptWait
  <2>1. /\ UNCHANGED <<answers, skipConfirm, promptWG>> /\ promptWG = 0
        /\ producer = "wait" /\ producer' = "prompt"
    BY <1>5 DEF PromptWait, PromptsSettled, promptVars, historyVars
  <2>2. AwaitedPrompts' = AwaitedPrompts
    BY <1>1, <2>1 DEF AwaitedPrompts
  <2>3. opts.confirm /\ ~skipConfirm
    BY <2>1 DEF PromptsAwaited
  <2>4. ~PromptDrift => AwaitedPrompts = {}
    <3>1. ~PromptDrift => Cardinality(AwaitedPrompts) = 0
      BY <2>1, <2>3, AwaitedFinite DEF PromptsAwaited
    <3> QED
      BY <3>1, AwaitedFinite, FS_EmptySet
  <2> QED
    BY <1>1, <2>1, <2>2, <2>3, <2>4 DEF PromptsAwaited
<1>6. CASE Prompt
  <2>1. /\ producer = "prompt" /\ jobID' = jobID /\ promptWG' = promptWG
        /\ answers' = [answers EXCEPT ![jobID] = reply']
        /\ skipConfirm' = (skipConfirm \/ reply' = "yesToAll")
        /\ \/ reply' \in {"yes", "yesToAll"} /\ producer' = "promptAdd"
           \/ reply' \notin {"yes", "yesToAll"} /\ producer' = "sendDeclined"
    BY <1>6 DEF Prompt, promptVars
  <2>2. \A i \in Jobs : answers'[i] = IF i = jobID THEN reply' ELSE answers[i]
    BY <1>1, <2>1
  <2>3. AwaitedPrompts' \subseteq AwaitedPrompts
    BY <1>1, <2>1, <2>2 DEF AwaitedPrompts
  <2>4. (\E i \in Jobs : answers'[i] = "yesToAll") => skipConfirm'
    BY <2>1, <2>2 DEF PromptsAwaited
  <2> QED
    BY <1>1, <2>1, <2>3, <2>4, AwaitedFrame
<1>7. CASE PromptAdd
  <2>1. /\ UNCHANGED <<answers, skipConfirm, jobID>> /\ promptWG' = promptWG + 1
        /\ producer = "promptAdd" /\ producer' = "promptCount"
    BY <1>7 DEF PromptAdd, historyVars
  <2>2. AwaitedPrompts' \subseteq AwaitedPrompts \cup {jobID}
    BY <1>1, <2>1 DEF AwaitedPrompts
  <2>3. /\ IsFiniteSet(AwaitedPrompts \cup {jobID})
        /\ Cardinality(AwaitedPrompts \cup {jobID}) =
              IF jobID \in AwaitedPrompts THEN Cardinality(AwaitedPrompts)
              ELSE Cardinality(AwaitedPrompts) + 1
    BY AwaitedFinite, FS_AddElement
  <2>4. IsFiniteSet(AwaitedPrompts')
        /\ Cardinality(AwaitedPrompts') <= Cardinality(AwaitedPrompts \cup {jobID})
    BY <2>2, <2>3, FS_Subset
  <2>5. Cardinality(AwaitedPrompts') \in Nat
    BY <2>4, FS_CardinalityType
  <2>6. Cardinality(AwaitedPrompts') <= Cardinality(AwaitedPrompts) + 1
    BY <2>3, <2>4, <2>5, AwaitedFinite
  <2>7. opts.confirm /\ ~skipConfirm /\ ~PromptDrift =>
            promptWG + 1 >= Cardinality(AwaitedPrompts')
                              + (IF collector \in {"handle", "promptDone"} THEN 1 ELSE 0)
    BY <1>1, <2>5, <2>6, AwaitedFinite DEF PromptsAwaited
  <2> QED
    BY <1>1, <2>1, <2>7 DEF PromptsAwaited
<1> QED
  BY <1>3, <1>4, <1>5, <1>6, <1>7 DEF ProducerNext

\* While nobody has said "yes to all" and nothing was declined or ignored, every
\* result in the channel belongs to an awaited prompt.
LEMMA ResultOfPrompt ==
    ASSUME IInv, RInv, ReportedOnce, UnderWayAgreed, PromptsAwaited,
           opts.confirm, ~skipConfirm, ~PromptDrift, NEW k \in 1..Len(results)
    PROVE  results[k].job \in AwaitedPrompts
<1>1. PICK j \in Jobs : j = results[k].job
  <2>1. results \in Seq(Result)
    BY DEF IInv, TypeOK
  <2>2. results[k] \in Result
    BY <2>1
  <2> QED
    BY <2>2 DEF Result
<1>2. status[j] \in {"ok", "failed"} /\ j \notin collected
  BY <1>1 DEF RInv, ResultsTellStatus, Final, PromptDrift, ReportedOnce
<1>3. \A i \in 1..j : i \in Jobs
  BY SizeAssumption DEF Jobs
<1>4. answers[j] = "yes"
  BY <1>2, <1>3 DEF UnderWayAgreed, Agreed, PromptsAwaited
<1>5. ~(producer = "promptAdd" /\ j = jobID)
  BY <1>2 DEF RInv, ReadInOrder, Queueing
<1> QED
  BY <1>1, <1>2, <1>4, <1>5 DEF AwaitedPrompts

LEMMA AwaitedCollector ==
    ASSUME IInv, RInv, ReportedOnce, UnderWayAgreed, PromptsAwaited,
           CloserNext \/ CollectorNext
    PROVE  PromptsAwaited'
<1>1. /\ UNCHANGED <<opts, producer, jobID, skipConfirm, answers>>
      /\ PromptDrift => PromptDrift'
      /\ results \in Seq(Result) /\ promptWG \in Nat
  BY CollectorFrame, DriftStays DEF producerVars, Next, IInv, TypeOK
<1>2. ASSUME collected \subseteq collected'
      PROVE  AwaitedPrompts' \subseteq AwaitedPrompts
  BY <1>1, <1>2 DEF AwaitedPrompts
<1>3. CASE Receive
  <2>1. /\ collector = "receive" /\ collector' = "handle" /\ results # <<>>
        /\ promptWG' = promptWG /\ collected' = collected \cup {Head(results).job}
    BY <1>3 DEF Receive, promptVars
  <2>2. 1 \in 1..Len(results) /\ Head(results) = results[1]
    BY <1>1, <2>1
  <2> DEFINE j == results[1].job
  <2>3. AwaitedPrompts' = AwaitedPrompts \ {j}
    BY <1>1, <2>1, <2>2 DEF AwaitedPrompts
  <2>4. ASSUME opts.confirm, ~skipConfirm, ~PromptDrift
        PROVE  promptWG >= Cardinality(AwaitedPrompts') + 1
    <3>1. j \in AwaitedPrompts
      BY <2>2, <2>4, ResultOfPrompt
    <3>2. Cardinality(AwaitedPrompts \ {j}) = Cardinality(AwaitedPrompts) - 1
      BY <3>1, AwaitedFinite, FS_RemoveElement
    <3>3. promptWG >= Cardinality(AwaitedPrompts)
      BY <1>1, <2>1, <2>4, AwaitedFinite DEF PromptsAwaited
    <3> QED
      BY <1>1, <2>3, <3>2, <3>3, AwaitedFinite
  <2>5. producer' = "prompt" /\ ~PromptDrift' => AwaitedPrompts' = {}
    BY <1>1, <2>3 DEF PromptsAwaited
  <2> HIDE DEF j
  <2> QED
    BY <1>1, <2>1, <2>4, <2>5 DEF PromptsAwaited
<1>4. CASE PromptDone
  <2>1. /\ collector = "promptDone" /\ collector' = "receive" /\ collected' = collected
        /\ promptWG' = promptWG - 1
    BY <1>4 DEF PromptDone, historyVars
  <2>2. AwaitedPrompts' = AwaitedPrompts
    BY <1>1, <2>1 DEF AwaitedPrompts
  <2>3. opts.confirm /\ ~skipConfirm /\ ~PromptDrift =>
            promptWG - 1 >= Cardinality(AwaitedPrompts)
    BY <1>1, <2>1, AwaitedFinite DEF PromptsAwaited
  <2>4. promptWG - 1 \in Int /\ Cardinality(AwaitedPrompts) \in Nat
    BY <1>1, AwaitedFinite
  <2> QED
    BY <1>1, <2>1, <2>2, <2>3, <2>4 DEF PromptsAwaited
<1>5. CASE /\ UNCHANGED <<promptWG, collected>>
           /\ collector' \in {"handle", "promptDone"} => collector \in {"handle", "promptDone"}
  <2>1. AwaitedPrompts' \subseteq AwaitedPrompts
    BY <1>2, <1>5
  <2> QED
    BY <1>1, <1>5, <2>1, AwaitedFrame DEF PromptsAwaited
<1> QED
  BY <1>3, <1>4, <1>5 DEF CloserNext, WaitWorkers, CloseResults, CollectorNext, Abort, AbortClose,
     ReleasePrompt, Return, Exit, promptVars, collectorVars, historyVars

LEMMA AwaitedInvariant == Spec => []PromptsAwaited
<1>1. Init => PromptsAwaited
  <2>1. SUFFICES ASSUME Init PROVE PromptsAwaited
    OBVIOUS
  <2>2. AwaitedPrompts = {}
    BY <2>1 DEF Init, AwaitedPrompts
  <2>3. Cardinality(AwaitedPrompts) = 0
    BY <2>2, FS_EmptySet
  <2>4. collector = "receive" /\ promptWG = 0 /\ producer = "next"
        /\ \A i \in Jobs : answers[i] = "none"
    BY <2>1 DEF Init
  <2> QED
    BY <2>3, <2>4 DEF PromptsAwaited
<1>2. ASSUME IInv, RInv, ReportedOnce, UnderWayAgreed, PromptsAwaited, [Next]_vars
      PROVE  PromptsAwaited'
  <2>1. ASSUME NEW w \in Workers, WorkerNext(w) PROVE PromptsAwaited'
    <3>1. /\ UNCHANGED <<opts, producerVars, collector, collected, answers, promptWG>>
          /\ PromptDrift => PromptDrift'
      BY <1>2, <2>1, WorkerFrame, DriftStays
         DEF Next, WorkerNext, TakeJob, SendRequest, RunAction, ReportJob, collectorVars, promptVars
    <3>2. AwaitedPrompts' = AwaitedPrompts
      BY <3>1 DEF AwaitedPrompts, producerVars
    <3> QED
      BY <1>2, <3>1, <3>2, AwaitedFrame DEF PromptsAwaited, producerVars
  <2>2. ASSUME UNCHANGED vars PROVE PromptsAwaited'
    <3>1. AwaitedPrompts' = AwaitedPrompts /\ PromptDrift' = PromptDrift
      BY <2>2 DEF vars, producerVars, historyVars, AwaitedPrompts, PromptDrift
    <3> QED
      BY <1>2, <2>2, <3>1 DEF PromptsAwaited, vars, producerVars, promptVars, collectorVars,
                             historyVars
  <2> QED
    BY <1>2, <2>1, <2>2, AwaitedProducer, AwaitedCollector DEF Next
<1>3. IInv /\ RInv /\ ReportedOnce /\ UnderWayAgreed /\ PromptsAwaited /\ [Next]_vars
          => PromptsAwaited'
  BY <1>2
<1> QED
  BY <1>1, <1>3, InvariantHolds, PlacesInvariant, OnceInvariant, AgreedInvariant, PTL DEF Spec

\* As long as every result belongs to a prompt, the user is asked about an item only
\* when the results of all earlier ones have been collected (worker.go:269-273).
THEOREM PromptsComeOneByOne == Spec => []PromptsDoNotOverlap
<1>1. ASSUME IInv, RInv, UnderWayAgreed, PromptsAwaited, producer = "prompt", ~PromptDrift,
             NEW j \in 1..(jobID - 1)
      PROVE  j \in collected
  <2>1. j \in Jobs /\ j <= jobID /\ j # jobID
    BY <1>1, SizeAssumption DEF IInv, TypeOK, Jobs
  <2>2. opts.confirm /\ ~skipConfirm /\ AwaitedPrompts = {}
    BY <1>1 DEF PromptsAwaited
  <2>3. status[j] \notin {"unread", "ready", "ignored", "rejected"}
    BY <1>1, <2>1, <2>2 DEF RInv, ReadInOrder, PromptDrift
  <2>4. Agreed(j)
    BY <1>1, <2>1, <2>3 DEF UnderWayAgreed, IInv, TypeOK, Statuses
  <2>5. \A i \in 1..j : i \in Jobs
    BY <2>1, SizeAssumption DEF Jobs
  <2>6. answers[j] = "yes"
    BY <1>1, <2>2, <2>4, <2>5 DEF Agreed, PromptsAwaited
  <2> QED
    BY <1>1, <2>1, <2>2, <2>6 DEF AwaitedPrompts
<1>2. IInv /\ RInv /\ UnderWayAgreed /\ PromptsAwaited => PromptsDoNotOverlap
  BY <1>1 DEF PromptsDoNotOverlap
<1> QED
  BY <1>2, InvariantHolds, PlacesInvariant, AgreedInvariant, AwaitedInvariant, PTL

-----------------------------------------------------------------------------
\* The batch never deadlocks

\* While nobody has said "yes to all", the item for which a prompt was just
\* accepted was answered with "yes" and has not been collected.
LEMMA AcceptedItem ==
    ASSUME IInv, RInv, UnderWayAgreed, PromptsAwaited, opts.confirm, ~skipConfirm,
           producer \in {"promptAdd", "promptCount"}
    PROVE  jobID \in Jobs /\ answers[jobID] = "yes" /\ jobID \notin collected
<1>1. PICK j \in Jobs : j = jobID
  BY DEF IInv, HeldJobs
<1>2. \A i \in 1..j : i \in Jobs
  BY SizeAssumption DEF Jobs
<1>3. answers[j] = "yes"
  BY <1>1, <1>2 DEF UnderWayAgreed, Agreed, PromptsAwaited
<1>4. status[j] \notin Final
  BY <1>1 DEF RInv, ReadInOrder, Queueing, Final
<1> QED
  BY <1>1, <1>3, <1>4, NotYetReported

\* Steps after which the same prompts are awaited and counted.
LEMMA CountedFrame ==
    ASSUME PromptsCounted, UNCHANGED <<opts, collector, promptWG, promptCount>>,
           PromptDrift => PromptDrift', skipConfirm => skipConfirm',
           producer' = "promptCount" <=> producer = "promptCount",
           opts.confirm /\ ~skipConfirm' /\ ~PromptDrift' => AwaitedPrompts' = AwaitedPrompts
    PROVE  PromptsCounted'
BY DEF PromptsCounted

LEMMA CountedProducer ==
    ASSUME IInv, RInv, UnderWayAgreed, PromptsAwaited, PromptsCounted, ProducerNext
    PROVE  PromptsCounted'
<1>1. /\ opts' = opts /\ collected' = collected /\ collector' = collector
      /\ PromptDrift => PromptDrift'
      /\ answers \in [Jobs -> Answers] /\ promptWG \in Nat /\ promptCount \in Int
  BY ProducerFrame, DriftStays DEF collectorVars, Next, IInv, TypeOK
<1>2. CASE GetNext \/ SendInputError \/ SendDeclined \/ PromptWait \/ SendJob \/ CloseJobs
  <2>1. /\ UNCHANGED <<answers, skipConfirm, promptWG, promptCount>>
        /\ producer \notin {"promptAdd", "promptCount"}
        /\ producer' \notin {"promptAdd", "promptCount"}
    BY <1>2 DEF GetNext, SendInputError, SendDeclined, SendResult, PromptWait, SendJob, CloseJobs,
                AfterDecline, promptVars, historyVars
  <2>2. AwaitedPrompts' = AwaitedPrompts
    BY <1>1, <2>1 DEF AwaitedPrompts
  <2> QED
    BY <1>1, <2>1, <2>2, CountedFrame
<1>3. CASE Prompt
  <2>1. /\ producer = "prompt" /\ jobID' = jobID
        /\ UNCHANGED <<promptWG, promptCount>>
        /\ answers' = [answers EXCEPT ![jobID] = reply']
        /\ skipConfirm' = (skipConfirm \/ reply' = "yesToAll")
        /\ \/ reply' \in {"yes", "yesToAll"} /\ producer' = "promptAdd"
           \/ /\ reply' \notin {"yes", "yesToAll"} /\ producer' = "sendDeclined"
              /\ status' = [status EXCEPT ![jobID] = "rejected"]
    BY <1>3 DEF Prompt, promptVars
  <2>2. jobID \in Jobs /\ answers[jobID] = "none" /\ status \in [Jobs -> Statuses]
    BY <2>1 DEF IInv, TypeOK, HeldJobs, UnderWayAgreed
  <2>3. opts.confirm
    BY <2>1 DEF PromptsAwaited
  <2>4. CASE reply' = "yes"
    <3>1. \A i \in Jobs : answers'[i] = IF i = jobID THEN "yes" ELSE answers[i]
      BY <1>1, <2>1, <2>4
    <3>2. AwaitedPrompts' = AwaitedPrompts
      BY <1>1, <2>1, <2>2, <2>4, <3>1 DEF AwaitedPrompts
    <3> QED
      BY <1>1, <2>1, <2>4, <3>2, CountedFrame
  <2>5. CASE reply' = "yesToAll"
    BY <2>1, <2>5 DEF PromptsCounted
  <2>6. CASE reply' \notin {"yes", "yesToAll"}
    <3>1. status'[jobID] = "rejected"
      BY <2>1, <2>2, <2>6
    <3>2. PromptDrift'
      BY <1>1, <2>2, <2>3, <3>1 DEF PromptDrift
    <3> QED
      BY <3>2 DEF PromptsCounted
  <2> QED
    BY <2>4, <2>5, <2>6
<1>4. CASE PromptAdd
  <2>1. /\ UNCHANGED <<answers, skipConfirm, jobID, promptCount>> /\ promptWG' = promptWG + 1
        /\ producer = "promptAdd" /\ producer' = "promptCount"
    BY <1>4 DEF PromptAdd, historyVars
  <2>2. ASSUME opts.confirm, ~skipConfirm
        PROVE  Cardinality(AwaitedPrompts') = Cardinality(AwaitedPrompts) + 1
    <3>1. jobID \in Jobs /\ answers[jobID] = "yes" /\ jobID \notin collected
      BY <2>1, <2>2, AcceptedItem
    <3>2. AwaitedPrompts' = AwaitedPrompts \cup {jobID} /\ jobID \notin AwaitedPrompts
      BY <1>1, <2>1, <3>1 DEF AwaitedPrompts
    <3> QED
      BY <3>2, AwaitedFinite, FS_AddElement
  <2> QED
    BY <1>1, <2>1, <2>2, AwaitedFinite DEF PromptsCounted
<1>5. CASE PromptCount
  <2>1. /\ UNCHANGED <<answers, skipConfirm, jobID, promptWG>> /\ promptCount' = promptCount + 1
        /\ producer = "promptCount" /\ producer' = "sendJob"
    BY <1>5 DEF PromptCount, historyVars
  <2>2. AwaitedPrompts' = AwaitedPrompts
    BY <1>1, <2>1 DEF AwaitedPrompts
  <2> QED
    BY <1>1, <2>1, <2>2, AwaitedFinite DEF PromptsCounted
<1> QED
  BY <1>2, <1>3, <1>4, <1>5 DEF ProducerNext

LEMMA CountedCollector ==
    ASSUME IInv, RInv, ReportedOnce, UnderWayAgreed, PromptsAwaited, PromptsCounted,
           CloserNext \/ CollectorNext
    PROVE  PromptsCounted'
<1>1. /\ UNCHANGED <<opts, producer, jobID, skipConfirm, answers>>
      /\ PromptDrift => PromptDrift'
      /\ results \in Seq(Result) /\ promptWG \in Nat /\ promptCount \in Int
      /\ Cardinality(AwaitedPrompts) \in Nat
  BY CollectorFrame, DriftStays, AwaitedFinite DEF producerVars, Next, IInv, TypeOK
<1>2. ASSUME collected' = collected
      PROVE  AwaitedPrompts' = AwaitedPrompts
  BY <1>1, <1>2 DEF AwaitedPrompts
<1>3. CASE Receive
  <2>1. /\ collector = "receive" /\ collector' = "handle" /\ results # <<>>
        /\ UNCHANGED <<promptWG, promptCount>>
        /\ collected' = collected \cup {Head(results).job}
    BY <1>3 DEF Receive, promptVars
  <2>2. 1 \in 1..Len(results) /\ Head(results) = results[1]
    BY <1>1, <2>1
  <2>3. ASSUME opts.confirm, ~skipConfirm, ~PromptDrift
        PROVE  Cardinality(AwaitedPrompts') = Cardinality(AwaitedPrompts) - 1
    <3>1. AwaitedPrompts' = AwaitedPrompts \ {results[1].job}
      BY <1>1, <2>1, <2>2 DEF AwaitedPrompts
    <3>2. results[1].job \in AwaitedPrompts
      BY <2>2, <2>3, ResultOfPrompt
    <3> QED
      BY <3>1, <3>2, AwaitedFinite, FS_RemoveElement
  <2> QED
    BY <1>1, <2>1, <2>3 DEF PromptsCounted
<1>4. CASE ReleasePrompt
  <2>1. /\ collector = "handle" /\ UNCHANGED <<promptWG, collected>>
        /\ promptCount' = promptCount - 1
        /\ collector' = IF promptCount > 0 THEN "promptDone" ELSE "receive"
    BY <1>4 DEF ReleasePrompt, ReleaseOwed, historyVars
  <2>2. AwaitedPrompts' = AwaitedPrompts
    BY <1>2, <2>1
  <2>3. ASSUME opts.confirm, ~skipConfirm, producer = "promptCount"
        PROVE  Cardinality(AwaitedPrompts) > 0
    <3>1. jobID \in AwaitedPrompts
      BY <2>3, AcceptedItem DEF AwaitedPrompts
    <3> QED
      BY <1>1, <3>1, AwaitedFinite, FS_EmptySet
  <2> QED
    BY <1>1, <2>1, <2>2, <2>3 DEF PromptsCounted
<1>5. CASE PromptDone
  <2>1. /\ collector = "promptDone" /\ collector' = "receive"
        /\ UNCHANGED <<promptCount, collected>>
        /\ promptWG' = promptWG - 1
    BY <1>5 DEF PromptDone, historyVars
  <2>2. AwaitedPrompts' = AwaitedPrompts
    BY <1>2, <2>1
  <2> QED
    BY <1>1, <2>1, <2>2 DEF PromptsCounted
<1>6. CASE collector' \notin {"receive", "handle", "promptDone"}
  BY <1>6 DEF PromptsCounted
<1>7. CASE CloserNext
  <2>1. UNCHANGED <<collector, promptWG, promptCount, collected>>
    BY <1>7 DEF CloserNext, WaitWorkers, CloseResults, collectorVars, promptVars, historyVars
  <2> QED
    BY <1>1, <1>2, <2>1, CountedFrame
<1>8. CASE Abort \/ AbortClose \/ Return \/ Exit
  <2>1. collector' \in {"abortClose", "returned"}
    BY <1>8 DEF Abort, AbortClose, Return, Exit, collectorVars
  <2> QED
    BY <1>6, <2>1
<1> QED
  BY <1>3, <1>4, <1>5, <1>7, <1>8 DEF CollectorNext

LEMMA CountedInvariant == Spec => []PromptsCounted
<1>1. Init => PromptsCounted
  <2>1. SUFFICES ASSUME Init PROVE PromptsCounted
    OBVIOUS
  <2>2. AwaitedPrompts = {}
    BY <2>1 DEF Init, AwaitedPrompts
  <2>3. Cardinality(AwaitedPrompts) = 0
    BY <2>2, FS_EmptySet
  <2>4. collector = "receive" /\ promptWG = 0 /\ promptCount = 0 /\ producer = "next"
    BY <2>1 DEF Init
  <2> QED
    BY <2>3, <2>4 DEF PromptsCounted
<1>2. ASSUME IInv, RInv, ReportedOnce, UnderWayAgreed, PromptsAwaited, PromptsCounted, [Next]_vars
      PROVE  PromptsCounted'
  <2>1. ASSUME NEW w \in Workers, WorkerNext(w) PROVE PromptsCounted'
    <3>1. /\ UNCHANGED <<opts, producerVars, collector, collected, answers, promptWG, promptCount>>
          /\ PromptDrift => PromptDrift'
      BY <1>2, <2>1, WorkerFrame, DriftStays
         DEF Next, WorkerNext, TakeJob, SendRequest, RunAction, ReportJob, collectorVars, promptVars
    <3>2. AwaitedPrompts' = AwaitedPrompts
      BY <3>1 DEF AwaitedPrompts, producerVars
    <3> QED
      BY <1>2, <3>1, <3>2, CountedFrame DEF producerVars
  <2>2. ASSUME UNCHANGED vars PROVE PromptsCounted'
    <3>1. AwaitedPrompts' = AwaitedPrompts /\ PromptDrift' = PromptDrift
      BY <2>2 DEF vars, producerVars, historyVars, AwaitedPrompts, PromptDrift
    <3> QED
      BY <1>2, <2>2, <3>1, CountedFrame DEF vars, producerVars, promptVars, collectorVars
  <2> QED
    BY <1>2, <2>1, <2>2, CountedProducer, CountedCollector DEF Next
<1>3. IInv /\ RInv /\ ReportedOnce /\ UnderWayAgreed /\ PromptsAwaited /\ PromptsCounted
          /\ [Next]_vars => PromptsCounted'
  BY <1>2
<1> QED
  BY <1>1, <1>3, InvariantHolds, PlacesInvariant, OnceInvariant, AgreedInvariant,
     AwaitedInvariant, PTL DEF Spec

LEMMA ClosedStep ==
    ASSUME IInv, ClosedInTheEnd, [Next]_vars PROVE ClosedInTheEnd'
<1>1. CASE ProducerNext
  <2>1. UNCHANGED <<resultsClosed, closer, wasCancelled, collector>>
    BY <1>1, ProducerFrame DEF collectorVars
  <2>2. jobsClosed => jobsClosed'
    BY <1>1 DEF ProducerNext, GetNext, SendInputError, SendResult, PromptWait, Prompt,
       SendDeclined, PromptAdd, PromptCount, SendJob, CloseJobs, jobsVars
  <2>3. producer' = "done" => producer = "done" \/ jobsClosed'
    BY <1>1 DEF ProducerNext, GetNext, SendInputError, SendResult, PromptWait, Prompt,
       SendDeclined, AfterDecline, PromptAdd, PromptCount, SendJob, CloseJobs
  <2> QED
    BY <2>1, <2>2, <2>3 DEF ClosedInTheEnd
<1>2. ASSUME NEW w \in Workers, WorkerNext(w) PROVE ClosedInTheEnd'
  <2>1. UNCHANGED <<producer, resultsClosed, closer, wasCancelled, collector, jobsClosed>>
    BY <1>2, WorkerFrame DEF WorkerNext, TakeJob, SendRequest, RunAction, ReportJob, jobsVars,
       producerVars, collectorVars
  <2> QED
    BY <2>1 DEF ClosedInTheEnd
<1>3. CASE CloserNext \/ CollectorNext
  <2>1. UNCHANGED <<producer, jobsClosed>> /\ wasCancelled \in Nat
    BY <1>3, CollectorFrame DEF CloserNext, WaitWorkers, CloseResults, CollectorNext, Receive,
       Abort, AbortClose, ReleasePrompt, PromptDone, Return, Exit, jobsVars, producerVars,
       IInv, TypeOK
  <2>2. CASE WaitWorkers \/ CloseResults
    BY <2>1, <2>2 DEF WaitWorkers, CloseResults, ClosedInTheEnd, collectorVars
  <2>3. CASE CollectorNext
    BY <2>1, <2>3 DEF CollectorNext, Receive, Abort, AbortClose, ReleasePrompt, PromptDone,
       Return, Exit, ClosedInTheEnd, collectorVars, resultsVars
  <2> QED
    BY <1>3, <2>2, <2>3 DEF CloserNext
<1>4. CASE UNCHANGED vars
  BY <1>4 DEF vars, producerVars, jobsVars, resultsVars, collectorVars, ClosedInTheEnd
<1> QED
  BY <1>1, <1>2, <1>3, <1>4 DEF Next

LEMMA ClosedInvariant == Spec => []ClosedInTheEnd
<1>1. Init => ClosedInTheEnd
  BY DEF Init, ClosedInTheEnd
<1>2. IInv /\ ClosedInTheEnd /\ [Next]_vars => ClosedInTheEnd'
  BY ClosedStep
<1> QED
  BY <1>1, <1>2, InvariantHolds, PTL DEF Spec

\* Under AllBlocked the collector waits at an empty channel, which takes a result:
\* nobody is blocked at a send of a result.
LEMMA WhoIsBlocked ==
    ASSUME IInv, AllBlocked
    PROVE  /\ process = "running" /\ collector = "receive" /\ results = <<>> /\ ~resultsClosed
           /\ closer = "done" \/ (closer = "wait" /\ ~AllWorkersDone)
           /\ \/ producer = "done"
              \/ producer = "wait" /\ promptWG # 0
              \/ producer = "sendJob" /\ ~CanSendJob
           /\ \A w \in Workers :
                 worker[w].pc = "done" \/ (worker[w].pc = "idle" /\ jobs = <<>> /\ ~jobsClosed)
<1>1. collector = "receive" /\ results = <<>>
  BY DEF AllBlocked, CollectorBlocked
<1>2. CanSendResult
  BY <1>1, CapacityType DEF CanSendResult
<1> QED
  BY <1>1, <1>2 DEF AllBlocked, CollectorBlocked, CloserBlocked, ProducerBlocked, WorkerBlocked,
                    PromptsSettled, JobsDrained

\* No prompt is awaited while everybody is blocked: its item would be in the queue, in
\* the hands of a worker, or reported.
LEMMA NoPromptAwaited ==
    ASSUME IInv, RInv, UnderWayAgreed, AllBlocked, producer = "wait"
    PROVE  AwaitedPrompts = {}
<1>1. SUFFICES ASSUME NEW j \in AwaitedPrompts PROVE FALSE
  OBVIOUS
<1>2. j \in Jobs /\ answers[j] = "yes" /\ j \notin collected
  BY <1>1 DEF AwaitedPrompts
<1>3. status[j] \in Statuses
  BY <1>2 DEF IInv, TypeOK
<1>4. results = <<>> /\ \A w \in Workers : worker[w].pc \in {"done", "idle"}
  BY WhoIsBlocked
<1>5. ~Reported(j)
  BY <1>2, <1>4 DEF Reported
<1>6. status[j] \notin Final
  BY <1>2, <1>5 DEF RInv, ResultsTellStatus
<1>7. status[j] # "started"
  BY <1>2, <1>4 DEF RInv, OneWorkerEach, Busy
<1>8. status[j] # "queued"
  <2>1. jobs = <<>>
    <3>1. CASE \A w \in Workers : worker[w].pc = "done"
      BY <3>1, WorkersAssumption DEF RInv, QueueInOrder
    <3>2. CASE ~\A w \in Workers : worker[w].pc = "done"
      BY <3>2, WhoIsBlocked
    <3> QED
      BY <3>1, <3>2
  <2> QED
    BY <1>2, <2>1 DEF RInv, QueueInOrder
<1>9. status[j] # "ready"
  BY <1>1, <1>2 DEF RInv, ReadInOrder, UnderWayAgreed
<1>10. status[j] # "unread"
  <2>1. j > jobID => answers[j] = "none"
    BY <1>2 DEF RInv, ReadInOrder
  <2>2. j <= jobID /\ status[j] = "unread" => j = jobID
    BY <1>2 DEF RInv, ReadInOrder
  <2>3. j <= jobID \/ j > jobID
    BY <1>2, SizeAssumption DEF IInv, TypeOK, Jobs
  <2> QED
    BY <1>1, <1>2, <2>1, <2>2, <2>3 DEF UnderWayAgreed
<1> QED
  BY <1>3, <1>6, <1>7, <1>8, <1>9, <1>10 DEF Statuses, Final

\* Never are all goroutines of a batch blocked, for any number of workers and inputs,
\* but at the wait for a prompt whose counter was upset (worker.go:177-392).
THEOREM BatchNeverDeadlocks == Spec => []NoDeadlock
<1>1. ASSUME IInv, RInv, UnderWayAgreed, PromptsAwaited, PromptsCounted, ClosedInTheEnd,
             AllBlocked
      PROVE  producer = "wait" /\ PromptDrift
  <2>1. CASE producer = "done"
    <3>1. \A w \in Workers : worker[w].pc = "done"
      BY <1>1, <2>1, WhoIsBlocked DEF ClosedInTheEnd
    <3>2. closer = "done"
      BY <1>1, <3>1, WhoIsBlocked DEF AllWorkersDone
    <3> QED
      BY <1>1, <3>2, WhoIsBlocked DEF ClosedInTheEnd
  <2>2. CASE producer = "sendJob"
    <3>1. ~CanSendJob
      BY <1>1, <2>2, WhoIsBlocked
    <3>2. ~jobsClosed
      BY <1>1, <2>2 DEF IInv, CloseOrder
    <3>3. \A w \in Workers : worker[w].pc = "idle" /\ jobs = <<>>
      BY <1>1, <3>2, WhoIsBlocked DEF IInv, CloseOrder
    <3>4. IdleWorkers = Workers /\ Len(jobs) = 0
      BY <3>3, WorkersAssumption DEF IdleWorkers
    <3> QED
      BY <3>1, <3>4, CapacityType DEF CanSendJob
  <2>3. CASE producer = "wait" /\ promptWG # 0
    <3>1. SUFFICES ASSUME ~PromptDrift PROVE FALSE
      BY <2>3
    <3>2. opts.confirm /\ ~skipConfirm
      BY <1>1, <2>3 DEF PromptsAwaited
    <3>3. AwaitedPrompts = {}
      BY <1>1, <2>3, <3>1, <3>2, NoPromptAwaited
    <3>4. Cardinality(AwaitedPrompts) = 0
      BY <3>3, FS_EmptySet
    <3>5. collector = "receive"
      BY <1>1, WhoIsBlocked
    <3> QED
      BY <1>1, <2>3, <3>1, <3>2, <3>4, <3>5 DEF PromptsCounted
  <2> QED
    BY <1>1, <2>1, <2>2, <2>3, WhoIsBlocked
<1>2. IInv /\ RInv /\ UnderWayAgreed /\ PromptsAwaited /\ PromptsCounted /\ ClosedInTheEnd
          => NoDeadlock
  BY <1>1 DEF NoDeadlock
<1> QED
  BY <1>2, InvariantHolds, PlacesInvariant, AgreedInvariant, AwaitedInvariant,
     CountedInvariant, ClosedInvariant, PTL

-----------------------------------------------------------------------------
\* Every step of the batch is progress, and the progress is bounded

LEMMA RangeStep ==
    ASSUME IInv, ActionsInRange, [Next]_vars PROVE ActionsInRange'
<1>1. ASSUME NEW w \in Workers, WorkerNext(w) PROVE ActionsInRange'
  <2>1. worker \in [Workers -> WorkerState] /\ NumPostActions \in Nat
    BY SizeAssumption DEF IInv, TypeOK
  <2>2. ASSUME NEW s, worker' = [worker EXCEPT ![w] = s],
               s.pc = "action" => s.action < NumPostActions
        PROVE  ActionsInRange'
    BY <2>1, <2>2 DEF ActionsInRange
  <2>3. ASSUME NEW i, NEW e, NEW n, NEW pc, pc # "action",
               worker' = [worker EXCEPT ![w] = At(pc, i, e, n)]
        PROVE  ActionsInRange'
    <3> DEFINE s == At(pc, i, e, n)
    <3>1. s.pc # "action" /\ worker' = [worker EXCEPT ![w] = s]
      BY <2>3 DEF At
    <3> HIDE DEF s
    <3> QED
      BY <2>2, <3>1
  <2>4. ASSUME NEW n \in Nat, n <= NumPostActions, NextAction(w, n) PROVE ActionsInRange'
    <3>1. CASE n = NumPostActions
      BY <2>3, <2>4, <3>1 DEF NextAction, FinishJob
    <3>2. CASE n # NumPostActions
      <4> DEFINE s == At("action", worker[w].job, NoError, n)
      <4>1. s.action < NumPostActions /\ worker' = [worker EXCEPT ![w] = s]
        BY <2>1, <2>4, <3>2 DEF NextAction, At
      <4> HIDE DEF s
      <4> QED
        BY <2>2, <4>1
    <3> QED
      BY <3>1, <3>2
  <2>5. CASE SendRequest(w)
    BY <2>1, <2>3, <2>4, <2>5 DEF SendRequest, FinishJob
  <2>6. CASE RunAction(w)
    <3>1. worker[w].action \in Nat /\ worker[w].action < NumPostActions
      BY <2>1, <2>6 DEF RunAction, ActionsInRange, WorkerState
    <3>2. worker[w].action + 1 \in Nat /\ worker[w].action + 1 <= NumPostActions
      BY <2>1, <3>1
    <3> QED
      BY <2>3, <2>4, <2>6, <3>2 DEF RunAction, FinishJob
  <2>7. CASE TakeJob(w) \/ ReportJob(w)
    <3>1. \/ worker' = worker
          \/ \E i, pc : /\ pc # "action"
                         /\ worker' = [worker EXCEPT ![w] = At(pc, i, NoError, 0)]
      BY <2>7 DEF TakeJob, ReportJob, SendResult
    <3>2. CASE worker' = worker
      BY <3>2 DEF ActionsInRange
    <3> QED
      BY <2>3, <3>1, <3>2
  <2> QED
    BY <1>1, <2>5, <2>6, <2>7 DEF WorkerNext
<1>2. CASE ProducerNext \/ CloserNext \/ CollectorNext \/ UNCHANGED vars
  <2>1. worker' = worker
    BY <1>2, ProducerFrame, CollectorFrame DEF vars
  <2> QED
    BY <2>1 DEF ActionsInRange
<1> QED
  BY <1>1, <1>2 DEF Next

LEMMA RangeInvariant == Spec => []ActionsInRange
<1>1. Init => ActionsInRange
  BY DEF Init, ActionsInRange, At
<1>2. IInv /\ ActionsInRange /\ [Next]_vars => ActionsInRange'
  BY RangeStep
<1> QED
  BY <1>1, <1>2, InvariantHolds, PTL DEF Spec

\* A result that was sent is in the channel or collected; sending another changes nothing.
LEMMA SentStays ==
    ASSUME IInv, NEW j, SentResult(j), collected' = collected,
           results' = results \/ \E r : results' = Append(results, r)
    PROVE  SentResult(j)'
<1>1. results \in Seq(Result)
  BY DEF IInv, TypeOK
<1>2. \A k \in 1..Len(results) : k \in 1..Len(results') /\ results'[k] = results[k]
  BY <1>1
<1> QED
  BY <1>2 DEF SentResult

\* Items stay where they are, or go on, while no worker changes its state.
LEMMA StagesFrame ==
    ASSUME \A j \in Jobs : status[j] \in Final \cup {"started"} => status'[j] = status[j],
           worker' = worker,
           \A j \in Jobs : SentResult(j) => SentResult(j)'
    PROVE  ItemStages \subseteq ItemStages'
<1>1. SUFFICES ASSUME NEW s \in ItemStages PROVE s \in ItemStages'
  OBVIOUS
<1>2. PICK j \in Jobs, k \in 0..(NumPostActions + 2) : s = <<j, k>>
  BY <1>1 DEF ItemStages
<1>3. Acting(j, k) => Acting(j, k)'
  BY DEF Acting
<1>4. SentResult(j) => SentResult(j)'
  OBVIOUS
<1> HIDE DEF Acting, SentResult
<1> QED
  BY <1>1, <1>2, <1>3, <1>4 DEF ItemStages, Final

LEMMA ProducerForward ==
    ASSUME IInv, RInv, ProducerNext PROVE Forward
<1>1. /\ jobID \in Nat /\ results \in Seq(Result) /\ status \in [Jobs -> Statuses]
      /\ process = "running"
  BY StepOfRunning, SizeAssumption DEF Next, IInv, TypeOK
<1>2. UNCHANGED <<EndedWorkers, CloserStep, collectorProgress, worker, collected>>
  BY ProducerFrame DEF EndedWorkers, CloserStep, collectorProgress, CollectorStep, collectorVars
<1>3. ItemStages \subseteq ItemStages'
  <2>1. \A j \in Jobs : status[j] \in Final => status'[j] = status[j]
    BY FinalStays DEF Next
  <2>2. \A j \in Jobs : status[j] = "started" => status'[j] = status[j]
    <3>1. SUFFICES ASSUME NEW j \in Jobs, status[j] = "started" PROVE status'[j] = status[j]
      OBVIOUS
    <3>2. j # jobID + 1
      BY <1>1, <3>1 DEF RInv, ReadInOrder
    <3>3. producer \in {"prompt", "sendJob"} => j # jobID
      BY <3>1 DEF RInv, ReadInOrder, Queueing
    <3> QED
      BY <1>1, <3>2, <3>3, ProducerSteps DEF GetNext, Prompt, SendJob
  <2>3. results' = results \/ \E r : results' = Append(results, r)
    BY SenderFrame
  <2>4. \A j \in Jobs : SentResult(j) => SentResult(j)'
    BY <1>2, <2>3, SentStays
  <2> QED
    BY <1>2, <2>1, <2>2, <2>4, StagesFrame
<1>4. \/ producerProgress < producerProgress'
      \/ producerProgress = producerProgress' /\ process' = "crashed"
  <2>1. CASE GetNext
    BY <1>1, <2>1 DEF GetNext, producerProgress, ProducerStep
  <2>2. CASE SendInputError \/ SendDeclined
    BY <1>1, <2>2 DEF SendInputError, SendDeclined, SendResult, AfterDecline, Panic,
                      producerProgress, ProducerStep
  <2>3. CASE PromptWait \/ Prompt \/ PromptAdd \/ PromptCount \/ SendJob \/ CloseJobs
    BY <1>1, <2>3 DEF PromptWait, Prompt, PromptAdd, PromptCount, SendJob, CloseJobs,
                      producerProgress, ProducerStep
  <2> QED
    BY <2>1, <2>2, <2>3 DEF ProducerNext
<1>5. producerProgress \in Int
  BY <1>1 DEF producerProgress, ProducerStep
<1>6. producerProgress' \in Int
  <2>1. TypeOK'
    BY TypeStep DEF Next, IInv
  <2>2. jobID' \in Int
    BY <2>1, SizeAssumption DEF TypeOK
  <2> QED
    BY <2>2 DEF producerProgress, ProducerStep
<1>7. progress # progress'
  BY <1>1, <1>4, <1>5, <1>6 DEF progress
<1>8. CloserStep \in Int /\ collectorProgress \in Int
  <2>1. Cardinality(collected) \in Nat
    BY JobsFinite, FS_CardinalityType DEF IInv, TypeOK
  <2> QED
    BY <2>1 DEF CloserStep, collectorProgress, CollectorStep
<1> QED
  BY <1>1, <1>2, <1>3, <1>4, <1>5, <1>6, <1>7, <1>8 DEF Forward

\* The stages that an item has reached, one by one.
LEMMA StageOf ==
    ASSUME NEW j \in Jobs, NEW k \in 0..(NumPostActions + 2)
    PROVE  <<j, k>> \in ItemStages <=>
               \/ k = 0 /\ status[j] = "started"
               \/ k <= NumPostActions + 1 /\ status[j] \in Final
               \/ 1 <= k /\ k <= NumPostActions /\ status[j] = "started" /\ Acting(j, k)
               \/ k = NumPostActions + 2 /\ SentResult(j)
<1> HIDE DEF Acting, SentResult
<1> QED
  BY DEF ItemStages, Final

LEMMA StagesAre == ItemStages \subseteq Jobs \X (0..(NumPostActions + 2))
BY DEF ItemStages

\* The worker of a started item begins its next action.
LEMMA NextActionForward ==
    ASSUME IInv, RInv, ActionsInRange, NEW w \in Workers, Busy(w), NEW n \in Nat,
           n <= NumPostActions, NextAction(w, n),
           worker[w].pc = "request" => n = 0,
           worker[w].pc = "action" => n = worker[w].action + 1,
           UNCHANGED <<results, collected>>
    PROVE  ItemStages \subseteq ItemStages' /\ ItemStages # ItemStages'
<1> PICK j \in Jobs : j = worker[w].job
  BY DEF Busy, IInv, HeldJobs
<1>1. /\ j \in Jobs /\ j = worker[w].job /\ status[j] = "started"
      /\ worker \in [Workers -> WorkerState] /\ status \in [Jobs -> Statuses]
      /\ NumPostActions \in Nat
  BY SizeAssumption DEF Busy, IInv, TypeOK, HeldJobs, RInv, OneWorkerEach
<1>2. \A v \in Workers : worker[v].pc = "action" /\ worker[v].job = j => v = w
  BY <1>1 DEF RInv, OneWorkerEach, Busy
<1>3. \A i : SentResult(i) <=> SentResult(i)'
  BY DEF SentResult
<1>4. CASE n = NumPostActions
  <2>1. PICK o \in {"ok", "ignored", "failed"} : status' = [status EXCEPT ![j] = o]
    BY <1>1, <1>4, OutcomeCases DEF NextAction, FinishJob
  <2>2. \A i \in Jobs : status'[i] = IF i = j THEN o ELSE status[i]
    BY <1>1, <2>1
  <2>3. \A v \in Workers : v # w => worker'[v] = worker[v]
    BY <1>1, <1>4 DEF NextAction, FinishJob
  <2>4. \A i \in Jobs : \A k : i # j /\ Acting(i, k) => Acting(i, k)'
    BY <1>1, <2>3 DEF Acting
  <2>5. ItemStages \subseteq ItemStages'
    <3>1. SUFFICES ASSUME NEW s \in ItemStages PROVE s \in ItemStages'
      OBVIOUS
    <3>2. PICK i \in Jobs, k \in 0..(NumPostActions + 2) : s = <<i, k>>
      BY <3>1, StagesAre
    <3> HIDE DEF Acting, SentResult
    <3> QED
      BY <1>1, <1>3, <2>1, <2>2, <2>4, <3>1, <3>2 DEF ItemStages, Final
  <2>6. NumPostActions + 1 \in 0..(NumPostActions + 2)
    BY <1>1
  <2>7. <<j, NumPostActions + 1>> \notin ItemStages
    BY <1>1, <2>6, StageOf DEF Final
  <2>8. <<j, NumPostActions + 1>> \in ItemStages'
    <3> HIDE DEF Acting, SentResult
    <3> QED
      BY <1>1, <2>1, <2>2, <2>6 DEF ItemStages
  <2> QED
    BY <2>5, <2>7, <2>8
<1>5. CASE n # NumPostActions
  <2>1. /\ worker' = [worker EXCEPT ![w] = At("action", j, NoError, n)]
        /\ status' = status
    BY <1>1, <1>5 DEF NextAction
  <2>2. /\ \A v \in Workers : v # w => worker'[v] = worker[v]
        /\ worker'[w].pc = "action" /\ worker'[w].job = j /\ worker'[w].action = n
    BY <1>1, <2>1 DEF At
  <2>3. worker[w].pc = "action" => worker[w].action \in Nat
    BY <1>1 DEF WorkerState
  <2>4. \A i, k : k \in Nat /\ Acting(i, k) => Acting(i, k)'
    <3>1. SUFFICES ASSUME NEW i, NEW k \in Nat, NEW v \in Workers, worker[v].pc = "action",
                          worker[v].job = i, worker[v].action + 1 >= k
                   PROVE  Acting(i, k)'
      BY DEF Acting
    <3>2. CASE v # w
      BY <2>2, <3>1, <3>2 DEF Acting
    <3>3. CASE v = w
      <4>1. worker'[w].action + 1 >= k
        BY <2>2, <2>3, <3>1, <3>3
      <4> QED
        BY <2>2, <3>1, <3>3, <4>1 DEF Acting
    <3> QED
      BY <3>2, <3>3
  <2>5. ItemStages \subseteq ItemStages'
    <3>1. SUFFICES ASSUME NEW s \in ItemStages PROVE s \in ItemStages'
      OBVIOUS
    <3>2. PICK i \in Jobs, k \in 0..(NumPostActions + 2) : s = <<i, k>>
      BY <3>1, StagesAre
    <3>3. (Acting(i, k) => Acting(i, k)') /\ (SentResult(i) => SentResult(i)')
      BY <1>1, <1>3, <2>4, <3>2
    <3> HIDE DEF Acting, SentResult
    <3> QED
      BY <2>1, <3>1, <3>2, <3>3 DEF ItemStages
  <2>6. n + 1 \in 0..(NumPostActions + 2) /\ 1 <= n + 1 /\ n + 1 <= NumPostActions
    BY <1>1, <1>5
  <2>7. ~Acting(j, n + 1)
    <3>1. SUFFICES ASSUME NEW v \in Workers, worker[v].pc = "action", worker[v].job = j,
                          worker[v].action + 1 >= n + 1
                   PROVE  FALSE
      BY DEF Acting
    <3>2. v = w
      BY <1>2, <3>1
    <3>3. worker[w].action \in Nat /\ n = worker[w].action + 1
      BY <2>3, <3>1, <3>2
    <3>4. worker[w].action + 1 >= n + 1
      BY <3>1, <3>2
    <3> QED
      BY <3>3, <3>4
  <2>8. <<j, n + 1>> \notin ItemStages
    BY <1>1, <2>6, <2>7, StageOf DEF Final
  <2>9. <<j, n + 1>> \in ItemStages'
    <3>1. PICK k \in 0..(NumPostActions + 2) : k = n + 1
      BY <2>6
    <3>2. 1 <= k /\ k <= NumPostActions /\ worker'[w].action + 1 >= k
      BY <2>2, <2>6, <3>1
    <3>3. Acting(j, k)'
      BY <1>1, <2>2, <3>2 DEF Acting
    <3> HIDE DEF Acting, SentResult
    <3>4. <<j, k>> \in ItemStages'
      BY <1>1, <2>1, <3>2, <3>3 DEF ItemStages
    <3> QED
      BY <3>1, <3>4
  <2> QED
    BY <2>5, <2>8, <2>9
<1> QED
  BY <1>4, <1>5

LEMMA WorkerForward ==
    ASSUME IInv, RInv, ReportedOnce, ActionsInRange, NEW w \in Workers, WorkerNext(w)
    PROVE  Forward
<1>1. /\ UNCHANGED <<producerVars, closer, collector, collected>>
      /\ process = "running"
      /\ worker \in [Workers -> WorkerState] /\ status \in [Jobs -> Statuses]
      /\ jobs \in Seq(Jobs) /\ results \in Seq(Result)
      /\ NumPostActions \in Nat
  BY WorkerFrame, StepOfRunning, SizeAssumption DEF Next, IInv, TypeOK, collectorVars
<1>2. UNCHANGED <<producerProgress, CloserStep, collectorProgress>>
  BY <1>1 DEF producerProgress, ProducerStep, CloserStep, collectorProgress, CollectorStep,
              producerVars
<1>3. producerProgress \in Int /\ CloserStep \in Int /\ collectorProgress \in Int
  <2>1. Cardinality(collected) \in Nat /\ jobID \in Int
    BY JobsFinite, FS_CardinalityType, SizeAssumption DEF IInv, TypeOK
  <2> QED
    BY <2>1 DEF producerProgress, ProducerStep, CloserStep, collectorProgress, CollectorStep
<1>4. ASSUME ItemStages \subseteq ItemStages', EndedWorkers \subseteq EndedWorkers',
             ItemStages # ItemStages' \/ EndedWorkers # EndedWorkers' \/ process # process'
      PROVE  Forward
  BY <1>1, <1>2, <1>3, <1>4 DEF Forward, progress
<1>5. ASSUME worker[w].pc # "done", \A v \in Workers : v # w => worker'[v] = worker[v]
      PROVE  EndedWorkers \subseteq EndedWorkers'
  BY <1>5 DEF EndedWorkers
<1>6. CASE TakeJob(w)
  <2>1. \A v \in Workers : v # w => worker'[v] = worker[v]
    BY <1>1, <1>6 DEF TakeJob
  <2>2. \A i, k : Acting(i, k) => Acting(i, k)'
    BY <1>6, <2>1 DEF TakeJob, Acting
  <2>3. \A i : SentResult(i) => SentResult(i)'
    BY <1>1, <1>6 DEF TakeJob, SentResult, resultsVars
  <2>4. worker[w].pc = "idle" /\ EndedWorkers \subseteq EndedWorkers'
    BY <1>5, <1>6, <2>1 DEF TakeJob
  <2>5. CASE jobs # <<>>
    <3>1. Head(jobs) = jobs[1] /\ 1 \in 1..Len(jobs) /\ jobs[1] \in Jobs
      BY <1>1, <2>5
    <3>2. PICK j \in Jobs : j = Head(jobs)
      BY <3>1
    <3>3. status[j] = "queued" /\ status' = [status EXCEPT ![j] = "started"]
      BY <1>6, <2>5, <3>1, <3>2 DEF TakeJob, JobsDrained, RInv, QueueInOrder
    <3>4. \A i \in Jobs : status'[i] = IF i = j THEN "started" ELSE status[i]
      BY <1>1, <3>3
    <3>5. ItemStages \subseteq ItemStages'
      <4>1. SUFFICES ASSUME NEW s \in ItemStages PROVE s \in ItemStages'
        OBVIOUS
      <4>2. PICK i \in Jobs, k \in 0..(NumPostActions + 2) : s = <<i, k>>
        BY <4>1, StagesAre
      <4> HIDE DEF Acting, SentResult
      <4> QED
        BY <2>2, <2>3, <3>3, <3>4, <4>1, <4>2 DEF ItemStages
    <3>6. 0 \in 0..(NumPostActions + 2)
      BY <1>1
    <3>7. <<j, 0>> \notin ItemStages
      <4>1. ~(0 = NumPostActions + 2)
        BY <1>1
      <4> QED
        BY <3>3, <3>6, <4>1, StageOf DEF Final
    <3>8. <<j, 0>> \in ItemStages'
      BY <3>2, <3>4, <3>6 DEF ItemStages
    <3> QED
      BY <1>4, <2>4, <3>5, <3>7, <3>8
  <2>6. CASE jobs = <<>>
    <3>1. worker' = [worker EXCEPT ![w] = At("done", 0, NoError, 0)] /\ status' = status
      BY <1>6, <2>6 DEF TakeJob
    <3>2. ItemStages \subseteq ItemStages'
      <4>1. SUFFICES ASSUME NEW s \in ItemStages PROVE s \in ItemStages'
        OBVIOUS
      <4>2. PICK i \in Jobs, k \in 0..(NumPostActions + 2) : s = <<i, k>>
        BY <4>1, StagesAre
      <4> HIDE DEF Acting, SentResult
      <4> QED
        BY <2>2, <2>3, <3>1, <4>1, <4>2 DEF ItemStages
    <3>3. w \in EndedWorkers' /\ w \notin EndedWorkers
      BY <1>1, <2>4, <3>1 DEF EndedWorkers, At
    <3> QED
      BY <1>4, <2>4, <3>2, <3>3
  <2> QED
    BY <2>5, <2>6
<1>7. CASE SendRequest(w) \/ RunAction(w)
  <2>1. Busy(w) /\ results' = results
    BY <1>7 DEF SendRequest, RunAction, Busy, resultsVars
  <2>2. \A v \in Workers : v # w => worker'[v] = worker[v]
    BY <1>1, <1>7 DEF SendRequest, RunAction, NextAction, FinishJob
  <2>3. EndedWorkers \subseteq EndedWorkers'
    BY <1>5, <2>1, <2>2 DEF Busy
  <2>4. ASSUME NEW e \in RequestErrors, FinishJob(w, e)
        PROVE  ItemStages \subseteq ItemStages' /\ ItemStages # ItemStages'
    <3>1. PICK j \in Jobs : j = worker[w].job
      BY <2>1 DEF Busy, IInv, HeldJobs
    <3>2. PICK o \in {"ok", "ignored", "failed"} : status' = [status EXCEPT ![j] = o]
      BY <2>4, <3>1, OutcomeCases DEF FinishJob
    <3>3. \A i \in Jobs : status'[i] = IF i = j THEN o ELSE status[i]
      BY <1>1, <3>2
    <3>4. status[j] = "started"
      BY <2>1, <3>1 DEF RInv, OneWorkerEach
    <3>5. \A i \in Jobs : \A k : i # j /\ Acting(i, k) => Acting(i, k)'
      BY <2>2, <3>1 DEF Acting
    <3>6. \A i : SentResult(i) => SentResult(i)'
      BY <1>1, <2>1 DEF SentResult
    <3>7. ItemStages \subseteq ItemStages'
      <4>1. SUFFICES ASSUME NEW s \in ItemStages PROVE s \in ItemStages'
        OBVIOUS
      <4>2. PICK i \in Jobs, k \in 0..(NumPostActions + 2) : s = <<i, k>>
        BY <4>1, StagesAre
      <4> HIDE DEF Acting, SentResult
      <4> QED
        BY <1>1, <3>2, <3>3, <3>4, <3>5, <3>6, <4>1, <4>2 DEF ItemStages, Final
    <3>8. NumPostActions + 1 \in 0..(NumPostActions + 2)
      BY <1>1
    <3>9. <<j, NumPostActions + 1>> \notin ItemStages
      BY <1>1, <3>4, <3>8, StageOf DEF Final
    <3>10. <<j, NumPostActions + 1>> \in ItemStages'
      <4> HIDE DEF Acting, SentResult
      <4> QED
        BY <1>1, <3>2, <3>3, <3>8 DEF ItemStages
    <3> QED
      BY <3>7, <3>9, <3>10
  <2>5. ASSUME NEW n \in Nat, n <= NumPostActions, NextAction(w, n),
               worker[w].pc = "request" => n = 0,
               worker[w].pc = "action" => n = worker[w].action + 1
        PROVE  ItemStages \subseteq ItemStages' /\ ItemStages # ItemStages'
    BY <1>1, <2>1, <2>5, NextActionForward
  <2>6. ItemStages \subseteq ItemStages' /\ ItemStages # ItemStages'
    <3>1. CASE SendRequest(w)
      BY <1>1, <2>4, <2>5, <3>1 DEF SendRequest
    <3>2. CASE RunAction(w)
      <4>1. worker[w].action \in Nat /\ worker[w].action < NumPostActions
        BY <1>1, <3>2 DEF RunAction, ActionsInRange, WorkerState
      <4>2. worker[w].action + 1 \in Nat /\ worker[w].action + 1 <= NumPostActions
        BY <1>1, <4>1
      <4> QED
        BY <2>4, <2>5, <3>2, <4>2 DEF RunAction
    <3> QED
      BY <1>7, <3>1, <3>2
  <2> QED
    BY <1>4, <2>3, <2>6
<1>8. CASE ReportJob(w)
  <2>1. worker[w].pc = "send" /\ status' = status
    BY <1>8 DEF ReportJob, historyVars
  <2>2. \/ UNCHANGED <<worker, results>> /\ process' = "crashed"
        \/ /\ worker' = [worker EXCEPT ![w] = At("idle", 0, NoError, 0)]
           /\ results' = Append(results, [job |-> worker[w].job, err |-> worker[w].err])
    BY <1>8 DEF ReportJob, SendResult, Panic
  <2>3. \A v \in Workers : v # w => worker'[v] = worker[v]
    BY <1>1, <2>2
  <2>4. EndedWorkers \subseteq EndedWorkers'
    BY <1>5, <2>1, <2>3
  <2>5. \A i, k : Acting(i, k) => Acting(i, k)'
    BY <2>1, <2>3 DEF Acting
  <2>6. \A i : SentResult(i) => SentResult(i)'
    BY <1>1, <2>2, SentStays
  <2>7. ItemStages \subseteq ItemStages'
    <3>1. SUFFICES ASSUME NEW s \in ItemStages PROVE s \in ItemStages'
      OBVIOUS
    <3>2. PICK i \in Jobs, k \in 0..(NumPostActions + 2) : s = <<i, k>>
      BY <3>1, StagesAre
    <3> HIDE DEF Acting, SentResult
    <3> QED
      BY <2>1, <2>5, <2>6, <3>1, <3>2 DEF ItemStages
  <2>8. ASSUME results' = Append(results, [job |-> worker[w].job, err |-> worker[w].err])
        PROVE  ItemStages # ItemStages'
    <3>1. PICK j \in Jobs : j = worker[w].job
      BY <2>1 DEF IInv, HeldJobs
    <3>2. NumPostActions + 2 \in 0..(NumPostActions + 2)
      BY <1>1
    <3>3. ~SentResult(j)
      BY <2>1, <3>1 DEF SentResult, ReportedOnce
    <3>4. <<j, NumPostActions + 2>> \notin ItemStages
      BY <1>1, <3>2, <3>3, StageOf
    <3>5. SentResult(j)'
      <4>1. Len(results) + 1 \in 1..Len(results')
            /\ results'[Len(results) + 1].job = j
        BY <1>1, <2>8, <3>1
      <4> QED
        BY <4>1 DEF SentResult
    <3>6. <<j, NumPostActions + 2>> \in ItemStages'
      <4> HIDE DEF Acting, SentResult
      <4> QED
        BY <3>2, <3>5 DEF ItemStages
    <3> QED
      BY <3>4, <3>6
  <2> QED
    BY <1>1, <1>4, <2>2, <2>4, <2>7, <2>8
<1> QED
  BY <1>6, <1>7, <1>8 DEF WorkerNext

LEMMA CollectorForward ==
    ASSUME IInv, RInv, ReportedOnce, CloserNext \/ CollectorNext
    PROVE  Forward
<1>1. /\ UNCHANGED <<producerVars, jobs, worker, status>>
      /\ process = "running" /\ results \in Seq(Result)
      /\ NumPostActions \in Nat /\ collected \subseteq Jobs
  BY CollectorFrame, StepOfRunning, SizeAssumption DEF Next, IInv, TypeOK
<1>2. UNCHANGED <<producerProgress, EndedWorkers>>
  BY <1>1 DEF producerProgress, ProducerStep, EndedWorkers, producerVars
<1>3. IsFiniteSet(collected) /\ Cardinality(collected) \in Nat /\ jobID \in Int
  BY <1>1, JobsFinite, FS_CardinalityType, SizeAssumption DEF IInv, TypeOK
<1>4. producerProgress \in Int /\ CloserStep \in Int /\ collectorProgress \in Int
  BY <1>3 DEF producerProgress, ProducerStep, CloserStep, collectorProgress, CollectorStep
<1>5. ASSUME \A j \in Jobs : SentResult(j) => SentResult(j)',
             CloserStep <= CloserStep', collectorProgress <= collectorProgress',
             CloserStep # CloserStep' \/ collectorProgress # collectorProgress'
                 \/ process # process'
      PROVE  Forward
  <2>1. ItemStages \subseteq ItemStages'
    BY <1>1, <1>5, StagesFrame
  <2> QED
    BY <1>1, <1>2, <1>4, <1>5, <2>1 DEF Forward, progress
<1>6. CASE Receive
  <2>1. /\ collector = "receive" /\ collector' = "handle" /\ results # <<>>
        /\ results' = Tail(results) /\ closer' = closer
        /\ collected' = collected \cup {Head(results).job}
    BY <1>6 DEF Receive
  <2>2. 1 \in 1..Len(results) /\ Head(results) = results[1]
    BY <1>1, <2>1
  <2>3. Cardinality(collected') = Cardinality(collected) + 1
    <3>1. results[1].job \notin collected
      BY <2>2 DEF ReportedOnce
    <3> QED
      BY <1>3, <2>1, <2>2, <3>1, FS_AddElement
  <2>4. \A j \in Jobs : SentResult(j) => SentResult(j)'
    <3>1. SUFFICES ASSUME NEW k \in 1..Len(results), results[k].job \notin collected'
                   PROVE  \E l \in 1..Len(results') : results'[l].job = results[k].job
      BY <2>1 DEF SentResult
    <3>2. k # 1
      BY <2>1, <2>2, <3>1
    <3>3. k - 1 \in 1..Len(results') /\ results'[k - 1] = results[k]
      BY <1>1, <2>1, <3>2
    <3> QED
      BY <3>3
  <2>5. collectorProgress < collectorProgress'
    BY <1>3, <2>1, <2>3 DEF collectorProgress, CollectorStep
  <2>6. CloserStep' = CloserStep
    BY <2>1 DEF CloserStep
  <2> QED
    BY <1>3, <1>4, <1>5, <2>3, <2>4, <2>5, <2>6 DEF collectorProgress, CollectorStep
<1>7. ASSUME UNCHANGED <<results, collected>>
      PROVE  \A j \in Jobs : SentResult(j) => SentResult(j)'
  BY <1>7 DEF SentResult
<1>8. CASE WaitWorkers \/ CloseResults
  <2>1. UNCHANGED <<results, collected, collector>>
    BY <1>8 DEF WaitWorkers, CloseResults, resultsVars, historyVars, collectorVars
  <2>2. CloserStep < CloserStep' /\ CloserStep' \in Int
    BY <1>8 DEF WaitWorkers, CloseResults, CloserStep
  <2>3. collectorProgress' = collectorProgress
    BY <2>1 DEF collectorProgress, CollectorStep
  <2> QED
    BY <1>4, <1>5, <1>7, <2>1, <2>2, <2>3
<1>9. CASE Abort \/ AbortClose \/ ReleasePrompt \/ PromptDone \/ Return
  <2>1. UNCHANGED <<results, collected, closer>>
    BY <1>9 DEF Abort, AbortClose, ReleasePrompt, PromptDone, Return, resultsVars, historyVars
  <2>2. CollectorStep < CollectorStep' /\ CollectorStep \in Int /\ CollectorStep' \in Int
    BY <1>9 DEF Abort, AbortClose, ReleasePrompt, PromptDone, Return, CollectorStep
  <2>3. collectorProgress < collectorProgress' /\ collectorProgress' \in Int
    BY <1>3, <2>1, <2>2 DEF collectorProgress
  <2>4. CloserStep' = CloserStep
    BY <2>1 DEF CloserStep
  <2> QED
    BY <1>4, <1>5, <1>7, <2>1, <2>3, <2>4
<1>10. CASE Exit
  <2>1. UNCHANGED <<results, collected, collector, closer>> /\ process' = "exited"
    BY <1>10 DEF Exit, resultsVars, historyVars, collectorVars
  <2>2. CloserStep' = CloserStep /\ collectorProgress' = collectorProgress
    BY <2>1 DEF CloserStep, collectorProgress, CollectorStep
  <2> QED
    BY <1>1, <1>4, <1>5, <1>7, <2>1, <2>2
<1> QED
  BY <1>6, <1>8, <1>9, <1>10 DEF CloserNext, CollectorNext

\* Every step of a batch is progress, for any number of workers, items and actions:
\* the goroutines run in no circle, whatever their order (worker.go:177-447).
THEOREM BatchMovesForward == Spec => EveryStepIsForward
<1>1. IInv /\ RInv /\ ReportedOnce /\ ActionsInRange /\ [Next]_vars => [Forward]_vars
  BY ProducerForward, WorkerForward, CollectorForward DEF Next
<1> QED
  BY <1>1, InvariantHolds, PlacesInvariant, OnceInvariant, RangeInvariant, PTL
     DEF Spec, EveryStepIsForward

\* The progress is bounded by the number of items, post actions and workers: no
\* execution of a batch has more steps than that.
THEOREM BatchProgressIsBounded == Spec => []ProgressBounded
<1>1. ASSUME IInv PROVE ProgressBounded
  <2>1. jobID \in 0..NumInputs /\ NumInputs \in Nat /\ collected \subseteq Jobs
    BY <1>1, SizeAssumption DEF IInv, TypeOK
  <2>2. Cardinality(collected) \in 0..NumInputs
    <3>1. IsFiniteSet(Jobs) /\ Cardinality(Jobs) = NumInputs
      <4>1. 1 \in Int /\ NumInputs \in Int
        BY <2>1
      <4>2. /\ IsFiniteSet(1..NumInputs)
            /\ Cardinality(1..NumInputs) = IF 1 > NumInputs THEN 0 ELSE NumInputs - 1 + 1
        BY <4>1, FS_Interval
      <4> QED
        BY <2>1, <4>2 DEF Jobs
    <3>2. IsFiniteSet(collected) /\ Cardinality(collected) <= Cardinality(Jobs)
      BY <2>1, <3>1, FS_Subset
    <3> QED
      BY <2>1, <3>1, <3>2, FS_CardinalityType
  <2>3. ItemStages \subseteq Jobs \X (0..(NumPostActions + 2)) /\ EndedWorkers \subseteq Workers
    BY StagesAre DEF EndedWorkers
  <2> QED
    BY <2>1, <2>2, <2>3 DEF ProgressBounded, producerProgress, ProducerStep, CloserStep,
                            collectorProgress, CollectorStep
<1>2. IInv => ProgressBounded
  BY <1>1
<1> QED
  BY <1>2, InvariantHolds, PTL
=============================================================================
