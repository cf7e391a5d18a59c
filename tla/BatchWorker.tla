---------------------------- MODULE BatchWorker -----------------------------
(***************************************************************************)
(* pkg/worker: Worker.runBatched and Worker.batchWorker.                   *)
(*                                                                         *)
(* Five kinds of goroutines share two Go channels, a wait group and two    *)
(* atomic counters:                                                        *)
(*   - the producer reads the request iterator, asks the user to confirm   *)
(*     and feeds the channel "jobs";                                       *)
(*   - each worker takes jobs, sends the request, runs the post actions    *)
(*     and sends the job's error (or nil) on the channel "results";        *)
(*   - the closer closes "results" once every worker has returned;         *)
(*   - the collector (the main goroutine) ranges over "results", counts    *)
(*     errors, aborts the batch and computes the command's error;          *)
(*   - after the collector returns, the process exits while the other      *)
(*     goroutines may still be running.                                    *)
(*                                                                         *)
(* A Go channel of capacity c is a queue that takes a value while it holds *)
(* fewer than c values plus one per receiver that is parked on it: for     *)
(* c = 0 that is the rendezvous of an unbuffered channel.  Sending on a    *)
(* closed channel panics.                                                  *)
(***************************************************************************)
EXTENDS ErrorMapping, Sequences, FiniteSets

CONSTANTS
    Workers,        \* the batchWorker goroutines (TotalWorkers of them)
    NumInputs,      \* items the request iterator yields before io.EOF
    NumPostActions, \* len(batchOptions.PostActions)
    BatchOptions,   \* the option sets explored (see OptionSet)
    Replies,        \* what the user may type at a prompt
    InputErrors,    \* errors requestIterator.GetNext may return (not EOF)
    RequestErrors   \* errors the request handler or an action may return

\* The options that steer a batch.  abortOnErrors = 0 and maxJobs = 0 mean
\* "no limit" to the collector and to the producer respectively.
OptionSet == [maxJobs : Nat, abortOnErrors : Nat, confirm : BOOLEAN,
              silentStatusCodes : SUBSET (100..599), silentExit : BOOLEAN]

ReplyTexts == {"y", "a", "n", "l", "", "unrecognised", "ctrl-c"}

ASSUME WorkersAssumption ==
    /\ IsFiniteSet(Workers)
    /\ Workers # {}

ASSUME SizeAssumption == NumInputs \in Nat /\ NumPostActions \in Nat

ASSUME DataAssumption ==
    /\ BatchOptions \subseteq OptionSet
    /\ Replies \subseteq ReplyTexts
    /\ InputErrors \subseteq Error \ {NoError}
    /\ RequestErrors \subseteq Error \ {NoError}

\* Every constructor of a CommandError used by requests sets an exit code, and
\* no request reports the codes for "ok" and "job limit exceeded".
ASSUME ExitCodeAssumption ==
    \A e \in InputErrors \cup RequestErrors :
        e.kind = "command" => e.exit \notin {ExitOK, ExitJobLimitExceeded}

Jobs == 1..NumInputs

VARIABLES
    opts,            \* the options of this batch, never written
    \* producer
    producer,        \* its program counter
    jobID, jobInputErrors, skipConfirm,
    reply,           \* prompt.ConfirmResult of the last prompt
    pendingErr,      \* the error the producer is about to send
    \* channels
    jobs, jobsClosed, results, resultsClosed,
    \* workers: [pc, job, err, action]
    worker,
    \* prompt bookkeeping shared by producer and collector
    promptWG, promptCount,
    \* closer
    closer, wasCancelled,
    \* collector
    collector, received, totalErrors,
    \* process
    process, exitCode,
    \* history: what became of each input, and whose results were collected
    status, answers, collected

producerVars  == <<producer, jobID, jobInputErrors, skipConfirm, reply, pendingErr>>
jobsVars      == <<jobs, jobsClosed>>
resultsVars   == <<results, resultsClosed>>
promptVars    == <<promptWG, promptCount>>
collectorVars == <<collector, received, totalErrors>>
processVars   == <<process, exitCode>>
historyVars   == <<status, answers, collected>>
vars == <<opts, producerVars, jobsVars, resultsVars, worker, promptVars,
          closer, wasCancelled, collectorVars, processVars, historyVars>>

-----------------------------------------------------------------------------
\* Channels

Capacity == Cardinality(Workers) - 1

IdleWorkers == {w \in Workers : worker[w].pc = "idle"}

CanSendJob == Len(jobs) < Capacity + Cardinality(IdleWorkers)

CanSendResult ==
    Len(results) < Capacity + (IF collector = "receive" THEN 1 ELSE 0)

\* checkError, as NewWorker is given it by Factory.RunWithWorkers.
CheckError(err) ==
    CheckPostCommandError(err, opts.silentStatusCodes, opts.silentExit)

\* What an error makes of a job, for the history variable status.
Outcome(err, bad) ==
    IF err = NoError THEN "ok" ELSE IF CheckError(err) = NoError THEN "ignored" ELSE bad

\* A panic in any goroutine ends the process.
Panic == process' = "crashed" /\ exitCode' = ExitPanic

\* results <- err for the job: the sender goes on with the action "proceed",
\* which changes its variables "own", or panics.
SendResult(job, err, proceed, own) ==
    \/ /\ resultsClosed
       /\ Panic
       /\ UNCHANGED <<results, own>>
    \/ /\ ~resultsClosed
       /\ CanSendResult
       /\ results' = Append(results, [job |-> job, err |-> err])
       /\ proceed
       /\ UNCHANGED processVars

-----------------------------------------------------------------------------
\* The producer

\* Mutation: one "yes" confirms every later item too.
NeedsConfirmOnce == ~skipConfirm /\ opts.confirm /\ reply = "none"

NeedsConfirm == ~skipConfirm /\ opts.confirm

\* Mutation: the end of the input is noticed one item late.
InputExhaustedLate == jobID > NumInputs

\* requestIterator.GetNext returns io.EOF.
InputExhausted == jobID = NumInputs

\* maxJobs != 0 && jobID > maxJobs
MaxJobsExceeded(id) == opts.maxJobs # 0 /\ id > opts.maxJobs

\* for { jobID++; GetNext() ... } up to the first blocking operation.
GetNext ==
    /\ process = "running"
    /\ producer = "next"
    /\ \/ /\ InputExhausted
          /\ producer' = "close"
          /\ UNCHANGED <<jobID, jobInputErrors, pendingErr, status>>
       \/ /\ ~InputExhausted
          /\ MaxJobsExceeded(jobID + 1)               \* checked after reading the item
          /\ jobID' = jobID + 1
          /\ producer' = "close"
          /\ UNCHANGED <<jobInputErrors, pendingErr, status>>
       \/ /\ ~InputExhausted
          /\ ~MaxJobsExceeded(jobID + 1)
          /\ jobID' = jobID + 1
          /\ \/ \E e \in InputErrors :
                   /\ jobInputErrors' = jobInputErrors + 1
                   /\ pendingErr' = e
                   /\ status' = [status EXCEPT ![jobID + 1] = Outcome(e, "rejected")]
                   /\ producer' = "sendInputError"
             \/ /\ producer' = IF NeedsConfirm THEN "wait" ELSE "sendJob"
                /\ status' = [status EXCEPT ![jobID + 1] = "ready"]
                /\ UNCHANGED <<jobInputErrors, pendingErr>>
    /\ UNCHANGED <<opts, skipConfirm, reply, jobsVars, resultsVars, worker, promptVars,
                   closer, wasCancelled, collectorVars, processVars, answers, collected>>

\* results <- err; the loop ends once jobInputErrors >= AbortOnErrorCount.
SendInputError ==
    /\ process = "running"
    /\ producer = "sendInputError"
    /\ SendResult(jobID, pendingErr,
                  producer' = IF jobInputErrors >= opts.abortOnErrors
                              THEN "close" ELSE "next",
                  producer)
    /\ UNCHANGED <<opts, jobID, jobInputErrors, skipConfirm, reply, pendingErr, jobsVars,
                   resultsClosed, worker, promptVars, closer, wasCancelled,
                   collectorVars, historyVars>>

\* Mutation: the producer prompts without waiting.
PromptsSettledAlways == TRUE

PromptsSettled == promptWG = 0

\* promptWG.Wait()
PromptWait ==
    /\ process = "running"
    /\ producer = "wait"
    /\ PromptsSettled
    /\ producer' = "prompt"
    /\ UNCHANGED <<opts, jobID, jobInputErrors, skipConfirm, reply, pendingErr, jobsVars,
                   resultsVars, worker, promptVars, closer, wasCancelled,
                   collectorVars, processVars, historyVars>>

\* prompt.Confirm: the default is "y", which an empty line keeps; so does any
\* text FromString does not know.  An interrupted prompt counts as "l".
ConfirmResult(text) ==
    IF text = "a" THEN "yesToAll"
    ELSE IF text = "n" THEN "no"
    ELSE IF text \in {"l", "ctrl-c"} THEN "noToAll"
    ELSE "yes"

Prompt ==
    /\ process = "running"
    /\ producer = "prompt"
    /\ \E text \in Replies :
          /\ reply' = ConfirmResult(text)
          /\ answers' = [answers EXCEPT ![jobID] = ConfirmResult(text)]
    /\ skipConfirm' = (skipConfirm \/ reply' = "yesToAll")
    /\ IF reply' \in {"yes", "yesToAll"}
       THEN /\ producer' = "promptAdd"
            /\ UNCHANGED <<pendingErr, status>>
       ELSE /\ producer' = "sendDeclined"
            /\ pendingErr' = AbortAction
            /\ status' = [status EXCEPT ![jobID] = "rejected"]
    /\ UNCHANGED <<opts, jobID, jobInputErrors, jobsVars, resultsVars, worker,
                   promptVars, closer, wasCancelled, collectorVars, processVars, collected>>

\* Mutation: "no" asks again.
AfterDeclineAgain == IF reply = "noToAll" THEN "close" ELSE "prompt"

AfterDecline == IF reply = "noToAll" THEN "close" ELSE "next"

\* ConfirmNo: results <- err; continue.  ConfirmNoToAll: results <- err; break.
SendDeclined ==
    /\ process = "running"
    /\ producer = "sendDeclined"
    /\ SendResult(jobID, pendingErr, producer' = AfterDecline, producer)
    /\ UNCHANGED <<opts, jobID, jobInputErrors, skipConfirm, reply, pendingErr, jobsVars,
                   resultsClosed, worker, promptVars, closer, wasCancelled,
                   collectorVars, historyVars>>

\* promptWG.Add(1)
PromptAdd ==
    /\ process = "running"
    /\ producer = "promptAdd"
    /\ promptWG' = promptWG + 1
    /\ producer' = "promptCount"
    /\ UNCHANGED <<opts, jobID, jobInputErrors, skipConfirm, reply, pendingErr, jobsVars,
                   resultsVars, worker, promptCount, closer, wasCancelled,
                   collectorVars, processVars, historyVars>>

\* atomic.AddInt32(&promptCount, 1)
PromptCount ==
    /\ process = "running"
    /\ producer = "promptCount"
    /\ promptCount' = promptCount + 1
    /\ producer' = "sendJob"
    /\ UNCHANGED <<opts, jobID, jobInputErrors, skipConfirm, reply, pendingErr, jobsVars,
                   resultsVars, worker, promptWG, closer, wasCancelled,
                   collectorVars, processVars, historyVars>>

\* jobs <- batchArgument{...}
SendJob ==
    /\ process = "running"
    /\ producer = "sendJob"
    /\ CanSendJob
    /\ jobs' = Append(jobs, jobID)
    /\ producer' = "next"
    /\ status' = [status EXCEPT ![jobID] = "queued"]
    /\ UNCHANGED <<opts, jobID, jobInputErrors, skipConfirm, reply, pendingErr, jobsClosed,
                   resultsVars, worker, promptVars, closer, wasCancelled,
                   collectorVars, processVars, answers, collected>>

\* defer close(jobs)
CloseJobs ==
    /\ process = "running"
    /\ producer = "close"
    /\ jobsClosed' = TRUE
    /\ producer' = "done"
    /\ UNCHANGED <<opts, jobID, jobInputErrors, skipConfirm, reply, pendingErr, jobs,
                   resultsVars, worker, promptVars, closer, wasCancelled,
                   collectorVars, processVars, historyVars>>

-----------------------------------------------------------------------------
\* The workers

\* A worker's program counter, and the job it holds with the job's error and
\* the post action it is at.
At(pc, job, err, action) == [pc |-> pc, job |-> job, err |-> err, action |-> action]

\* Mutation: a worker returns once jobs is closed, even if jobs are left in it.
JobsDrainedEarly == jobsClosed

\* The end of "for job := range jobs".
JobsDrained == jobs = <<>> /\ jobsClosed

\* for job := range jobs: take a job, or return when jobs is closed and empty.
TakeJob(w) ==
    /\ process = "running"
    /\ worker[w].pc = "idle"
    /\ \/ /\ jobs # <<>>
          /\ jobs' = Tail(jobs)
          /\ worker' = [worker EXCEPT ![w] = At("request", Head(jobs), NoError, 0)]
          /\ status' = [status EXCEPT ![Head(jobs)] = "started"]
       \/ /\ JobsDrained
          /\ worker' = [worker EXCEPT ![w] = At("done", 0, NoError, 0)]
          /\ UNCHANGED <<jobs, status>>
    /\ UNCHANGED <<opts, producerVars, jobsClosed, resultsVars, promptVars, closer,
                   wasCancelled, collectorVars, processVars, answers, collected>>

\* The worker's job ended with error e; its result is still to be sent.
FinishJob(w, e) ==
    /\ worker' = [worker EXCEPT ![w] = At("send", worker[w].job, e, 0)]
    /\ status' = [status EXCEPT ![worker[w].job] = Outcome(e, "failed")]

\* Enter the loop over the post actions, or leave it after the last one.
NextAction(w, done) ==
    IF done = NumPostActions
    THEN FinishJob(w, NoError)
    ELSE /\ worker' = [worker EXCEPT ![w] = At("action", worker[w].job, NoError, done)]
         /\ UNCHANGED status

\* w.requestHandler(...)
SendRequest(w) ==
    /\ process = "running"
    /\ worker[w].pc = "request"
    /\ \/ NextAction(w, 0)
       \/ \E e \in RequestErrors : FinishJob(w, e)
    /\ UNCHANGED <<opts, producerVars, jobsVars, resultsVars, promptVars, closer,
                   wasCancelled, collectorVars, processVars, answers, collected>>

\* action.Run(resp): the first failing action ends the loop.
RunAction(w) ==
    /\ process = "running"
    /\ worker[w].pc = "action"
    /\ \/ NextAction(w, worker[w].action + 1)
       \/ \E e \in RequestErrors : FinishJob(w, e)
    /\ UNCHANGED <<opts, producerVars, jobsVars, resultsVars, promptVars, closer,
                   wasCancelled, collectorVars, processVars, answers, collected>>

\* results <- err
ReportJob(w) ==
    /\ process = "running"
    /\ worker[w].pc = "send"
    /\ SendResult(worker[w].job, worker[w].err,
                  worker' = [worker EXCEPT ![w] = At("idle", 0, NoError, 0)],
                  worker)
    /\ UNCHANGED <<opts, producerVars, jobsVars, resultsClosed, promptVars, closer,
                   wasCancelled, collectorVars, historyVars>>

-----------------------------------------------------------------------------
\* The closer

\* Mutation: the closer waits for one worker instead of all.
OneWorkerDone == \E w \in Workers : worker[w].pc = "done"

AllWorkersDone == \A w \in Workers : worker[w].pc = "done"

\* workers.Wait(); atomic.AddInt32(&wasCancelled, 1) == 1
WaitWorkers ==
    /\ process = "running"
    /\ closer = "wait"
    /\ AllWorkersDone
    /\ wasCancelled' = wasCancelled + 1
    /\ closer' = IF wasCancelled' = 1 THEN "close" ELSE "done"
    /\ UNCHANGED <<opts, producerVars, jobsVars, resultsVars, worker, promptVars,
                   collectorVars, processVars, historyVars>>

\* close(results); closing it a second time would panic.
CloseResults ==
    /\ process = "running"
    /\ closer = "close"
    /\ IF resultsClosed THEN Panic ELSE UNCHANGED processVars
    /\ resultsClosed' = TRUE
    /\ closer' = "done"
    /\ UNCHANGED <<opts, producerVars, jobsVars, results, worker, promptVars,
                   wasCancelled, collectorVars, historyVars>>

-----------------------------------------------------------------------------
\* The collector

\* Mutation: the threshold must be passed, not reached.
AbortReachedLate == opts.abortOnErrors # 0 /\ Len(totalErrors) > opts.abortOnErrors

AbortReached == opts.abortOnErrors # 0 /\ Len(totalErrors) >= opts.abortOnErrors

\* for err := range results: checkError and totalErrors = append(...).
Receive ==
    /\ process = "running"
    /\ collector = "receive"
    /\ results # <<>>
    /\ results' = Tail(results)
    /\ received' = Head(results).err
    /\ totalErrors' = IF received' = NoError \/ CheckError(received') = NoError
                      THEN totalErrors ELSE Append(totalErrors, CheckError(received'))
    /\ collected' = collected \cup {Head(results).job}
    /\ collector' = "handle"
    /\ UNCHANGED <<opts, producerVars, jobsVars, resultsClosed, worker, promptVars, closer,
                   wasCancelled, processVars, status, answers>>

\* "exit early": atomic.AddInt32(&wasCancelled, 1) == 1 decides who closes.
Abort ==
    /\ process = "running"
    /\ collector = "handle"
    /\ AbortReached
    /\ wasCancelled' = wasCancelled + 1
    /\ collector' = IF wasCancelled' = 1 THEN "abortClose" ELSE "returned"
    /\ exitCode' = ExitAbortedWithErrors
    /\ UNCHANGED <<opts, producerVars, jobsVars, resultsVars, worker, promptVars, closer,
                   received, totalErrors, process, historyVars>>

\* close(results); return ExitAbortedWithErrors
AbortClose ==
    /\ process = "running"
    /\ collector = "abortClose"
    /\ IF resultsClosed THEN Panic ELSE UNCHANGED processVars
    /\ resultsClosed' = TRUE
    /\ collector' = "returned"
    /\ UNCHANGED <<opts, producerVars, jobsVars, results, worker, promptVars, closer,
                   wasCancelled, received, totalErrors, historyVars>>

\* Mutations: the counter is compared one too low, or one too high.
ReleaseOwedEarly == promptCount >= 0
ReleaseOwedLate == promptCount > 1

ReleaseOwed == promptCount > 0

\* pendingPrompts := atomic.AddInt32(&promptCount, -1), whatever the result
\* belongs to; Done is owed if the counter was positive before.
ReleasePrompt ==
    /\ process = "running"
    /\ collector = "handle"
    /\ ~AbortReached
    /\ promptCount' = promptCount - 1
    /\ collector' = IF ReleaseOwed THEN "promptDone" ELSE "receive"
    /\ UNCHANGED <<opts, producerVars, jobsVars, resultsVars, worker, promptWG, closer,
                   wasCancelled, received, totalErrors, processVars, historyVars>>

\* promptWG.Done(); a negative counter panics.
PromptDone ==
    /\ process = "running"
    /\ collector = "promptDone"
    /\ IF promptWG = 0 THEN Panic ELSE UNCHANGED processVars
    /\ promptWG' = promptWG - 1
    /\ collector' = "receive"
    /\ UNCHANGED <<opts, producerVars, jobsVars, resultsVars, worker, promptCount, closer,
                   wasCancelled, received, totalErrors, historyVars>>

\* Mutation: the limit is applied but not told.
BatchExitCodeWithoutLimit ==
    IF Len(totalErrors) = 1 THEN totalErrors[1].exit
    ELSE IF Len(totalErrors) > 1 THEN ExitCompletedWithErrors
    ELSE ExitOK

\* Mutation: a single error does not count.
BatchExitCodeOfMany ==
    IF Len(totalErrors) > 1 THEN ExitCompletedWithErrors
    ELSE IF MaxJobsExceeded(jobID) THEN ExitJobLimitExceeded
    ELSE ExitOK

\* The error the batch ends with once results is closed and drained.
BatchExitCode ==
    IF Len(totalErrors) = 1 THEN totalErrors[1].exit
    ELSE IF Len(totalErrors) > 1 THEN ExitCompletedWithErrors
    ELSE IF MaxJobsExceeded(jobID) THEN ExitJobLimitExceeded
    ELSE ExitOK

Return ==
    /\ process = "running"
    /\ collector = "receive"
    /\ results = <<>> /\ resultsClosed
    /\ exitCode' = BatchExitCode
    /\ collector' = "returned"
    /\ UNCHANGED <<opts, producerVars, jobsVars, resultsVars, worker, promptVars, closer,
                   wasCancelled, received, totalErrors, process, historyVars>>

\* MainRun: os.Exit with the code of the returned error.
Exit ==
    /\ process = "running"
    /\ collector = "returned"
    /\ process' = "exited"
    /\ UNCHANGED <<opts, producerVars, jobsVars, resultsVars, worker, promptVars, closer,
                   wasCancelled, collectorVars, exitCode, historyVars>>

-----------------------------------------------------------------------------

Init ==
    /\ opts \in BatchOptions
    /\ producer = "next" /\ jobID = 0 /\ jobInputErrors = 0 /\ skipConfirm = FALSE
    /\ reply = "none" /\ pendingErr = NoError
    /\ jobs = <<>> /\ jobsClosed = FALSE
    /\ results = <<>> /\ resultsClosed = FALSE
    /\ worker = [w \in Workers |-> At("idle", 0, NoError, 0)]
    /\ promptWG = 0 /\ promptCount = 0
    /\ closer = "wait" /\ wasCancelled = 0
    /\ collector = "receive" /\ received = NoError /\ totalErrors = <<>>
    /\ process = "running" /\ exitCode = ExitOK
    /\ status = [j \in Jobs |-> "unread"]
    /\ answers = [j \in Jobs |-> "none"]
    /\ collected = {}

ProducerNext ==
    \/ GetNext \/ SendInputError \/ PromptWait \/ Prompt \/ SendDeclined
    \/ PromptAdd \/ PromptCount \/ SendJob \/ CloseJobs

WorkerNext(w) == TakeJob(w) \/ SendRequest(w) \/ RunAction(w) \/ ReportJob(w)

CloserNext == WaitWorkers \/ CloseResults

CollectorNext ==
    \/ Receive \/ Abort \/ AbortClose \/ ReleasePrompt \/ PromptDone \/ Return \/ Exit

Next ==
    \/ ProducerNext
    \/ \E w \in Workers : WorkerNext(w)
    \/ CloserNext
    \/ CollectorNext

Spec == Init /\ [][Next]_vars

\* The Go scheduler runs every goroutine that can run, and requests end by the
\* timeout of GetTimeoutContext.  Assumed are the ends of what has no deadline: the
\* user answers every prompt, and the server the name lookups of GetNext.
Fairness ==
    /\ WF_vars(ProducerNext)
    /\ \A w \in Workers : WF_vars(WorkerNext(w))
    /\ WF_vars(CloserNext)
    /\ WF_vars(CollectorNext)

FairSpec == Spec /\ Fairness

-----------------------------------------------------------------------------
(***************************************************************************)
(* Properties                                                              *)
(***************************************************************************)

Statuses == {"unread", "ready", "queued", "started", "ok", "ignored", "failed", "rejected"}

ProducerStates == {"next", "sendInputError", "wait", "prompt", "sendDeclined",
                   "promptAdd", "promptCount", "sendJob", "close", "done"}

Result == [job : Jobs, err : Error]

WorkerState == [pc : {"idle", "request", "action", "send", "done"},
                job : 0..NumInputs, err : Error, action : Nat]

Answers == {"none", "yes", "yesToAll", "no", "noToAll"}

\* The type invariant.  jobID never passes the inputs and promptCount may
\* become negative: the collector lowers it for every result.
TypeOK ==
    /\ opts \in BatchOptions
    /\ producer \in ProducerStates
    /\ jobID \in 0..NumInputs /\ jobInputErrors \in Nat /\ skipConfirm \in BOOLEAN
    /\ reply \in Answers /\ pendingErr \in Error
    /\ jobs \in Seq(Jobs) /\ jobsClosed \in BOOLEAN
    /\ results \in Seq(Result) /\ resultsClosed \in BOOLEAN
    /\ worker \in [Workers -> WorkerState]
    /\ promptWG \in Nat /\ promptCount \in Int
    /\ closer \in {"wait", "close", "done"} /\ wasCancelled \in Nat
    /\ collector \in {"receive", "handle", "abortClose", "promptDone", "returned"}
    /\ received \in Error /\ totalErrors \in Seq(Error)
    /\ process \in {"running", "exited", "crashed"} /\ exitCode \in Nat
    /\ status \in [Jobs -> Statuses]
    /\ answers \in [Jobs -> Answers]
    /\ collected \subseteq Jobs

Accepted == {"queued", "started", "ok", "ignored", "failed"}

\* In a batch that must be confirmed, no request leaves the program unless the
\* user said yes to it, or yes to all at it or at an earlier item; after "no to
\* all" (or ctrl-c) not even an item is read (worker.go:269-310).  Input errors
\* may be ignored without a prompt.
NoUnconfirmedRequest ==
    /\ opts.confirm =>
        \A j \in Jobs : status[j] \in Accepted \ {"ignored"} =>
            \/ answers[j] = "yes"
            \/ \E i \in 1..j : answers[i] = "yesToAll"
    /\ \A i, j \in Jobs : answers[i] = "noToAll" /\ i < j => status[j] = "unread"

\* The prompt wait group never goes below zero, which would panic, although
\* the collector decrements for results that belong to no prompt
\* (worker.go:308-309 against 366-369).
PromptReleaseIsOwed == collector = "promptDone" => promptWG > 0

\* Until the error threshold is reached nothing can panic: "results" is
\* closed once, and only after its last sender (worker.go:332-363).
PanicOnlyAfterAbort == process = "crashed" => AbortReached

\* A batch that returns without having been aborted has collected the result
\* of every item it read: no job is lost between producer, workers and
\* collector, whatever the order in which they close their channels.
NothingLost ==
    collector = "returned" /\ ~AbortReached =>
        \A j \in Jobs : status[j] # "unread" =>
            /\ j \in collected
            /\ status[j] \in {"ok", "ignored", "failed", "rejected"}

\* Exit code 0 means what a script takes it for: nothing failed that was not
\* silenced, nothing was declined, and no item was left out unless an error
\* was silenced (runBatched's return values, worker.go:376-392).
SuccessIsEarned ==
    process = "exited" /\ exitCode = ExitOK =>
        /\ \A j \in Jobs : status[j] \in {"unread", "ok", "ignored"}
        /\ (\E j \in Jobs : status[j] = "unread") => \E j \in Jobs : status[j] = "ignored"

\* The threshold of --abortOnErrors bounds the harm: the requests that fail
\* before the process ends exceed it by no more than the results the channel
\* holds and one per worker (worker.go:357-363).
AbortBoundsFailures ==
    opts.abortOnErrors # 0 =>
        Cardinality({j \in Jobs : status[j] = "failed"})
            <= opts.abortOnErrors + 2 * Cardinality(Workers) - 1

\* A result that belongs to no prompt although prompts are in use: it lowers
\* promptCount below what the prompts account for.
PromptDrift == opts.confirm /\ \E j \in Jobs : status[j] \in {"rejected", "ignored"}

\* As long as every result belongs to a prompt, the user is asked about an item
\* only when the result of every earlier one has been collected (the comment at
\* worker.go:271), unless the batch is being aborted.
PromptsDoNotOverlap ==
    producer = "prompt" /\ ~PromptDrift =>
        \A j \in 1..(jobID - 1) : j \in collected

\* Where a goroutine blocks: at a send, a receive or a Wait that cannot go on, or
\* because it has ended.  Requests and prompts are not waited for: they end.
ProducerBlocked ==
    \/ producer = "done"
    \/ producer = "wait" /\ ~PromptsSettled
    \/ producer = "sendJob" /\ ~CanSendJob
    \/ producer \in {"sendInputError", "sendDeclined"} /\ ~resultsClosed /\ ~CanSendResult

WorkerBlocked(w) ==
    \/ worker[w].pc = "done"
    \/ worker[w].pc = "idle" /\ jobs = <<>> /\ ~JobsDrained
    \/ worker[w].pc = "send" /\ ~resultsClosed /\ ~CanSendResult

CloserBlocked == closer = "done" \/ (closer = "wait" /\ ~AllWorkersDone)

CollectorBlocked == collector = "receive" /\ results = <<>> /\ ~resultsClosed

AllBlocked ==
    /\ process = "running"
    /\ ProducerBlocked /\ CloserBlocked /\ CollectorBlocked
    /\ \A w \in Workers : WorkerBlocked(w)

\* Never are all goroutines blocked, whatever the order in which they fill,
\* drain and close the channels, but for one place: the wait before a prompt,
\* after a result that belongs to no prompt has upset the counter of prompts
\* (worker.go:177-392; the run prompt_wait).
NoDeadlock == AllBlocked => producer = "wait" /\ PromptDrift

\* How far the producer has come: the item it is at, and its step with the item.
ProducerStep ==
    CASE producer \in {"sendInputError", "wait"} -> 1
      [] producer = "prompt" -> 2
      [] producer \in {"sendDeclined", "promptAdd"} -> 3
      [] producer = "promptCount" -> 4
      [] producer = "sendJob" -> 5
      [] producer = "next" -> 6
      [] producer = "close" -> 7
      [] OTHER -> 8

\* How far the items have come in the hands of the workers: 0 when a worker has
\* taken the item, k when its k-th post action was begun, NumPostActions + 1 when
\* it has ended and NumPostActions + 2 when its result was sent.
SentResult(j) == j \in collected \/ \E k \in 1..Len(results) : results[k].job = j

Acting(j, k) ==
    \E w \in Workers :
        worker[w].pc = "action" /\ worker[w].job = j /\ worker[w].action + 1 >= k

ItemStages ==
    {s \in Jobs \X (0..(NumPostActions + 2)) :
        LET j == s[1] k == s[2]
        IN  \/ k = 0 /\ status[j] = "started"
            \/ k <= NumPostActions + 1 /\ status[j] \in {"ok", "ignored", "failed", "rejected"}
            \/ 1 <= k /\ k <= NumPostActions /\ status[j] = "started" /\ Acting(j, k)
            \/ k = NumPostActions + 2 /\ SentResult(j)}

\* How far the collector has come with the results it has received.
CollectorStep ==
    CASE collector = "handle" -> 0
      [] collector = "promptDone" -> 1
      [] collector = "receive" -> 2
      [] collector = "abortClose" -> 3
      [] OTHER -> 4

CloserStep == CASE closer = "wait" -> 0 [] closer = "close" -> 1 [] OTHER -> 2

EndedWorkers == {w \in Workers : worker[w].pc = "done"}

\* The progress of the batch, in six parts of which each is bounded.
producerProgress == 9 * jobID + ProducerStep
collectorProgress == 5 * Cardinality(collected) + CollectorStep
progress == <<producerProgress, ItemStages, EndedWorkers, CloserStep, collectorProgress, process>>

ProgressBounded ==
    /\ producerProgress \in 0..(9 * NumInputs + 8)
    /\ ItemStages \subseteq Jobs \X (0..(NumPostActions + 2))
    /\ EndedWorkers \subseteq Workers
    /\ CloserStep \in 0..2
    /\ collectorProgress \in 0..(5 * NumInputs + 4)

\* Every step takes the batch forward in one of the parts and back in none: no
\* goroutine runs in a circle, no item is asked about, sent or collected again,
\* and a batch makes a bounded number of steps (worker.go:177-447).
Forward ==
    /\ producerProgress <= producerProgress'
    /\ ItemStages \subseteq ItemStages' /\ EndedWorkers \subseteq EndedWorkers'
    /\ CloserStep <= CloserStep' /\ collectorProgress <= collectorProgress'
    /\ process = "running"
    /\ progress # progress'

EveryStepIsForward == [][Forward]_vars

\* What a user of the command can observe: the fate of each item and, once
\* the process has ended, its exit code.
observedOutcome ==
    [j \in Jobs |->
        CASE status[j] \in {"ready", "queued"} -> "accepted"
          [] status[j] = "started" -> "running"
          [] OTHER -> status[j]]

observedVerdict ==
    CASE process = "running" -> "open"
      [] process = "exited" /\ exitCode = ExitOK -> "success"
      [] process = "exited" /\ exitCode = ExitJobLimitExceeded -> "limit"
      [] OTHER -> "failure"

Promise == INSTANCE Batch WITH
    MaxParallel <- Cardinality(Workers),
    outcome <- observedOutcome,
    verdict <- observedVerdict

\* The pipeline implements the abstract batch: in order, at most once, at most
\* one request per worker at a time, and an honest exit code.
ImplementsBatch == Promise!Spec

-----------------------------------------------------------------------------
(***************************************************************************)
(* The inductive invariant behind the theorems of BatchWorkerProofs.       *)
(***************************************************************************)

\* A job in somebody's hands is an item of the input.
HeldJobs ==
    /\ producer \notin {"next", "close", "done"} => jobID \in Jobs
    /\ \A w \in Workers :
          worker[w].pc \in {"request", "action", "send"} => worker[w].job \in Jobs

\* The wait group covers every prompt still counted, apart from an Add whose
\* count is to follow and a Done that is owed.
PromptBalance ==
    LET added == IF producer = "promptCount" THEN 1 ELSE 0
        owed  == IF collector = "promptDone" THEN 1 ELSE 0
    IN  /\ promptWG - added - owed >= 0
        /\ promptWG - added - owed >= promptCount

\* Who has closed what: workers end only after the producer, the closer goes
\* on only after the workers, and wasCancelled lets one goroutine close results.
CloseOrder ==
    /\ jobsClosed => producer = "done"
    /\ \A w \in Workers : worker[w].pc = "done" => jobsClosed
    /\ closer # "wait" => \A w \in Workers : worker[w].pc = "done"
    /\ wasCancelled = 0 => closer = "wait" /\ collector # "abortClose" /\ ~resultsClosed
    /\ closer = "close" => collector # "abortClose"
    /\ closer = "close" \/ collector = "abortClose" => ~resultsClosed
    /\ collector = "abortClose" => AbortReached
    /\ resultsClosed => AbortReached \/ closer # "wait"
    /\ process = "crashed" => AbortReached

IInv == TypeOK /\ HeldJobs /\ PromptBalance /\ CloseOrder

(***************************************************************************)
(* The inductive invariants behind BatchRefinementProofs: the status of an *)
(* item tells where the item is, and the other way round.                  *)
(***************************************************************************)

Final == {"ok", "ignored", "failed", "rejected"}
Wrong == {"failed", "rejected"}

\* The producer holds an item that is to be sent.
Queueing == producer \in {"wait", "prompt", "promptAdd", "promptCount", "sendJob"}

Busy(w) == worker[w].pc \in {"request", "action"}

\* An error that the batch counts.
Counts(err) == err # NoError /\ CheckError(err) # NoError

\* The items are read one after the other, all of them unless there is a reason.
ReadInOrder ==
    /\ Queueing => status[jobID] = "ready"
    /\ producer = "sendInputError" =>
          pendingErr # NoError /\ status[jobID] = Outcome(pendingErr, "rejected")
    /\ producer = "sendDeclined" => pendingErr = AbortAction /\ status[jobID] = "rejected"
    /\ \A j \in Jobs : status[j] = "ready" => Queueing /\ j = jobID
    /\ \A j \in Jobs : j > jobID => status[j] = "unread" /\ answers[j] = "none"
    /\ \A j \in Jobs : j <= jobID /\ status[j] = "unread" =>
          j = jobID /\ MaxJobsExceeded(jobID)
    /\ MaxJobsExceeded(jobID) =>
          /\ producer \in {"close", "done"}
          /\ \A j \in Jobs : j = jobID => status[j] = "unread"
    /\ producer \in {"close", "done"} =>
          \/ jobID = NumInputs
          \/ MaxJobsExceeded(jobID)
          \/ \E j \in Jobs : status[j] \in {"ignored", "rejected"}

\* The queue holds the queued items in their order, and none when workers end.
QueueInOrder ==
    /\ \A k \in 1..Len(jobs) : status[jobs[k]] = "queued"
    /\ \A k, l \in 1..Len(jobs) : k < l => jobs[k] < jobs[l]
    /\ \A j \in Jobs : status[j] = "queued" => \E k \in 1..Len(jobs) : jobs[k] = j
    /\ (\E w \in Workers : worker[w].pc = "done") => jobs = <<>>

\* Each started item has one worker.
OneWorkerEach ==
    /\ \A w \in Workers : Busy(w) => status[worker[w].job] = "started"
    /\ \A v, w \in Workers : Busy(v) /\ Busy(w) /\ worker[v].job = worker[w].job => v = w
    /\ \A j \in Jobs : status[j] = "started" => \E w \in Workers : Busy(w) /\ worker[w].job = j
    /\ \A w \in Workers :
          worker[w].pc = "send" => status[worker[w].job] = Outcome(worker[w].err, "failed")

\* The result of an item is collected, in the channel, or about to be sent.
Reported(j) ==
    \/ j \in collected
    \/ \E k \in 1..Len(results) : results[k].job = j
    \/ \E w \in Workers : worker[w].pc = "send" /\ worker[w].job = j
    \/ producer \in {"sendInputError", "sendDeclined"} /\ jobID = j

\* Every item that ended is reported, with an error that counts if it went wrong.
ResultsTellStatus ==
    /\ \A k \in 1..Len(results) :
          /\ status[results[k].job] \in Final
          /\ Counts(results[k].err) <=> status[results[k].job] \in Wrong
    /\ \A j \in collected :
          status[j] \in Final /\ (status[j] \in Wrong => totalErrors # <<>>)
    /\ \A j \in Jobs : status[j] \in Final => Reported(j)
    /\ totalErrors # <<>> => \E j \in Jobs : status[j] \in Wrong

\* Errors that have not been checked yet, and the codes of those that count.
KnownErrors == InputErrors \cup RequestErrors \cup {NoError, AbortAction}

ErrorCodes ==
    /\ pendingErr \in KnownErrors
    /\ \A w \in Workers : worker[w].err \in KnownErrors
    /\ \A k \in 1..Len(results) : results[k].err \in KnownErrors
    /\ \A k \in 1..Len(totalErrors) :
          totalErrors[k].exit \notin {ExitOK, ExitJobLimitExceeded}

\* What the process ends with.
Ending ==
    /\ collector \in {"receive", "promptDone"} => ~AbortReached
    /\ process = "exited" => collector = "returned"
    /\ process = "crashed" => exitCode = ExitPanic
    /\ process # "crashed" /\ collector = "abortClose" => exitCode = ExitAbortedWithErrors
    /\ process # "crashed" /\ collector = "returned" =>
          \/ AbortReached /\ exitCode = ExitAbortedWithErrors
          \/ /\ ~AbortReached /\ closer # "wait"
             /\ results = <<>> /\ exitCode = BatchExitCode

\* Where the items are, what is told of them, and what the process ends with.
RInv ==
    /\ ReadInOrder /\ QueueInOrder /\ OneWorkerEach
    /\ ResultsTellStatus /\ ErrorCodes /\ Ending

\* The user has agreed to the request for item j.
Agreed(j) ==
    opts.confirm =>
        answers[j] = "yes" \/ \E i \in 1..j : answers[i] = "yesToAll"

\* Strengthens NoUnconfirmedRequest: what is under way was agreed to, and after
\* "no to all" the producer reads no more.
UnderWayAgreed ==
    /\ producer \in {"wait", "prompt"} => answers[jobID] = "none"
    /\ producer \in {"promptAdd", "promptCount", "sendJob"} => Agreed(jobID)
    /\ \A j \in Jobs : status[j] \in {"queued", "started", "ok", "failed"} => Agreed(j)
    /\ skipConfirm => \E i \in Jobs : i <= jobID /\ answers[i] = "yesToAll"
    /\ producer = "sendDeclined" => reply = answers[jobID]
    /\ \A i \in Jobs : answers[i] = "noToAll" =>
          i = jobID /\ producer \in {"sendDeclined", "close", "done"}

\* Strengthens AbortBoundsFailures: the collected failures are in the list of
\* errors, the list ends at the threshold, and the channel holds few results.
FailuresCounted ==
    /\ Cardinality({j \in collected : status[j] = "failed"}) <= Len(totalErrors)
    /\ opts.abortOnErrors # 0 => Len(totalErrors) <= opts.abortOnErrors
    /\ Len(results) <= Capacity + (IF collector = "receive" THEN 1 ELSE 0)

\* The result of an item is in one place only.
ReportedOnce ==
    /\ \A k, l \in 1..Len(results) : results[k].job = results[l].job => k = l
    /\ \A k \in 1..Len(results) : results[k].job \notin collected
    /\ \A w \in Workers : worker[w].pc = "send" =>
          /\ worker[w].job \notin collected
          /\ \A k \in 1..Len(results) : results[k].job # worker[w].job
          /\ \A v \in Workers :
                worker[v].pc = "send" /\ worker[v].job = worker[w].job => v = w
    /\ producer \in {"sendInputError", "sendDeclined"} =>
          /\ jobID \notin collected
          /\ \A k \in 1..Len(results) : results[k].job # jobID
          /\ \A w \in Workers : worker[w].pc = "send" => worker[w].job # jobID

\* The confirmed items whose result has not been collected and whose Add was made.
AwaitedPrompts ==
    {j \in Jobs : /\ answers[j] = "yes" /\ j \notin collected
                  /\ ~(producer = "promptAdd" /\ j = jobID)}

\* Strengthens PromptsDoNotOverlap: as long as every result belongs to a prompt,
\* the wait group covers the awaited prompts and the result in hand.
PromptsAwaited ==
    /\ producer \in {"wait", "prompt"} => opts.confirm /\ ~skipConfirm
    /\ (\E i \in Jobs : answers[i] = "yesToAll") => skipConfirm
    /\ opts.confirm /\ ~skipConfirm /\ ~PromptDrift =>
          promptWG >= Cardinality(AwaitedPrompts)
                         + (IF collector \in {"handle", "promptDone"} THEN 1 ELSE 0)
    /\ producer = "prompt" /\ ~PromptDrift => AwaitedPrompts = {}

\* Behind NoDeadlock: the counters of prompts are exact as long as every result
\* belongs to a prompt and the batch is not aborted.
PromptsCounted ==
    opts.confirm /\ ~skipConfirm /\ ~PromptDrift
        /\ collector \in {"receive", "handle", "promptDone"} =>
        /\ promptWG = Cardinality(AwaitedPrompts)
                        + (IF collector \in {"handle", "promptDone"} THEN 1 ELSE 0)
        /\ promptCount = Cardinality(AwaitedPrompts) + (IF collector = "handle" THEN 1 ELSE 0)
                           - (IF producer = "promptCount" THEN 1 ELSE 0)

\* Behind NoDeadlock: what a goroutine that has ended has closed, or left to another.
ClosedInTheEnd ==
    /\ producer = "done" => jobsClosed
    /\ closer = "done" => resultsClosed \/ collector \in {"abortClose", "returned"}
    /\ wasCancelled > 0 => closer # "wait" \/ collector \in {"abortClose", "returned"}

\* Behind EveryStepIsForward.
ActionsInRange ==
    \A w \in Workers : worker[w].pc = "action" => worker[w].action < NumPostActions

-----------------------------------------------------------------------------

\* The command ends, unless a declined or failed input of a confirmed batch
\* has upset the prompt counter.
Termination == <>(process # "running" \/ PromptDrift)
=============================================================================
