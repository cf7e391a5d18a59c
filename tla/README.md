# go-c8y-cli: a TLA+ verification project

`c8y` is a command line tool for the Cumulocity IoT platform. Most of its source
is some two hundred generated commands that bind flags and describe one REST
request. The logic that all of them share is small and concurrent: a pipeline of
goroutines that turns piped input into requests, a loop that collects pages of a
collection while it changes, responses that are written by several workers with
shared filters, a login state machine, pollers and subscriptions.
This directory holds models of that logic and of what the generated commands give
to it, the instances that TLC checks and theorems that TLAPS proves. Line numbers
refer to the files under `src/`.

## 1. Inventory

### 1.1 Components, their state and operations

| Component | State | Operations | What is hard | What makes it correct | Modules |
|---|---|---|---|---|---|
| Batch worker `pkg/worker/worker.go`, `pkg/prompt/confirm.go` | channels `jobs`, `results`; wait groups `workers`, `promptWG`; counters `promptCount`, `wasCancelled`, `jobID`, `jobInputErrors`; `skipConfirm`, `totalErrors` | producer loop, worker loop, closing goroutine, collector, prompt | interleaving of five kinds of goroutines; closing of channels with several senders; two counters that are updated apart; abort while others run | nothing is sent unconfirmed, nothing is lost, no panic, the command ends, the exit code is honest | `BatchWorker`, `Batch` |
| Error mapping `pkg/cmderrors`, `pkg/cmdutil/factory.go`, `pkg/cmd/cmd.go` | none | `NewServerError`, `CheckPostCommandError`, `MainRun` | silencing removes errors from counts and exit codes | a failure is visible in the exit code | `ErrorMapping`, `Conditions` |
| Command input `pkg/iterator`, `pkg/requestiterator`, `pkg/flags`, `pkg/c8yfetcher`, `pkg/mapbuilder`, `pkg/mode`, `pkg/cmd/*/*.auto.go` | a pipe, flag values, bound iterators, path and body templates | the mode gate, the choice of the source, `GetNext` of five iterators, name lookup, building of the request | end of input and errors of several iterators combined; errors that are dropped and caught by a later check; an empty pipe | no request without its item, none about another item, none that the session's modes forbid; every line is accounted for | `CommandInput`, `CommandRow`, `DeviceCatalog`, `TenantCatalog`, `Catalog` |
| Request paging `pkg/request/request.go` | `totalItems`, `currentPage`, `nextURI` or `lastID`, `resp`, `err` | first request, next page, process response | the collection changes between two requests; some requests fail; two notions of "last page" | complete, no duplicates, bounded, failures reported, ends | `Pagination`, `Listing` |
| Output `pkg/request/request.go`, `pkg/dataview`, `pkg/jsonfilter`, `pkg/console`, `pkg/tableviewer` | the filters' columns, the active view, samples, header, table columns | `ProcessResponse`, `GetView`, `filterJSON`, `SetHeaderFromInput`, `Write` | a slice shared by all workers without a lock; a check and a use under two locks | one header, rows that fit it | `Output` |
| Login `pkg/c8ylogin/c8ylogin.go` | a channel of capacity 1 with the next state; `Err`, `Attempts`, `Authorized`, TFA fields | `Run`, `init`, `promptForPassword`, `login`, `verify`, `setupTFA` | the only reader of the channel is also its writer; the error is stored in two ways | it ends, within its attempts, and success means that the server accepted | `Login` |
| Waiting `pkg/desiredstate`, `pkg/c8ywaiter`, the wait and assert commands | a predicate shared by poller goroutines and the waiter; attempts, last value, error counts | `wait`, `Get`, `Check`, `SetValue`, the loops of `assert` | timeout against late answer; the poller outlives the wait | no success before the state is reached, all retries made, ends by the timeout | `Wait`, `Conditions` |
| Subscriptions `pkg/c8ysubscribe`, the subscribe commands | message, timer and signal channels, a counter | `Subscribe`, `SubscribeMultiple` | limits race with messages that come without a pause | wanted messages are handed over, the limit is exact, ends | `Subscribe` |
| Progress bar, activity log, sessions, encryption, completion, aliases, body templates, JSON filters | own files or none | — | sequential, or display and I/O only | unit tests | none (section 7) |

### 1.2 How they interact

    command -> mode gate -> Factory.RunWithWorkers -> Worker.runBatched
       producer --reads--> RequestIterator (-> name lookup: one request per name)
       producer --asks---> prompt.Confirm
       producer --jobs---> batchWorker x n --calls--> RequestHandler (paging, output)
                                           --calls--> post actions (e.g. waiting for a state)
       producer, batchWorker --results--> collector --calls--> CheckPostCommandError
       collector --error--> MainRun --exit code--> shell
    wait and assert commands -> RequestIterator -> desiredstate.WaitFor -> poller goroutine
    subscribe commands -> c8ysubscribe -> realtime client

The boundaries between the models:

- `CommandInput` ends where `BatchWorker` begins: its `requests` and `failures` are
  the items and input errors that the producer of `BatchWorker` gets, and its bound
  `AbortOnErrors` is the producer's own break.
- A page loop runs inside one worker's request; the batch sees of it only the error
  it returns. `RequestErrors` of `BatchWorker` is what `err` of `Pagination` may be at
  its end.
- `Output` takes the responses as they come to the workers; their number and order
  are those of the batch.
- `Wait` and `Pagination` take their errors and exit codes from `ErrorMapping`.

## 2. Plan

Done, in this order: `ErrorMapping`, `Batch`, `BatchWorker`; `Pagination`; `Login`;
`Conditions` and `Wait`; the catalogue and `CommandInput`; `Output`; `Subscribe`; each
with its instances, and all but the abstract ones with proofs.

Every safety property of a passing run, every action property and the refinements of
`Batch` and `Listing` have a proof; liveness stays with TLC, but for the batch, the
login and the input the part of it that needs no fairness is proved: they make a
bounded number of steps, and the batch and the input are never stuck on the way. The
same for the wait loops and for the end of a subscription is what could be proved
next, and an abstract specification of `Wait` as seen by the user. What could be
added to the model are the parts listed in section 7, first of all the argument
fetchers (several ids in one value, positional arguments), whose iterators are the
input of `CommandInput`.

## 3. Modules

| Module | Models |
|---|---|
| `ErrorMapping` | errors as records, their exit codes, `CheckPostCommandError` with silenced status codes |
| `Batch` | abstract: items read in order, processed at most once, at most `MaxParallel` at a time, an honest verdict |
| `BatchWorker` | `Worker.runBatched` and `batchWorker`, goroutine by goroutine; refines `Batch` |
| `CommandRow` | the shape of a command: method, gate, needed flags, the piped flag, required properties |
| `DeviceCatalog`, `TenantCatalog`, `Catalog` | one row for each generated REST command, and all 205 of them |
| `CommandInput` | how one command turns its input into requests |
| `Listing` | abstract: a collection that other clients change is read in the order of the ids, each read behind what was written, and complete only if nothing is owed |
| `Pagination` | `fetchAllResults`, `fetchAllInventoryQueryResults` and the first request, against a server that other clients change; refines `Listing` |
| `Output` | how the workers of a batch choose columns and write their responses |
| `Login` | `LoginHandler.Run`: the driver, its channel and all handlers |
| `Conditions` | objects, predicates, their `Check`, and the exit codes of assertions |
| `Wait` | `desiredstate.wait`, its pollers, and the loops of the wait and assert commands |
| `Subscribe` | `Subscribe` and `SubscribeMultiple` |
| `MCBatchWorker`, `MCCommandInput`, `MCPagination`, `MCOutput`, `MCLogin`, `MCWait`, `MCSubscribe` | their instances; `MCPagination` also states a claim |
| `BatchWorkerClaims` | a statement of a comment that the code does not keep |
| `BatchWorkerProofs`, `BatchRefinementProofs`, `CommandInputProofs`, `PaginationProofs`, `OutputProofs`, `LoginProofs`, `WaitProofs`, `SubscribeProofs` | theorems |

### 3.1 BatchWorker and worker.go

One action is the code between two points where another goroutine can see a
difference: a channel operation, an operation on a wait group or an atomic
counter, a prompt, a request. Purely local code joins the operation before it.

| Goroutine | Action | Code |
|---|---|---|
| producer | `GetNext` | 219-267: next item, end of input, job limit, input error |
| | `SendInputError` | 251-262 |
| | `PromptWait`, `Prompt`, `SendDeclined` | 272, 274-288, 289-306 |
| | `PromptAdd`, `PromptCount` | 308, 309: two steps, since the collector may come between |
| | `SendJob`, `CloseJobs` | 316, 216 |
| worker | `TakeJob`, `SendRequest`, `RunAction`, `ReportJob` | 404, 425, 429-439, 447 |
| closer | `WaitWorkers`, `CloseResults` | 333-337, 338 |
| collector | `Receive`, `Abort`, `AbortClose` | 342-356, 358-359, 360-362 |
| | `ReleasePrompt`, `PromptDone` | 366, 368 |
| | `Return`, `Exit` | 376-392, and `MainRun` in `pkg/cmd/cmd.go` |

A Go channel of capacity c is a sequence that takes a value while it holds fewer
than c plus the number of receivers parked on it, which for c = 0 is the
rendezvous. A send on a closed channel, a second close and a negative wait group
end the process with the runtime's exit code (`Panic`). After the collector has
returned, the other goroutines go on until `Exit`.

`status`, `answers` and `collected` are history variables: no guard reads them.
Left out: delays, the progress bar, logging, and dry run, which affect neither
control nor results. The iterator is abstract: it gives an item, one of the errors
`InputErrors`, or the end. Whether a request needs a prompt is the same for all
items of a command, as they have the same method.

### 3.2 CommandInput, the catalogue, and the iterators

A row of the catalogue is what a generated command's source says of its input: the
HTTP method, the mode that `PreRunE` asks for, the flags it needs, the flag that
takes piped input (its place in path, query or body, the option that reads it,
whether it is a list, whether it is required), and the required properties of the
body. `needs` and `requires` leave out what a default or a template supplies. The
row stands for the whole `*.auto.go` file; its wording, completion, the other flags
and the headers are left out.

| Definition | Code |
|---|---|
| `Refuse` | `PreRunE`: `Factory.CreateModeEnabled` and its siblings, `mode.Validate…Mode` |
| `SkipEmptyPipe`, `Reject`, `Start` | `NewFlagWithPipeIterator` and `NewJSONPipeIterator`: which of pipe and flag drives the iteration, and the errors before the first request |
| `PipeNext`, `SliceNext`, `OverrideNext`, `Incoming` | `PipeIterator`, `SliceIterator`, `OverrideIterator` and `RepeatIterator`, `GetNext` |
| `ItemNext`, `NoMatch`, `LooksUp` | `EntityIterator.GetNext` and the readers of `c8yfetcher` |
| `Target`, `OnceTarget`, `BodyTarget` | where the item ends up: `RequestIterator.GetNext`, `StringTemplate`, `MapBuilder.MarshalJSON` |
| `Send`, `Skip`, `End` | one round of the producer's loop in `runBatched`: a request, an input error, the end of the input or of the producer's patience (`AbortOnErrors`) |

A line of the pipe is one of seven kinds (an id or name that exists, one that does
not, an object with or without the wanted property, other JSON, a line of spaces, an
empty one), and the last may lack its newline. An empty first line counts as no pipe,
one of spaces as piped input (pipe.go:215). A piped flag that has a default value (`preset`) is
never without one. A value keeps where it came from and at which
position, so that requests can be compared with items. The other flags of a command
are one setting: all given or none.

### 3.3 Pagination and request.go

| Definition | Code |
|---|---|
| `FirstPage` | `ProcessRequestAndResponse` 64-128 with the entry of the fetch functions 356-400, 467-515 |
| `HasMore`, `NoMorePages` | 404-411 (next link), 519-531 (last id) |
| `NextPage`, `LastPage`, `LaterError` | 413-462, 533-584 |
| `ItemsBehind` | `optimizeManagedObjectsURL` 589-630: `_id gt '<last id>'`, ordered by id |
| `ItemCount` | `ProcessResponse` 632-835: the unfiltered size, 0 for raw output |
| `Create`, `Delete`, `Page`, `Answers` | the server and other clients (external) |

An item is its id. The server gives greater ids to newer items, a page of a
`byId` request is the beginning of the matching items, a page of a `next` request
is by position; the server may give a next link although the next page is empty.
Each request may also be answered by an HTTP error or not at all (timeout).

`Listing` knows none of pages, links, ids to restart from, limits and errors.
`FirstPage` and `NextPage` map to its `Read`, `Create` and `Delete` to theirs, and
`NoMorePages` to a stutter; `Complete` is the state in which `--includeAll` has met no
error and will ask for no further page. What it owes depends on how the collection is
read: by ids every item behind those written; by links, which count items, those that
were there at the start, and only until one of them is deleted; nothing if the query is
not rewritten.

### 3.4 Output, ProcessResponse and the console

| Definition | Code |
|---|---|
| `Take` | a response reaches `ProcessResponse` (request.go 710-742); text is not filtered |
| `Check` | `len(commonOptions.Filters.Pluck) == 0` (743) |
| `Choose`, `Match` | the view option (753-783), and `GetView` in its two halves, each under its own lock (dataview.go 189-204, 205-258) |
| `Store` | the assignment to `Filters.Pluck`: a slice's fields are stored one after the other |
| `Filter` | `JSONFilters.Apply`, which copies the filters and reads the slice (jsonfilter.go 289-379) |
| `Sample` | `Console.SetHeaderFromInput`, of whose samples the first is used |
| `Write` | `jsonformatter.WithJSONStreamOutput` and `Console.Write`: CSV in one write, JSON and tables row by row, the header with the first of them |

The race on `Filters.Pluck` is a data race. Its outcomes are modelled as those of the
build: the slice's array and length are stored in any order, and a reader may find
the new length with the old array (`crashed`: it reads memory that is not there) or
the old length with the new one (it takes a part of the columns for all). `raced` is
history: a worker looked at the filters while another was choosing.

### 3.5 Login and c8ylogin.go

| Definition | Code |
|---|---|
| `Start`, `Receive`, `End`, `Fail` | `Run` 116-163: init and first state; `<-lh.state`; the states that end it; the errors it returns |
| `Verify` (`AfterVerify`, `VerifyError`) | `verify` 396-446 |
| `Clear` (`CodeSpent`) | `Clear` 99-112, called for `LoginStateUnknown` and `LoginStateNoAuth` |
| `Login` | `login` 290-390: `LoginAtOnce` (no options, authorized, only BASIC), `EnterCode` (prompt for a code), `RequestToken` (`LoginUsingOAuth2` and its refusal) |
| `AskPassword`, `SetupTFA` | `promptForPassword` 246-289, `setupTFA` and `verifyTFASetupCode` 460-555 |

The channel is the sequence `state`. A send appends to it, and `NeverBlocks`, with the
types, says that its capacity of one is enough. The handlers of a state are one
action each, but `Clear` is followed by another handler and is a step of its own.
The server may answer each request in any way at any time, and each prompt be
answered or cancelled. `AwaitsServer` are the handlers whose requests have no deadline
(200, 398, 465, 517, 541: `context.Background()`, and the HTTP client has no timeout):
they may also never be answered. A tenant lists `OAUTH2_INTERNAL` once; a second option of
that type would send a second state. `accepted`, `rejections`, `outcome`, and the
bounded counters `prompts` and `changes` are history.

### 3.6 Wait, desiredstate and the wait and assert commands

| Definition | Code |
|---|---|
| `NextItem` (`EndOfInput`, `AbortOnErrors`, `SkipItem`, `StartWait`) | the loops of the wait commands and of the two assert factories: the next item, its lookup, the limit of errors, `SetValue`, the start of the poller |
| `TimedOut`, `Cancelled`, `TakeAnswer` | the three cases of the `select` in `desiredstate.wait`; the third reads `valueCh` and counts the attempt |
| `CheckAnswer` | the rest of the third case: `Check` of the answer, retry or end |
| `Poll`, `Wake` | the poller goroutine (40-58): request, send on the unbuffered `valueCh`, sleep |
| `Check` in `Conditions` | `Check` of the waiters in `pkg/c8ywaiter`, also with a fragment pattern that is no regular expression (inventory.go:111) |
| `AwaitsServer` | the requests of the main goroutine itself, which have no deadline: the name lookup in `path.Execute` (before anything else of `NextItem`) and the count in `Check` (alarms.go:65, events.go:44, operations.go:89) |
| `Reported`, `Counts`, `Writes` | which errors a command reports, counts and forgives, and when the object is written |
| `Change` | the server and other clients (external) |

While the main goroutine awaits such an answer it is outside the `select`: it sees
neither the timer nor Ctrl-C. The poller is never stopped: after a timeout it may send
one more request, for the ID that the shared predicate has by then, and blocks for good. `printed`, `outcome`,
`checked`, `strays` and `interrupts` are history. Objects are reduced to what their
predicate looks at.

### 3.7 Subscribe and c8ysubscribe.go

`Connect`, `Notify`, `SubscribeNext` and `StartTimer` are the steps before the loop,
`DurationOver`, `Stopped` and `Receive` the cases of its `select`, and `Handle` is
`OnMessage` with the count and the limit. `Offer`, `TimerFires` and `Interrupt` are
the realtime client, the timer and Ctrl-C. The error that `OnMessage` returns is
dropped by the code; what it writes is not modelled. `Connect` may fail or panic, and
the panic is recovered. The realtime client is not part of the repository: that
`Subscribe` and `Disconnect` return while it is sending is assumed.

`taken`, `current` and `written` record the first `MaxRecorded` messages; after them
messages go on without being recorded, so that a stream without an end is explored.
Action types are compared as members of a set, where the code looks for one string in
another: a type that contains the name of another would match both.

## 4. What TLC checks

| Run | Instance | Properties |
|---|---|---|
| `batch` | 2 workers, 3 items, 1 post action; 14 option sets: with and without prompts, job limit 0 and 2, error threshold 0, 1, 2, silenced 404; all replies; with fairness | type invariant; `NoUnconfirmedRequest`, `PanicOnlyAfterAbort`, `NothingLost`, `SuccessIsEarned`, `PromptsDoNotOverlap`, `NoDeadlock`; `EveryStepIsForward` (action property); `ImplementsBatch` (refinement); `Termination` |
| `batch_abort` | 2 workers, 5 items that may all fail, threshold 0 and 1 | `AbortBoundsFailures` |
| `input` | 205 commands, up to 3 lines of seven kinds, flag not given or with one or two values, three settings | `NoUnscopedRequest`, `EmptyPipeSendsNothing`, `RequestsMatchItems`, `ItemsAccountedFor`, `ModesRespected`, `InputBounded`; `Termination` |
| `paging` | 5 items, pages of 2, one more may be created, any deleted; 19 option sets | `NoDuplicates`, `NothingSkipped`, `PagesBounded`, `LaterFailureReported`; `ImplementsListing` (refinement); `Termination` |
| `output` | 3 responses of 5 kinds, 2 workers, 4 view options, 4 formats | `RowsFitHeader`, `EveryRowOnce` |
| `login` | every kind of login options, with and without a code and credentials; 4 prompts, 2 changes of strategy | `NeverBlocks`, `SuccessMeansAccepted`, `RefusalsAreHeeded`; `NoFreeCircle` (action property); `Termination` |
| `wait` | 2 items, 8 commands, 2 answers per wait, 1 interrupt, counts up to 1 | `StraysAreHarmless`, `HonestSuccess`, `AllRetriesMade`, `NoSilentFailure`, `FailuresBounded`, `WaitsEnd` |
| `subscribe` | both functions, limits -1, 0, 1 and 2, no, one and two types of three, 3 recorded messages | `WantedAreHandedOver`, `CountIsKept`, `SubscriptionEnds` |
| `prompt_wait`, `first_page_error`, `count_limits`, `count_request` | small instances | one claim each, which the code breaks (section 6) |

What the less obvious ones say: `NothingLost` relates items, results and what the
collector saw; `SuccessIsEarned` the exit code to every item's fate;
`ImplementsBatch` all of it to the abstract `Batch`. `NoDeadlock` says that the
goroutines are never all blocked on full, empty or unclosed channels and wait groups;
its one exception is the wait before a prompt that `prompt_wait` shows.
`EveryStepIsForward` gives the batch six measures (how far the producer, the items in
the workers' hands, the ended workers, the closer, the collector and the process have
come) of which every step raises one and lowers none, and `NoFreeCircle` the login
one, so that each time round the states costs an attempt or a prompt.
`ImplementsListing` relates each page to the whole collection at the moment it is
served. `NoUnscopedRequest` says that the checks for path variables, names and required
properties together leave no line that sends a request without its item, and
`InputBounded` that iterators which repeat a value for ever, side by side with one that
ends, do not drive the loop. `ItemsAccountedFor` excepts what readers of plain text lose
beside `io.EOF` (section 6). `RowsFitHeader` has the conditions under which the code
guarantees it: always in a table, in CSV only without a race and with a fixed choice of
columns. `EveryRowOnce` is about the lines of all workers: of every response
that was taken and is finished each row is there once and in its order, and in CSV
without a line of another response in between. `StraysAreHarmless` says that the
pollers of ended waits answer for no other item, `HonestSuccess` that a wait without an
error has seen its object as wanted. `CountIsKept` says that a subscription which nothing
else stopped has handed over exactly `--count` messages.

Bounds. Two workers are the least with which jobs overlap, the channels have a
buffer (capacity 1) and one worker can end while another sends. A single worker, whose
channels have no buffer, is covered by the theorem `BatchNeverDeadlocks` only. Three items are
enough for a prompt whose predecessor is declined and whose successor waits, for
the threshold 2 to be passed and for the limit 2 to be exceeded; five for the
threshold to be overrun by as much as the channel and the workers allow. Five
items on pages of two make two full pages and a short one; the sixth, created
meanwhile, makes the last page full, so that the loop asks for an empty page.
`MaxPages` (8) bounds `NextPage`; `Termination` shows that it is never what ends
the loop. Three refusals end a login, so four prompts and two changes (`MaxPrompts`,
`MaxChanges`) let each kind of prompt and of change come before, between and
after them; at the bound the user cancels, and no change is announced.

Three lines (`MaxLines`) let every kind of line be first, in the middle and last, and
two flag values be fewer, as many and more than the lines, so that their cycle
wraps around; the threshold of two errors is reached with an item left. The
settings are: all modes; all modes, with empty pipes allowed and the other flags
missing; and no mode, with which every command that writes must be refused.
Three responses let two workers race for the columns and a third come after them; the
five kinds are two with a view, one without, an empty array and text. Two items let a
poller outlive its wait and meet the next one; two answers (`MaxAttempts`) are one
more than the retries of the commands; `MaxInterrupts` is 1 and `MaxCount` 1, the
least with which a count can be below, at and above a limit of 0 and of 1.
`MaxRecorded` is one more than the largest limit of a subscription.
The workers are symmetric in `batch_abort` and `output`, which have no liveness property.

Deadlock. `CommandInput`, `Output` and `Subscribe` have a step `Done`, so TLC reports
every other state without a successor. The other configurations say `CHECK_DEADLOCK
FALSE` because a command ends; that it does not end by blocking is what their
liveness property says, and for `batch_abort` and the claims it is not asked.

Fairness. Not every request of the code ends by itself. Those of the batch's workers and
of the pages carry the command's timeout (`GetTimeoutContext`, request.go:84), and so does
`LoginUsingOAuth2` (c8ylogin.go:320, 347). The others have none,
neither in their context nor in the HTTP client (c8yclient.go:62): the lookups of names,
the counts of `Check`, and what else the login asks for.

- `FairSpec` of the batch has weak fairness of each goroutine: the Go scheduler is
  preemptive and the workers' requests end. That the user answers prompts, and the server
  the name lookups of the producer, is an assumption. `CommandInput`, whose one goroutine
  is that producer, assumes the same of the lookups, and that its input comes to an end.
- Paging has weak fairness of the client only; other clients need not act.
- The login is one goroutine. Weak fairness is assumed of its steps outside `AwaitsServer`,
  and prompts are taken to be answered or cancelled. `Termination` has the premise that
  the login is again and again not awaiting such an answer; without it the login may
  hang, which the comment in c8ylogin.go:53 denies (section 6).
- The main goroutine of `Wait` has weak fairness outside `AwaitsServer`, and so has the
  timer. The end of the duration and Ctrl-C have strong fairness, since an answer may be
  ready each time, and Go chooses among the ready cases of a `select` at random. Nothing
  is assumed of the server or of the pollers. `WaitsEnd` has the premise that the main
  goroutine's own requests do not stay unanswered; that the duration does not hold
  without it is the run `count_request`.

- `Subscribe` has strong fairness of the end of the duration for the same reason: a client
  that always has a message to send keeps another case of the `select` ready. With weak
  fairness alone the property does not hold. Nothing is assumed of messages and
  Ctrl-C.

`Termination` of the batch excludes executions in which a result that belongs to
no prompt has upset the prompt counter (`PromptDrift`): there the command does
hang, which is the run `prompt_wait`. That of the login excludes a tenant with
only BASIC: for it `login` sends no state, and the next receive blocks. `WaitsEnd`
is about commands whose `--duration` is positive, and about Ctrl-C during a wait.

Every property is accompanied in `PROJECT.json` by a mutation of the code's model
that it detects; the mutated operators stand before the ones they replace, marked
`Mutation` or `Mutant`. `RefusalsAreHeeded`, `StraysAreHarmless` and `WaitsEnd`, which
join two parts of the code, have a mutation for each.

## 5. What is proved

TLAPS checks the theorems for every value of the constants that satisfies the
named assumptions.

`BatchWorkerProofs`, from `WorkersAssumption` (finite, not empty),
`SizeAssumption` and `DataAssumption`:

- `TypeCorrect`: `Spec => []TypeOK`;
- `PromptReleaseSafe`: `Spec => []PromptReleaseIsOwed` (the wait group never becomes
  negative, which would be a panic);
- `NoPanicBeforeAbort`: `Spec => []PanicOnlyAfterAbort`.

They follow from the inductive invariant `IInv`. `PromptReleaseIsOwed` alone is not
inductive: `promptCount` falls below zero whenever a declined item or an input
error is collected, so no equation between the two counters holds. What holds is
`PromptBalance`: the wait group, without an `Add` whose count is to follow and a
`Done` that is owed, is not negative and at least `promptCount`; so when
`promptCount` was positive the `Done` is covered. For the panics the argument is
the order of closing (`CloseOrder`): the workers end only after `jobs` is closed,
which is the producer's last act; the closer goes on after the workers; and
`wasCancelled` admits one of closer and collector. `HeldJobs` says that a job in
somebody's hands is an item, without which the types of results are not kept.

`BatchRefinementProofs`, from the same assumptions and `ExitCodeAssumption` (no command
error has the exit code of "ok" or "job limit exceeded"):

- `BatchKeepsItsPromise`: `Spec => ImplementsBatch`;
- `NothingIsLost` (`NothingLost`), `SuccessIsAlwaysEarned` (`SuccessIsEarned`),
  `NoRequestUnconfirmed` (`NoUnconfirmedRequest`), `FailuresAreBounded`
  (`AbortBoundsFailures`), `PromptsComeOneByOne` (`PromptsDoNotOverlap`).

They rest on `RInv`, by which the status of an item tells where it is: before or at the
producer (`ReadInOrder`), in `jobs` in the order of reading (`QueueInOrder`), with one
worker (`OneWorkerEach`), or with a result that agrees with the status
(`ResultsTellStatus`). `ErrorCodes` says that what counts as an error has a code other
than 0, and `Ending` how the collector's end and the exit code belong together. In the
refinement `GetNext` maps to reading an item, `Prompt` to declining, `TakeJob` to
starting, the last step of a request or of its actions to finishing, `Exit` and a panic
to the verdict, and every other step to a stutter. At most `MaxParallel` requests run
since each has a worker of its own (an injection). `UnderWayAgreed` adds the replies to the
items under way; `FailuresCounted` that the failures are in the list of errors, in the
channel or with a worker. For the prompts, `ReportedOnce` says that an item has at most one
result, and `PromptsAwaited` that the wait group, with the result in the collector's
hands, counts at least the prompts whose results are still to come.

Three more theorems are about progress:

- `BatchNeverDeadlocks`: `Spec => []NoDeadlock`;
- `BatchMovesForward`: `Spec => EveryStepIsForward`;
- `BatchProgressIsBounded`: `Spec => []ProgressBounded`.

For the first it is not enough that the wait group is large enough: as long as every
result belongs to a prompt it is exactly the number of prompts under way
(`PromptsCounted`), so the producer cannot wait with nothing under way; and
`ClosedInTheEnd` says that once the workers and the closer have ended, the collector
finds its channel closed. The second has a lemma for each goroutine; it needs that a result is
collected once (`ReportedOnce`) and that a worker is within its post actions
(`ActionsInRange`), or an item's stage could be reached twice. Together they are
`Termination` without its fairness: a batch makes a bounded number of steps, and is
not blocked before its end.

`CommandInputProofs`, from `InputAssumption`, for any commands, lines, flag values
and settings:

- `TypeCorrect`, `NeverUnscoped` (`NoUnscopedRequest`), `ItemsMatch`
  (`RequestsMatchItems`), `EmptyPipeIsQuiet` (`EmptyPipeSendsNothing`),
  `ItemsAreAccountedFor` (`ItemsAccountedFor`);
- `ModesAreRespected` (`ModesRespected`), which also assumes `GatesFollowMethods`: each
  command asks for the mode of its method. That the catalogue is such is what the
  run `input` shows with the setting without modes;
- `InputMovesForward`: `Spec => InputForward`, and `InputIsBounded`: `Spec =>
  []InputBounded`. Every step draws an item, starts the iteration or ends the command,
  the items drawn are bounded by those of the source, and each of them can become a
  request, an error or the end.

The invariant `IInv` adds what the start of a command has checked (`Started`: the
mode, the empty pipe, the needed flags, the item), which the iteration relies on;
that the requests and failures make up the items drawn (`Counted`, `WithinInput`,
`Drawn`); and that a text flag has one value (`FlagFits`). `NeverUnscoped` then is a case
distinction over the places an item may have, in which the error of a lookup that
`MarshalJSON` drops is caught by the check of the required properties.

`PaginationProofs`, from `ItemsAssumption` and `PagingAssumption`:

- `InventoryWithoutDuplicates`: `Spec => []NoDuplicates`;
- `LimitOfPages`: `Spec => []PagesBounded`;
- `LaterFailures`: `Spec => []LaterFailureReported`;
- `PagingTypeCorrect`: `Spec => []TypeOK`;
- `CompleteListing`: `Spec => []NothingSkipped`;
- `ListingIsKept`: `Spec => ImplementsListing`.

The invariant is `PInv`. `NoDuplicates` needs `WrittenInOrder`: nothing that was
written lies behind the last item of the page from which the next request starts,
so a page of items behind it is new. That the last item exists (`GreatestId`) is
derived from the well-foundedness of `<` on the naturals. `LimitAhead` carries that
a further request is made only below the limit or from page one, and
`FailureEndsLoop` that a failed later page leaves the loop. Completeness rests on
`ListInv`: `ListedWithoutGap` says that between two pages everything up to the last item
of the page (by ids), or up to the end of the page (by next links), has been written,
and that the end of the list is seen only where nothing is left. For it a page with
fewer items than its size must be the last one, a fact about cardinalities.

The refinement needs one more invariant, `PlaceKept`: the last page was written, and by
links the ranks of all written items are within the pages asked for. Other
clients can only lower a rank by deleting (`RankGrows`), and new items come behind
all others, so the next page is behind everything written whatever happens
between two requests (`AnswerReads`); as long as no initial item is deleted its id is its
rank (`InitialRank`), and nothing owed is passed by. `LastAnswerIsLast` shows the step
that completes the listing.

`OutputProofs`, from `OutputAssumption`, for any number of workers and responses:

- `TypeCorrect`: `Spec => []TypeOK`;
- `NothingTorn`: `Spec => []TornOnlyInARace`, a conjunct of `RowsFitHeader`;
- `AllRowsFit`: `Spec => []RowsFitHeader`;
- `RowsAreWrittenOnce`: `Spec => []EveryRowOnce`.

The invariant `IInv` is `TypeOK`, `Work`, `Calm` and `Untorn`. `TornOnlyInARace` is not
inductive, as it says nothing of a slice that is half stored. `Calm` does: without a
race at most one worker is choosing, and unless one is, the stored length is that of the
stored array; `Work` ties the steps of a worker to its response, and `Untorn` its
columns to what it may have read. `Fits` adds to it for `RowsFitHeader`: in a table a row
has the columns of the header at which it was written (`TableFits`); in CSV, without a race
and unless all properties are shown, there is a header only after the choice, which is then
final (`HeaderFits`, `ChoiceFits`).

`EveryRowOnce` rests on `Turns`: the workers hold different responses, all of them
taken (`Held`), and nothing of a response is in the output before its worker writes, and
less than all of it while it does (`Lacking`). A line that is appended then continues its
response's rows and lengthens no other's; the lines of a response are counted by the
cardinality of their positions (`LinesTo`).

`LoginProofs`, from `LoginAssumption`:

- `LoginTypeCorrect`: `Spec => []TypeOK`;
- `LoginNeverBlocks`: `Spec => []NeverBlocks`;
- `SuccessWasAccepted`: `Spec => []SuccessMeansAccepted`;
- `ThreeRefusals`: `Spec => []RefusalsAreHeeded`;
- `NoCircleIsFree`: `Spec => NoFreeCircle`;
- `CirclesAreBounded`: `Spec => []CirclesBounded`.

The invariant is `LInv`. `ChannelEmpty` says that a handler finds the channel empty,
so what it sends is all that the channel holds. The bounds on refusals are not
inductive: `RefusalToSpare` adds that a login which is not about to end has had
at most two, and `SecondRefusal` that after a code's second refusal `Clear`
comes next. `AcceptedUntilRefused` ties the flag `Authorized` to the method and
to the server's last word. `NoCircleIsFree` has one gauge, twelve times the attempts
and prompts and the stage of the handler that runs or is announced in the channel: a
refusal that goes back to the first stage is counted, and so is a prompt. With the
bound on both, a login makes a bounded number of steps; the bound on prompts and changes
is that of the model.

`WaitProofs`, from `WaitAssumption`, for any number of items and any commands:

- `WaitTypeCorrect`, `StraysStayHarmless` (`StraysAreHarmless`), `RetriesAreMade`
  (`AllRetriesMade`), `FailuresStayBounded` (`FailuresBounded`), `FailuresAreReported`
  (`NoSilentFailure`);
- `SuccessIsHonest` (`HonestSuccess`), if no count has both limits (`OneLimit`): with
  both it does not hold, which is the run `count_limits`.

The invariant `WaitInv` adds to the types: `Shape` (what channels and pollers hold at each
point, in particular that an offer of poller i made during wait i is about item i, and
so is the answer in the hands of `CheckAnswer`),
`Stray` (a poller that has sent its request after the wait does not wake again),
`Tried` (attempts against retries), `Tallied` (the error counter is the number of
items that count as failed, so that the loop's test bounds them) and `Safe`.

`SubscribeProofs`, from `SubscribeAssumption`: `SubscribeTypeCorrect`,
`MessagesHandedOver` (`WantedAreHandedOver`) and `CountsAreKept` (`CountIsKept`). The
invariant `SubscribeInv` adds `InOrder` (the message in hand is the last one that was
recorded), `Counted` (the loop goes on only below the limit) and `Notified` (a message
is in hand only after `signal.Notify`, so Ctrl-C cannot lose it).

The strengthenings were checked by TLC before they were proved. Only model-checked are the
liveness properties (`Termination`, `WaitsEnd`, `SubscriptionEnds`), since fairness and
ENABLED are out of the prover's reach; of the `Termination` of the batch, the login and
the input, the theorems above prove what does not need fairness. Where a configuration
does not list the type invariant of its module, that invariant is a theorem. No module
declares a RECURSIVE operator.

## 6. Where the code and its documents disagree

Shown by a run:

- `prompt_wait`: after a declined item of a confirmed batch, the next confirmed item is
  not released and the following prompt waits for ever (worker.go:366 against the comment in
  line 271).
- `first_page_error`: with `--includeAll` or `--totalPages` an HTTP error of the first
  request gives exit code 0 (request.go:111-126).
- `count_limits`: an assertion of a count with a minimum and a maximum looks at the
  maximum only (alarms.go:90 and its siblings).
- `count_request`: while the server does not answer the request that `Check` of a count
  sends, neither `--duration` nor Ctrl-C ends the assertion (alarms.go:65 and its siblings).

Met while reading, without a run:

- batch: silenced lookup errors still end it at `--abortOnErrors` with exit code 0
  (worker.go:256); an aborted batch may panic and not exit with 103 (worker.go:360); a
  declined prompt exits with 101 and not 2; one failed item exits with its own code and
  not 104; `--silentStatusCodes` is a substring test;
- paging: an inventory query that does not begin with `$filter=` is fetched as its first
  page again and again (request.go:608-625); `--totalPages 1` requests two pages; raw
  output with `--includeAll` stops after one page;
- login: a cancelled login, or one whose attempts are used up, ends without an error, as
  `do` overwrites `lh.Err` (c8ylogin.go:95, 339, 367); the timeout "used for all Server
  requests" is used for one of them (c8ylogin.go:53);
- waiting: `--fragments` of a wait is an AND and not an OR; a failed assertion of
  `inventory assert` exits with 112 also without `--strict`;
- input: the commands whose item is in the body without being required there drop a
  missing or unknown one and send the request without it (`tenants enableApplication`,
  `microservices enable`, `devices assignChild`, `devicegroups assignDevice` and
  `assignGroup`, `userroles addRoleToGroup` and `addRoleToUser`); `tenants delete`, `get`,
  `update` and `listReferences` ignore the ids that are piped to them and use the session's
  own tenant (delete.auto.go:142); a last line of plain text without a newline is dropped by the
  readers that do not override `io.EOF`;
- output: if the first response of a batch is empty, no view is applied to any later one;
- subscriptions: `realtime subscribeAll` without a connection ends with exit code 0, and
  ignores `--actionTypes`.

They are quoted in `PROJECT.json` under `findings`.

## 7. Not modelled

- Of the input: files given to flags, positional arguments, several ids in one value,
  ranges of dates, `--data` that supplies the piped property, and the evaluation of
  jsonnet templates.
- Of the output: raw and server-response output, output to files, colours, the widths of
  table columns, wildcards and the text of filters; a dry run.
- The hand-written commands other than wait, assert and subscribe, and the command tree.
- Configuration is a parameter of the models; its reading from flags, environment and
  files by viper is not modelled.
- The progress bar and the activity log (nothing reads their state), sessions and
  encryption, completion and aliases (sequential transformations of text, or I/O).
- Hazards without a property, with their reasons in `PROJECT.json`: a page size above the
  server's limit, the error that a login loses (a finding), and a login in which `login`
  sends no state or two. Others have a property that excepts a part of them, which their
  notes say: queries that are not rewritten, collections that grow faster than they are
  read, responses that race in CSV, and last lines of plain text.
