-------------------------------- MODULE Wait --------------------------------
(***************************************************************************)
(* The wait and assert commands: for each item of the input                *)
(* pkg/desiredstate starts a goroutine that fetches the object again and   *)
(* again, and waits in a select for an answer, the timeout or Ctrl-C.  An  *)
(* answer is checked outside the select: while Check requests a count, the *)
(* wait sees neither.  The goroutine is never stopped: it outlives its     *)
(* wait and shares the predicate with the next one.                        *)
(*                                                                         *)
(* Item i of the input is the object with id i; wait i is the call of      *)
(* desiredstate.wait for it, with its own channels and its own poller i.   *)
(***************************************************************************)
EXTENDS Conditions, Sequences

CONSTANTS
    Items,         \* the number of items of the input
    Commands,      \* the commands explored
    MaxAttempts,   \* bound on the answers that one wait takes
    MaxInterrupts, \* bound on the times Ctrl-C is pressed
    MaxCount       \* bound on the number of alarms of an object

\* kind: "wait" is operations wait and inventory wait, "assert" and
\* "assertDevice" the two assert factories.  retries is -1 for WaitFor; timeout
\* says whether --duration is positive.
Command == [kind : {"wait", "assert", "assertDevice"}, predicate : Predicate,
            retries : Nat \cup {-1}, timeout : BOOLEAN, strict : BOOLEAN, abortOnErrors : Nat]

ASSUME WaitAssumption ==
    /\ {Items, MaxAttempts, MaxInterrupts, MaxCount} \subseteq Nat
    /\ Commands \subseteq Command
    /\ \A c \in Commands : c.kind = "wait" => c.retries = -1
    \* the assert commands do not look at the status of an operation
    /\ \A c \in Commands : c.predicate.kind = "status" => c.kind = "wait"

Item == 1..Items

NoObject == [status |-> "PENDING", exists |-> FALSE, fragments |-> {}, count |-> 0]

Value(i, o) == [kind |-> "value", id |-> i, object |-> o]
GetError == [kind |-> "error", id |-> 0, object |-> NoObject]
NoValue == [kind |-> "none", id |-> 0, object |-> NoObject]
Message == [kind : {"value", "error", "none"}, id : 0..Items, object : Object]

\* The outcome of an item whose wait has not ended.
Open == [kind |-> "open", status |-> 0, exit |-> 0]

VARIABLES
    command,     \* the command and its flags, never written
    object,      \* the objects on the server
    unmatched,   \* the items of the input whose name matches no device
    pc, item,    \* the main goroutine: "input", "select", "check" or "done", and its item
    predicateID, \* the ID in the predicate, which the pollers read
    poller,      \* the goroutine of each wait
    offer,       \* what the poller sends on its valueCh
    timer, interrupted,
    attempts,    \* attemptCounter of each wait
    lastValue, totalErrors, lastErr,
    \* history
    printed,     \* the values written, each with the item it was written for
    outcome,     \* the error of each wait that has ended
    checked,     \* the object that Check looked at last in each wait
    strays,      \* the requests a poller sent after its wait
    interrupts

mainVars == <<pc, item, predicateID, timer, attempts, lastValue, totalErrors, lastErr,
              printed, outcome, checked>>
waitVars == <<command, object, unmatched, mainVars, poller, offer, interrupted, strays,
              interrupts>>

-----------------------------------------------------------------------------
\* The server (external)

Evolved(o) ==
    CASE command.predicate.kind = "status" ->
           {[o EXCEPT !.status = s] :
               s \in CASE o.status = "PENDING" -> {"EXECUTING"}
                       [] o.status = "EXECUTING" -> FinalStatus
                       [] OTHER -> {}}
      [] command.predicate.kind = "fragments" ->
           {[o EXCEPT !.fragments = f] : f \in SUBSET {"f", "g"}}
      [] command.predicate.kind = "exists" -> {[o EXCEPT !.exists = ~@]}
      [] OTHER -> {[o EXCEPT !.count = n] : n \in {o.count - 1, o.count + 1} \cap 0..MaxCount}

\* Only what the predicate looks at matters; a missing object is an error of Get
\* like any other, unless the predicate is about it.
ObjectValues ==
    LET kind == command.predicate.kind
    IN  [status : IF kind = "status" THEN OperationStatus ELSE {"PENDING"},
         exists : IF kind = "exists" THEN BOOLEAN ELSE {TRUE},
         fragments : IF kind = "fragments" THEN SUBSET {"f", "g"} ELSE {{}},
         count : IF kind = "count" THEN 0..MaxCount ELSE {0}]

\* Only an object that is waited for is read: StartWait gives it any value, and
\* what happens to it after the wait is left out.
Change ==
    /\ pc \in {"select", "check"}
    /\ \E o \in Evolved(object[item]) : object' = [object EXCEPT ![item] = o]
    /\ UNCHANGED <<command, unmatched, mainVars, poller, offer, interrupted, strays, interrupts>>

\* Get: InventoryExistance.Get takes a 404 for an answer, the others return it
\* as an error, as they do with any failure.
Answers(i) ==
    {GetError} \cup
        (IF object[i].exists \/ command.predicate.kind = "exists"
         THEN {Value(i, object[i])} ELSE {})

-----------------------------------------------------------------------------
\* The goroutine of wait i.  valueCh is unbuffered: it holds its answer until
\* the select takes it.

Waiting(i) == pc \in {"select", "check"} /\ item = i

\* Mutation: valueCh has room for one answer.
HoldsUnlessOver(i) == IF Waiting(i) THEN "send" ELSE "sleep"

Holds(i) == "send"

Poll(i) ==
    /\ pc # "done"
    /\ poller[i] = "get" /\ attempts[i] < MaxAttempts
    /\ \E m \in Answers(predicateID) : offer' = [offer EXCEPT ![i] = m]
    /\ poller' = [poller EXCEPT ![i] = Holds(i)]
    /\ strays' = [strays EXCEPT ![i] = IF Waiting(i) THEN @ ELSE @ + 1]
    /\ UNCHANGED <<command, object, unmatched, mainVars, interrupted, interrupts>>

Wake(i) ==
    /\ pc # "done"
    /\ poller[i] = "sleep"
    /\ poller' = [poller EXCEPT ![i] = "get"]
    /\ UNCHANGED <<command, object, unmatched, mainVars, offer, interrupted, strays, interrupts>>

TimerFires ==
    /\ pc # "done"
    /\ timer = "running"
    /\ timer' = "expired"
    /\ UNCHANGED <<command, object, unmatched, pc, item, predicateID, attempts, lastValue,
                   totalErrors, lastErr, printed, outcome, checked, poller, offer, interrupted,
                   strays, interrupts>>

\* Ctrl-C.  The channel keeps the signal; a wait that has ended leaves its channel registered, so that a
\* signal between two waits is taken by a channel that nobody reads.
Interrupt ==
    /\ pc # "done" /\ item > 0
    /\ interrupts < MaxInterrupts
    /\ interrupts' = interrupts + 1
    /\ interrupted' = (interrupted \/ Waiting(item))
    /\ UNCHANGED <<command, object, unmatched, mainVars, poller, offer, strays>>

-----------------------------------------------------------------------------
\* The main goroutine

\* Mutation: every failed assertion is excused, also a strict one.
CountsLoosely(err) ==
    /\ err # NoError
    /\ command.kind = "assertDevice" => ~IsAssertion(err)

\* --strict is looked at by the assert factories.  In NewAssertCmdFactory it
\* makes no difference: no error has the text that it looks for.
Counts(err) ==
    /\ err # NoError
    /\ command.kind = "assertDevice" => ~IsAssertion(err) \/ command.strict

\* The error that is left for the end: NewAssertDeviceCmdFactory makes an
\* assertion error of each.
Reported(err) ==
    IF command.kind = "assertDevice" THEN NewUserErrorWithExitCode(ExitAssertionError) ELSE err

\* The wait commands write what wait returned, also when it failed; the assert
\* commands write the value of a wait that did not.
Writes(value, err) ==
    /\ value.kind = "value"
    /\ command.kind = "wait" \/ err = NoError

\* What RunE does with an item: the outcome of its wait or the input's error.
Record(i, value, err) ==
    /\ outcome' = [outcome EXCEPT ![i] = err]
    /\ printed' = IF Writes(value, err)
                  THEN Append(printed, [item |-> i, id |-> value.id]) ELSE printed
    /\ totalErrors' = totalErrors + (IF Counts(err) THEN 1 ELSE 0)
    /\ lastErr' = IF Counts(err) THEN Reported(err) ELSE lastErr

Exit(err) ==
    /\ pc' = "done"
    /\ lastErr' = err
    /\ UNCHANGED <<object, item, predicateID, timer, attempts, lastValue, totalErrors, printed,
                   outcome, checked, poller, interrupted>>

MoreItems == item < Items

\* Mutation: one failure more than allowed.
TooManyErrorsLate == totalErrors > command.abortOnErrors

TooManyErrors == totalErrors >= command.abortOnErrors

\* io.EOF of the input
EndOfInput ==
    /\ ~MoreItems
    /\ Exit(IF totalErrors > 0 THEN lastErr ELSE NoError)

AbortOnErrors ==
    /\ MoreItems /\ TooManyErrors
    /\ Exit(NewUserErrorWithExitCode(ExitAbortedWithErrors))

\* The name of the item matches no device: NewAssertDeviceCmdFactory goes on.
SkipItem ==
    /\ MoreItems /\ ~TooManyErrors
    /\ item + 1 \in unmatched
    /\ item' = item + 1
    /\ Record(item + 1, NoValue, NoMatches)
    /\ UNCHANGED <<object, pc, predicateID, timer, attempts, lastValue, checked, poller,
                   interrupted>>

\* Mutation: the test of the duration is the wrong way round.
TimerOfNegative == IF command.timeout THEN "stopped" ELSE "running"

Timer == IF command.timeout THEN "running" ELSE "stopped"

\* SetValue, and wait up to its loop.
StartWait ==
    /\ MoreItems /\ ~TooManyErrors
    /\ item + 1 \notin unmatched
    /\ item' = item + 1
    /\ predicateID' = item + 1
    /\ \E o \in ObjectValues : object' = [object EXCEPT ![item + 1] = o]
    /\ poller' = [poller EXCEPT ![item + 1] = "get"]
    /\ timer' = Timer
    /\ interrupted' = FALSE
    /\ lastValue' = NoValue
    /\ pc' = "select"
    /\ UNCHANGED <<attempts, totalErrors, lastErr, printed, outcome, checked>>

NextItem ==
    /\ pc = "input"
    /\ EndOfInput \/ AbortOnErrors \/ SkipItem \/ StartWait
    /\ UNCHANGED <<command, unmatched, offer, strays, interrupts>>

\* wait returns, and its timer, signal channel and last value are gone.
Return(value, err) ==
    /\ pc' = "input"
    /\ timer' = "stopped" /\ interrupted' = FALSE /\ lastValue' = NoValue
    /\ Record(item, value, err)

\* case <-timeoutCh
TimedOut ==
    /\ pc = "select" /\ timer = "expired"
    /\ Return(lastValue, NewUserErrorWithExitCode(ExitTimeout))
    /\ UNCHANGED <<command, object, unmatched, item, predicateID, attempts, checked, poller,
                   offer, strays, interrupts>>

\* Mutation: the signal is looked at only after an answer.
SignalledWithValue == interrupted /\ lastValue # NoValue

Signalled == interrupted

\* case <-signalCh
Cancelled ==
    /\ pc = "select" /\ Signalled
    /\ Return(lastValue, NewUserErrorWithExitCode(ExitCancel))
    /\ UNCHANGED <<command, object, unmatched, item, predicateID, attempts, checked, poller,
                   offer, strays, interrupts>>

\* Mutation: all waits share one channel.
AnySender(i) == TRUE

\* The poller whose answer the select can take: the one of this wait.
Sender(i) == i = item

\* case msg := <-valueCh
TakeAnswer(i) ==
    /\ pc = "select" /\ Sender(i) /\ poller[i] = "send"
    /\ poller' = [poller EXCEPT ![i] = "sleep"]
    /\ offer' = [offer EXCEPT ![i] = NoValue]
    /\ attempts' = [attempts EXCEPT ![item] = @ + 1]
    /\ IF offer[i] = GetError
       THEN Return(NoValue, OtherError)
       ELSE /\ pc' = "check" /\ lastValue' = offer[i]
            /\ UNCHANGED <<timer, interrupted, printed, outcome, totalErrors, lastErr>>
    /\ UNCHANGED <<command, object, unmatched, item, predicateID, checked, strays, interrupts>>

\* Mutation: one retry too many.
RetriesUsedLate == command.retries >= 0 /\ attempts[item] > command.retries + 1

RetriesUsed == command.retries >= 0 /\ attempts[item] > command.retries

\* predicate.Check(msg) has answered: the wait returns, or selects again.
CheckAnswer ==
    /\ pc = "check"
    /\ \E requestFails \in BOOLEAN :
          LET now == object[lastValue.id]
              result == Check(command.predicate, lastValue.object, now, requestFails)
          IN  /\ checked' = [checked EXCEPT ![item] =
                     IF command.predicate.kind = "count" THEN now ELSE lastValue.object]
              /\ IF result.done \/ RetriesUsed
                 THEN Return(lastValue, result.err)
                 ELSE /\ pc' = "select"
                      /\ UNCHANGED <<timer, interrupted, lastValue, printed, outcome,
                                     totalErrors, lastErr>>
    /\ UNCHANGED <<command, object, unmatched, item, predicateID, attempts, poller, offer,
                   strays, interrupts>>

-----------------------------------------------------------------------------
Init ==
    /\ command \in Commands
    /\ object = [i \in Item |-> NoObject]
    /\ unmatched \in IF command.kind = "assertDevice" THEN SUBSET Item ELSE {{}}
    /\ pc = "input" /\ item = 0 /\ predicateID = 0
    /\ poller = [i \in Item |-> "none"] /\ offer = [i \in Item |-> NoValue]
    /\ timer = "stopped" /\ interrupted = FALSE
    /\ attempts = [i \in Item |-> 0]
    /\ lastValue = NoValue /\ totalErrors = 0 /\ lastErr = NoError
    /\ printed = <<>> /\ outcome = [i \in Item |-> Open] /\ checked = object
    /\ strays = [i \in Item |-> 0] /\ interrupts = 0

Next ==
    \/ NextItem \/ TimedOut \/ Cancelled
    \/ \E i \in Item : TakeAnswer(i)
    \/ CheckAnswer
    \/ \E i \in Item : Poll(i) \/ Wake(i)
    \/ Change \/ TimerFires \/ Interrupt

\* The requests of the main goroutine have no deadline: the lookup of a device's
\* name, which path.Execute does before anything else, and the count in Check.
AwaitsServer ==
    \/ pc = "input" /\ MoreItems /\ command.kind = "assertDevice"
    \/ pc = "check" /\ command.predicate.kind = "count"

\* The main goroutine runs, unless it awaits the server, the timer of a wait
\* fires, and the input is read to its end.  select takes a case at random, so
\* that it takes one that is ready again and again.  Nothing is assumed of the
\* server or of the pollers.
Fairness ==
    /\ WF_waitVars(~AwaitsServer /\ NextItem)
    /\ WF_waitVars(~AwaitsServer /\ CheckAnswer)
    /\ SF_waitVars(TimedOut)
    /\ SF_waitVars(Cancelled)
    /\ WF_waitVars(TimerFires)

Spec == Init /\ [][Next]_waitVars /\ Fairness

-----------------------------------------------------------------------------
\* Properties

TypeOK ==
    /\ command \in Commands
    /\ object \in [Item -> Object] /\ checked \in [Item -> Object]
    /\ unmatched \subseteq Item
    /\ pc \in {"input", "select", "check", "done"}
    /\ item \in 0..Items /\ (pc \in {"select", "check"} => item > 0)
    /\ predicateID \in 0..Items
    /\ poller \in [Item -> {"none", "get", "send", "sleep"}]
    /\ offer \in [Item -> Message] /\ lastValue \in Message
    /\ timer \in {"stopped", "running", "expired"}
    /\ interrupted \in BOOLEAN
    /\ attempts \in [Item -> Nat] /\ strays \in [Item -> Nat]
    /\ totalErrors \in Nat /\ interrupts \in Nat
    /\ lastErr \in Error /\ outcome \in [Item -> Error \cup {Open}]
    /\ printed \in Seq([item : Item, id : Item])

\* What is written for an item was fetched for that item, although the pollers
\* of earlier waits still run and read the ID of the current one.
OwnValues == \A k \in DOMAIN printed : printed[k].id = printed[k].item

\* A poller that nobody stops sends at most one request after its wait: it then
\* blocks on valueCh for good.
OneStrayRequest == \A i \in Item : strays[i] <= 1

\* The pollers that no wait stops do no harm to later ones.
StraysAreHarmless == OwnValues /\ OneStrayRequest

\* A wait that ends without an error has seen its object as wanted, also when
\* the retries are used up and the result of Check is returned as it is.
HonestSuccess ==
    \A i \in Item : outcome[i] = NoError => Satisfies(command.predicate, checked[i])

\* An assertion fails only after the object has been looked at once and then
\* as often as --retries says.
AllRetriesMade ==
    \A i \in Item :
        /\ command.retries >= 0 => attempts[i] <= command.retries + 1
        /\ IsAssertion(outcome[i]) => attempts[i] = command.retries + 1

\* The exit code says whether every item of the input got what it waited for.
\* Only assertDevice without --strict forgives, and only a failed assertion.
NoSilentFailure ==
    pc = "done" =>
        (ProcessExitCode(lastErr) = ExitOK <=>
            /\ \A i \in Item :
                  \/ outcome[i] = NoError
                  \/ /\ command.kind = "assertDevice" /\ ~command.strict
                     /\ IsAssertion(outcome[i])
            /\ item = Items)

\* No wait is started once the failures have reached --abortOnErrors.
FailuresBounded ==
    Cardinality({i \in Item : outcome[i] # Open /\ Counts(outcome[i])}) <= command.abortOnErrors

\* With a positive --duration the command ends, whatever the server does.
CommandEnds == command.timeout => <>(pc = "done")

\* Ctrl-C during a wait ends that wait.
InterruptEndsWait ==
    \A i \in Item : Waiting(i) /\ interrupted ~> outcome[i] # Open

\* If the requests of the main goroutine are answered, then a wait ends by its
\* duration or by Ctrl-C, also if the server never answers a poller, and if the
\* object never is as wanted (desiredstate.go:56-95).
WaitsEnd == []<>~AwaitsServer => CommandEnds /\ InterruptEndsWait
=============================================================================
