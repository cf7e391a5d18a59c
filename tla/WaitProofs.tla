----------------------------- MODULE WaitProofs ------------------------------
(***************************************************************************)
(* Theorems about the wait and assert commands, for every number of items, *)
(* every set of commands and every bound.                                  *)
(***************************************************************************)
EXTENDS Wait, FiniteSetTheorems, TLAPS

\* The errors a wait ends with.
WaitTimeout == NewUserErrorWithExitCode(ExitTimeout)
WaitCancelled == NewUserErrorWithExitCode(ExitCancel)
Outcome == {Open, NoError, OtherError, AssertionError, NoMatches, WaitTimeout, WaitCancelled}

\* The pollers read the predicate only once it is set, and while a wait runs its
\* poller holds an answer about its own object.
Shape ==
    /\ \A i \in Item : poller[i] # "none" => predicateID > 0 /\ i <= item
    /\ pc \in {"select", "check"} => predicateID = item /\ poller[item] # "none"
    /\ \A i \in Item : Waiting(i) /\ poller[i] = "send" =>
           offer[i] = GetError \/ (offer[i].kind = "value" /\ offer[i].id = i)
    /\ pc = "select" => lastValue = NoValue \/ (lastValue.kind = "value" /\ lastValue.id = item)
    /\ pc = "check" => lastValue.kind = "value" /\ lastValue.id = item

\* A poller that has sent its stray request holds the answer for good.
Stray ==
    \A i \in Item :
        \/ strays[i] = 0
        \/ strays[i] = 1 /\ poller[i] = "send" /\ i <= item /\ ~Waiting(i)

\* How often an object has been looked at, and what is known of each wait.
Tried ==
    \A i \in Item :
        /\ i > item => attempts[i] = 0 /\ outcome[i] = Open
        /\ Waiting(i) => outcome[i] = Open
        /\ Waiting(i) /\ command.retries >= 0 =>
               attempts[i] <= IF pc = "check" THEN command.retries + 1 ELSE command.retries
        /\ i <= item /\ ~Waiting(i) => outcome[i] # Open
        /\ outcome[i] \in Outcome

\* The failures are counted one by one, and the last one is kept for the end.
Failed == {i \in Item : outcome[i] # Open /\ Counts(outcome[i])}

Tallied ==
    /\ totalErrors = Cardinality(Failed)
    /\ totalErrors <= command.abortOnErrors
    /\ pc \in {"select", "check"} => totalErrors < command.abortOnErrors
    /\ \/ lastErr = NoError /\ totalErrors = 0 /\ (pc = "done" => item = Items)
       \/ ProcessExitCode(lastErr) # ExitOK /\ totalErrors > 0 /\ (pc = "done" => item = Items)
       \/ ProcessExitCode(lastErr) # ExitOK /\ pc = "done" /\ item < Items

-----------------------------------------------------------------------------
\* The kinds of error are told apart.
LEMMA ErrorsDiffer ==
    /\ Outcome \subseteq Error \cup {Open}
    /\ \A e \in Outcome \ {Open, NoError} : ProcessExitCode(e) # ExitOK /\ e # NoError
    /\ \A e \in Outcome \ {AssertionError} : ~IsAssertion(e)
    /\ Open \notin {NoError, OtherError, AssertionError, NoMatches, WaitTimeout, WaitCancelled}
    /\ NoError # OtherError /\ NoError # AssertionError /\ OtherError # AssertionError
    /\ ProcessExitCode(NoError) = ExitOK
    /\ ProcessExitCode(NewUserErrorWithExitCode(ExitAbortedWithErrors)) # ExitOK
    /\ NewUserErrorWithExitCode(ExitAbortedWithErrors) \in Error
BY DEF Outcome, Open, NoError, OtherError, AssertionError, NoMatches, WaitTimeout, WaitCancelled,
       NewUserErrorWithExitCode, Err, IsAssertion, ProcessExitCode, ExitOK, ExitTimeout, ExitCancel,
       ExitAssertionError, ExitNotFound404, ExitError, ExitAbortedWithErrors, Error, Kinds

LEMMA NoObjectType == NoObject \in Object
BY DEF NoObject, Object, OperationStatus

\* What the server makes of an object is an object again.
LEMMA EvolvedType ==
    ASSUME WaitAssumption, NEW o \in Object, NEW n \in Evolved(o)
    PROVE  n \in Object
<1>1. o.status \in OperationStatus /\ o.exists \in BOOLEAN /\ o.fragments \in SUBSET {"f", "g"}
      /\ o.count \in Nat
  BY DEF Object
<1>2. CASE command.predicate.kind = "status"
  <2>1. PICK s \in OperationStatus : n = [o EXCEPT !.status = s]
    BY <1>2, Zenon DEF Evolved, FinalStatus, OperationStatus
  <2> QED
    BY <2>1 DEF Object
<1>3. CASE command.predicate.kind = "fragments"
  <2>1. PICK f \in SUBSET {"f", "g"} : n = [o EXCEPT !.fragments = f]
    BY <1>3 DEF Evolved
  <2> QED
    BY <2>1 DEF Object
<1>4. CASE command.predicate.kind = "exists"
  BY <1>1, <1>4 DEF Evolved, Object
<1>5. CASE command.predicate.kind \notin {"status", "fragments", "exists"}
  <2>1. PICK k \in {o.count - 1, o.count + 1} \cap 0..MaxCount : n = [o EXCEPT !.count = k]
    BY <1>5 DEF Evolved
  <2>2. k \in Nat
    BY <2>1, WaitAssumption DEF WaitAssumption
  <2> QED
    BY <2>1, <2>2 DEF Object
<1> QED
  BY <1>2, <1>3, <1>4, <1>5

LEMMA ObjectRecords ==
    ASSUME NEW A, NEW B, NEW C, NEW D, A \subseteq OperationStatus, B \subseteq BOOLEAN,
           C \subseteq SUBSET {"f", "g"}, D \subseteq Nat
    PROVE  [status : A, exists : B, fragments : C, count : D] \subseteq Object
<1> SUFFICES ASSUME NEW o \in [status : A, exists : B, fragments : C, count : D]
             PROVE  o \in Object
  BY Zenon
<1>1. o.status \in OperationStatus /\ o.exists \in BOOLEAN
      /\ o.fragments \in SUBSET {"f", "g"} /\ o.count \in Nat
  BY Zenon
<1>2. o = [status |-> o.status, exists |-> o.exists, fragments |-> o.fragments, count |-> o.count]
  BY Zenon
<1> QED
  BY <1>1, <1>2, Zenon DEF Object

LEMMA ObjectValuesType ==
    ASSUME WaitAssumption
    PROVE  ObjectValues \subseteq Object
<1> DEFINE A == IF command.predicate.kind = "status" THEN OperationStatus ELSE {"PENDING"}
           B == IF command.predicate.kind = "exists" THEN BOOLEAN ELSE {TRUE}
           C == IF command.predicate.kind = "fragments" THEN SUBSET {"f", "g"} ELSE {{}}
           D == IF command.predicate.kind = "count" THEN 0..MaxCount ELSE {0}
<1>1. A \subseteq OperationStatus
  BY DEF OperationStatus
<1>2. B \subseteq BOOLEAN
  BY Zenon
<1>3. C \subseteq SUBSET {"f", "g"}
  OBVIOUS
<1>4. D \subseteq Nat
  BY DEF WaitAssumption
<1>5. ObjectValues = [status : A, exists : B, fragments : C, count : D]
  BY Zenon DEF ObjectValues
<1> HIDE DEF A, B, C, D
<1>6. [status : A, exists : B, fragments : C, count : D] \subseteq Object
  BY ONLY <1>1, <1>2, <1>3, <1>4, ObjectRecords, Zenon
<1> QED
  BY <1>5, <1>6, Zenon

\* An answer is an error, or the object asked for.
LEMMA AnswerType ==
    ASSUME TypeOK, NEW i \in Item, NEW m \in Answers(i)
    PROVE  m \in Message /\ (m = GetError \/ (m.kind = "value" /\ m.id = i /\ m.object \in Object))
<1>1. GetError \in Message
  BY NoObjectType, WaitAssumption DEF GetError, Message, WaitAssumption
<1>2. object[i] \in Object
  BY DEF TypeOK
<1>3. Value(i, object[i]) \in Message
  BY <1>2 DEF Value, Message, Item
<1> QED
  BY <1>1, <1>2, <1>3 DEF Answers, Value

\* What Check says: no error only of an object that is as wanted, an assertion
\* error only while it may still become so.
OneLimit(p) == p.kind = "count" => p.minimum = -1 \/ p.maximum = -1

LEMMA CheckResult ==
    ASSUME NEW p \in Predicate, NEW got \in Object, NEW now \in Object, NEW f \in BOOLEAN
    PROVE  LET r == Check(p, got, now, f)
           IN  /\ r.done \in BOOLEAN
               /\ r.err \in {NoError, OtherError, AssertionError}
               /\ r.done => r.err # AssertionError
               /\ r.err = NoError /\ (r.done \/ p.kind # "status") /\ OneLimit(p) =>
                      Satisfies(p, IF p.kind = "count" THEN now ELSE got)
<1> DEFINE r == Check(p, got, now, f)
<1>1. NoError # OtherError /\ NoError # AssertionError /\ OtherError # AssertionError
  BY ErrorsDiffer
<1>2. p.kind \in {"status", "fragments", "exists", "count"}
      /\ p.minimum \in Int /\ p.maximum \in Int /\ p.negate \in BOOLEAN
  BY DEF Predicate
<1>3. got.exists \in BOOLEAN /\ now.count \in Nat
  BY DEF Object
<1>4. CASE p.kind = "status"
  <2>1. r = CheckStatus(p, got)
    BY <1>4 DEF Check
  <2> QED
    BY <1>1, <1>4, <2>1 DEF CheckStatus, Checked, Satisfies
<1>5. ASSUME NEW done \in BOOLEAN, r = NotYet(done)
      PROVE  /\ r.done = done
             /\ r.err \in {NoError, AssertionError}
             /\ r.err = NoError <=> done
  BY <1>1, <1>5 DEF NotYet, Checked
<1>6. CASE p.kind = "fragments"
  <2> DEFINE done == p.wanted \subseteq got.fragments /\ p.unwanted \cap got.fragments = {}
  <2>1. r = IF done /\ p.invalid THEN Checked(TRUE, OtherError) ELSE NotYet(done)
    BY <1>6 DEF Check, CheckFragments
  <2>2. done => Satisfies(p, got)
    BY <1>6 DEF Satisfies
  <2>3. CASE done /\ p.invalid
    BY <1>1, <2>1, <2>3 DEF Checked
  <2>4. CASE ~(done /\ p.invalid)
    BY <1>1, <1>5, <1>6, <2>1, <2>2, <2>4
  <2> QED
    BY <2>3, <2>4
<1>7. CASE p.kind = "exists"
  <2>1. r = NotYet(got.exists # p.negate)
    BY <1>7 DEF Check, CheckExists
  <2>2. (got.exists # p.negate) => Satisfies(p, got)
    BY <1>2, <1>3, <1>7 DEF Satisfies
  <2> QED
    BY <1>1, <1>5, <1>7, <2>1, <2>2
<1>8. CASE p.kind = "count"
  <2> DEFINE done == ~f /\ IF p.maximum > -1 THEN now.count <= p.maximum
                           ELSE p.minimum > -1 /\ now.count >= p.minimum
  <2>1. r = NotYet(done)
    <3>1. r = IF f THEN NotYet(FALSE) ELSE CheckCount(p, now)
      BY <1>8 DEF Check
    <3>2. CASE f
      <4>1. r = NotYet(FALSE) /\ (done <=> FALSE)
        BY <3>1, <3>2
      <4> QED
        BY <4>1 DEF NotYet, Checked
    <3>3. CASE ~f
      <4>1. CheckCount(p, now) = NotYet(IF p.maximum > -1 THEN now.count <= p.maximum
                                        ELSE p.minimum > -1 /\ now.count >= p.minimum)
        BY DEF CheckCount
      <4>2. r = CheckCount(p, now)
        BY <3>1, <3>3
      <4> QED
        BY <3>3, <4>1, <4>2 DEF NotYet, Checked
    <3> QED
      BY <3>2, <3>3
  <2>2. done /\ OneLimit(p) => Satisfies(p, now)
    BY <1>2, <1>3, <1>8 DEF Satisfies, OneLimit
  <2>3. done \in BOOLEAN
    OBVIOUS
  <2> HIDE DEF done
  <2> QED
    BY <1>1, <1>5, <1>8, <2>1, <2>2, <2>3
<1> QED
  BY <1>2, <1>4, <1>6, <1>7, <1>8

-----------------------------------------------------------------------------
\* What the actions of the main goroutine do to the books of the items.  The
\* properties are kept by Record, whatever the action that calls it.
Safe == AllRetriesMade /\ (OneLimit(command.predicate) => HonestSuccess) /\ OwnValues

WaitInv == WaitAssumption /\ TypeOK /\ Shape /\ Stray /\ Tried /\ Tallied /\ Safe

LEMMA FailedFinite == IsFiniteSet(Failed) /\ Cardinality(Failed) \in Nat
<1>1. IsFiniteSet(Item)
  BY FS_Interval, WaitAssumption DEF Item, WaitAssumption
<1> QED
  BY <1>1, FS_Subset, FS_CardinalityType DEF Failed

LEMMA InitWaitInv == Init => WaitInv
<1> SUFFICES ASSUME Init
             PROVE  WaitInv
  OBVIOUS
<1>1. TypeOK
  <2>1. command \in Commands /\ unmatched \subseteq Item
    BY DEF Init
  <2>2. NoValue \in Message /\ NoError \in Error
    BY NoObjectType, ErrorsDiffer, WaitAssumption DEF NoValue, Message, WaitAssumption, Outcome, Open, NoError, Err
  <2>3. printed \in Seq([item : Item, id : Item])
    BY DEF Init
  <2>4. 0 \in 0..Items
    BY WaitAssumption DEF WaitAssumption
  <2> QED
    BY <2>1, <2>2, <2>3, <2>4, NoObjectType DEF Init, TypeOK
<1>2. Shape /\ Stray
  BY DEF Init, Shape, Stray, Waiting
<1>3. Tried
  BY DEF Init, Tried, Waiting, Item, Outcome
<1>4. Tallied
  <2>1. Failed = {}
    BY DEF Init, Failed
  <2>2. command.abortOnErrors \in Nat
    BY WaitAssumption DEF Init, WaitAssumption, Command
  <2> QED
    BY <2>1, <2>2, FS_EmptySet DEF Init, Tallied
<1>5. Safe
  <2>1. \A i \in Item : outcome[i] = Open /\ attempts[i] = 0
    BY DEF Init
  <2>2. command.retries \in Nat \cup {-1}
    BY WaitAssumption DEF Init, WaitAssumption, Command
  <2>3. ~IsAssertion(Open) /\ Open # NoError
    BY ErrorsDiffer DEF Outcome
  <2>4. AllRetriesMade
    BY <2>1, <2>2, <2>3 DEF AllRetriesMade
  <2>5. HonestSuccess
    BY <2>1, <2>3 DEF HonestSuccess
  <2>6. OwnValues
    BY DEF Init, OwnValues
  <2> QED
    BY <2>4, <2>5, <2>6 DEF Safe
<1> QED
  BY <1>1, <1>2, <1>3, <1>4, <1>5, WaitAssumption DEF WaitInv

\* The parts of the invariant that are about the variables of the main goroutine
\* do not look at the pollers, the timer, the signals or the server.
LEMMA BooksUntouched ==
    ASSUME WaitInv, UNCHANGED <<command, pc, item, attempts, totalErrors, lastErr, printed,
                                outcome, checked>>
    PROVE  Tried' /\ Tallied' /\ Safe'
<1>1. Failed' = Failed
  BY DEF Failed, Counts
<1> QED
  BY <1>1 DEF WaitInv, Tried, Tallied, Safe, Waiting, AllRetriesMade, HonestSuccess, OwnValues

\* A change on the server, a signal and a timer that fires.
LEMMA SurroundingsStep ==
    ASSUME WaitInv, Change \/ TimerFires \/ Interrupt
    PROVE  WaitInv'
<1> USE DEF WaitInv
<1>1. CASE Change
  <2>1. PICK o \in Evolved(object[item]) : object' = [object EXCEPT ![item] = o]
    BY <1>1 DEF Change
  <2>2. object[item] \in Object /\ item \in Item
    BY <1>1 DEF Change, TypeOK, Item
  <2>3. o \in Object
    BY <2>1, <2>2, EvolvedType
  <2>4. TypeOK'
    BY <1>1, <2>1, <2>3 DEF Change, TypeOK, mainVars
  <2>5. Shape' /\ Stray'
    BY <1>1 DEF Change, mainVars, Shape, Stray, Waiting
  <2> QED
    BY <1>1, <2>4, <2>5, BooksUntouched DEF Change, mainVars
<1>2. CASE TimerFires
  <2>1. TypeOK'
    BY <1>2 DEF TimerFires, TypeOK
  <2>2. Shape' /\ Stray'
    BY <1>2 DEF TimerFires, Shape, Stray, Waiting
  <2> QED
    BY <1>2, <2>1, <2>2, BooksUntouched DEF TimerFires
<1>3. CASE Interrupt
  <2>1. TypeOK'
    BY <1>3 DEF Interrupt, TypeOK, mainVars
  <2>2. Shape' /\ Stray'
    BY <1>3 DEF Interrupt, mainVars, Shape, Stray, Waiting
  <2> QED
    BY <1>3, <2>1, <2>2, BooksUntouched DEF Interrupt, mainVars
<1> QED
  BY <1>1, <1>2, <1>3

\* A poller asks for the object that the predicate names by now.
LEMMA PollerStep ==
    ASSUME WaitInv, NEW i \in Item, Poll(i) \/ Wake(i)
    PROVE  WaitInv'
<1> USE DEF WaitInv
<1>1. UNCHANGED <<command, pc, item, predicateID, attempts, totalErrors, lastErr, printed,
                  outcome, checked, lastValue>>
  BY DEF Poll, Wake, mainVars
<1>2. CASE Poll(i)
  <2>1. predicateID \in Item
    BY <1>2 DEF Poll, Shape, TypeOK, Item
  <2>2. PICK m \in Answers(predicateID) : offer' = [offer EXCEPT ![i] = m]
    BY <1>2 DEF Poll
  <2>3. m \in Message /\ (m = GetError \/ (m.kind = "value" /\ m.id = predicateID))
    BY <2>1, <2>2, AnswerType
  <2>4. poller' = [poller EXCEPT ![i] = "send"] /\ poller[i] = "get"
        /\ strays' = [strays EXCEPT ![i] = IF Waiting(i) THEN @ ELSE @ + 1]
    BY <1>2 DEF Poll, Holds
  <2>5. TypeOK'
    BY <1>2, <2>2, <2>3, <2>4 DEF Poll, TypeOK, mainVars
  <2>6. Shape'
    BY <1>1, <2>1, <2>2, <2>3, <2>4 DEF Shape, Waiting, TypeOK
  <2>7. Stray'
    BY <1>1, <2>4 DEF Stray, Shape, Waiting, TypeOK
  <2> QED
    BY <1>1, <2>5, <2>6, <2>7, BooksUntouched
<1>3. CASE Wake(i)
  <2>1. TypeOK'
    BY <1>3 DEF Wake, TypeOK, mainVars
  <2>2. Shape' /\ Stray'
    BY <1>1, <1>3 DEF Wake, Shape, Stray, Waiting, TypeOK
  <2> QED
    BY <1>1, <2>1, <2>2, BooksUntouched
<1> QED
  BY <1>2, <1>3

\* An item that ends is counted once, and its error is kept if it counts.
LEMMA RecordTally ==
    ASSUME WaitInv, pc # "done", NEW i \in Item, NEW err \in Outcome \ {Open}, NEW value,
           outcome[i] = Open, totalErrors < command.abortOnErrors,
           command' = command, Record(i, value, err)
    PROVE  /\ totalErrors' \in Nat /\ lastErr' \in Error
           /\ totalErrors' = Cardinality(Failed') /\ totalErrors' <= command.abortOnErrors
           /\ \/ lastErr' = NoError /\ totalErrors' = 0
              \/ ProcessExitCode(lastErr') # ExitOK /\ totalErrors' > 0
<1> USE DEF WaitInv
<1>1. totalErrors \in Nat /\ command.abortOnErrors \in Nat /\ lastErr \in Error
  BY DEF TypeOK, WaitAssumption, Command
<1>2. totalErrors = Cardinality(Failed)
      /\ \/ lastErr = NoError /\ totalErrors = 0
         \/ ProcessExitCode(lastErr) # ExitOK /\ totalErrors > 0
  BY DEF Tallied
<1>3. outcome' = [outcome EXCEPT ![i] = err] /\ DOMAIN outcome = Item
  BY DEF Record, TypeOK
<1>4. i \notin Failed
  BY DEF Failed
<1>5. CASE Counts(err)
  <2>1. Failed' = Failed \cup {i}
    BY <1>3, <1>5 DEF Failed, Counts
  <2>2. Cardinality(Failed') = Cardinality(Failed) + 1
    BY <1>4, <2>1, FailedFinite, FS_AddElement
  <2>3. totalErrors' = totalErrors + 1 /\ lastErr' = Reported(err)
    BY <1>5 DEF Record
  <2>4. Reported(err) \in {err, AssertionError} /\ err # NoError
    BY <1>5 DEF Reported, Counts, AssertionError, NewUserErrorWithExitCode
  <2>5. ProcessExitCode(Reported(err)) # ExitOK /\ Reported(err) \in Error
    <3>1. err \in Outcome \ {Open, NoError} /\ AssertionError \in Outcome \ {Open, NoError}
      BY <2>4, ErrorsDiffer DEF Outcome
    <3> QED
      BY <2>4, <3>1, ErrorsDiffer
  <2> QED
    BY <1>1, <1>2, <2>2, <2>3, <2>5
<1>6. CASE ~Counts(err)
  <2>1. Failed' = Failed
    BY <1>3, <1>6 DEF Failed, Counts
  <2>2. totalErrors' = totalErrors + 0 /\ lastErr' = lastErr
    BY <1>6 DEF Record
  <2> QED
    BY <1>1, <1>2, <2>1, <2>2
<1> QED
  BY <1>5, <1>6

\* The item that ends has what the properties ask of it, and the others keep it.
LEMMA RecordSafe ==
    ASSUME WaitInv, NEW i \in Item, NEW err \in Outcome \ {Open}, NEW value \in Message,
           outcome[i] = Open, command' = command, Record(i, value, err),
           value.kind = "value" => value.id = i,
           attempts' \in [Item -> Nat], \A j \in Item \ {i} : attempts'[j] = attempts[j],
           command.retries >= 0 => attempts'[i] <= command.retries + 1,
           IsAssertion(err) => attempts'[i] = command.retries + 1,
           \A j \in Item \ {i} : checked'[j] = checked[j],
           err = NoError /\ OneLimit(command.predicate) => Satisfies(command.predicate, checked'[i])
    PROVE  Safe' /\ outcome' \in [Item -> Error \cup {Open}] /\ printed' \in Seq([item : Item, id : Item])
<1> USE DEF WaitInv
<1>1. outcome' = [outcome EXCEPT ![i] = err] /\ outcome \in [Item -> Error \cup {Open}]
  BY DEF Record, TypeOK
<1>2. AllRetriesMade'
  BY <1>1 DEF Safe, AllRetriesMade
<1>3. OneLimit(command.predicate)' => HonestSuccess'
  BY <1>1 DEF Safe, HonestSuccess
<1>4. OwnValues' /\ printed' \in Seq([item : Item, id : Item])
  <2>1. printed \in Seq([item : Item, id : Item]) /\ OwnValues
    BY DEF TypeOK, Safe
  <2>2. CASE Writes(value, err)
    <3>1. value.id = i /\ printed' = Append(printed, [item |-> i, id |-> value.id])
      BY <2>2 DEF Record, Writes
    <3> QED
      BY <2>1, <3>1 DEF OwnValues
  <2>3. CASE ~Writes(value, err)
    BY <2>1, <2>3 DEF Record, OwnValues
  <2> QED
    BY <2>2, <2>3
<1>5. outcome' \in [Item -> Error \cup {Open}]
  BY <1>1, ErrorsDiffer
<1> QED
  BY <1>2, <1>3, <1>4, <1>5 DEF Safe

\* What an item that is recorded leaves of the history of the others.
LEMMA RecordTried ==
    ASSUME WaitInv, NEW i \in Item, NEW err \in Outcome \ {Open}, NEW value,
           Record(i, value, err), item' = i, i = item \/ i = item + 1, pc' = "input",
           pc = "input" \/ i = item,
           attempts' \in [Item -> Nat], \A j \in Item \ {i} : attempts'[j] = attempts[j]
    PROVE  Tried'
<1>1. outcome' = [outcome EXCEPT ![i] = err] /\ DOMAIN outcome = Item
  BY DEF Record, TypeOK, WaitInv
<1>2. item \in Int /\ Items \in Nat
  BY DEF WaitInv, TypeOK, WaitAssumption
<1> QED
  BY <1>1, <1>2 DEF WaitInv, Tried, Waiting, Item

\* The command ends.
LEMMA ExitStep ==
    ASSUME WaitInv, NextItem, EndOfInput \/ AbortOnErrors
    PROVE  WaitInv'
<1> USE DEF WaitInv
<1>1. /\ pc = "input" /\ pc' = "done"
      /\ UNCHANGED <<command, object, unmatched, item, predicateID, timer, attempts, lastValue,
                     totalErrors, printed, outcome, checked, poller, interrupted, offer, strays,
                     interrupts>>
  BY DEF NextItem, EndOfInput, AbortOnErrors, Exit
<1>2. lastErr' \in Error
  BY ErrorsDiffer DEF EndOfInput, AbortOnErrors, Exit, TypeOK, Outcome, Open, NoError, Err
<1>3. TypeOK'
  BY <1>1, <1>2 DEF TypeOK
<1>4. Shape' /\ Stray' /\ Tried' /\ Safe'
  BY <1>1 DEF Shape, Stray, Tried, Safe, AllRetriesMade, HonestSuccess, OwnValues, Waiting
<1>5. Tallied'
  <2>1. Failed' = Failed
    BY <1>1 DEF Failed, Counts
  <2>2. item \in 0..Items /\ totalErrors \in Nat
    BY DEF TypeOK
  <2>3. CASE EndOfInput
    BY <1>1, <2>1, <2>2, <2>3 DEF EndOfInput, Exit, MoreItems, Tallied
  <2>4. CASE AbortOnErrors
    BY <1>1, <2>1, <2>2, <2>4, ErrorsDiffer DEF AbortOnErrors, Exit, MoreItems, Tallied
  <2> QED
    BY <2>3, <2>4
<1> QED
  BY <1>3, <1>4, <1>5

\* The name of an item matches nothing.
LEMMA SkipStep ==
    ASSUME WaitInv, NextItem, SkipItem
    PROVE  WaitInv'
<1> USE DEF WaitInv
<1> DEFINE i == item + 1
<1>1. /\ pc = "input" /\ item' = i /\ Record(i, NoValue, NoMatches)
      /\ UNCHANGED <<command, object, unmatched, pc, predicateID, timer, attempts, lastValue,
                     checked, poller, interrupted, offer, strays, interrupts>>
      /\ item < Items /\ ~(totalErrors >= command.abortOnErrors)
  BY DEF NextItem, SkipItem, MoreItems, TooManyErrors
<1>2. i \in Item /\ i \in 0..Items /\ i > item /\ item \in Nat /\ Items \in Nat
  BY <1>1, WaitAssumption DEF TypeOK, Item, WaitAssumption
<1>3. outcome[i] = Open /\ attempts[i] = 0 /\ totalErrors < command.abortOnErrors
  BY <1>1, <1>2 DEF Tried, TypeOK, WaitAssumption, Command
<1>4. NoMatches \in Outcome \ {Open} /\ NoMatches # NoError /\ ~IsAssertion(NoMatches)
  <2>1. NoMatches \in Outcome \ {Open} /\ NoMatches # NoError
    BY ErrorsDiffer DEF Outcome, NoMatches, NoError, Err
  <2>2. NoMatches # AssertionError
    BY DEF NoMatches, AssertionError, Err
  <2> QED
    BY <2>1, <2>2 DEF IsAssertion
<1>5. NoValue \in Message /\ NoValue.kind # "value"
  BY NoObjectType, <1>2 DEF NoValue, Message
<1>6. command.retries \in Nat \cup {-1}
  BY DEF TypeOK, WaitAssumption, Command
<1>7. /\ totalErrors' \in Nat /\ lastErr' \in Error
      /\ totalErrors' = Cardinality(Failed') /\ totalErrors' <= command.abortOnErrors
      /\ \/ lastErr' = NoError /\ totalErrors' = 0
         \/ ProcessExitCode(lastErr') # ExitOK /\ totalErrors' > 0
  BY <1>1, <1>2, <1>3, <1>4, RecordTally
<1>8. Safe' /\ outcome' \in [Item -> Error \cup {Open}] /\ printed' \in Seq([item : Item, id : Item])
  <2>1. attempts' \in [Item -> Nat] /\ (command.retries >= 0 => attempts'[i] <= command.retries + 1)
    BY <1>1, <1>2, <1>3, <1>6 DEF TypeOK
  <2> QED
    BY <1>1, <1>2, <1>3, <1>4, <1>5, <2>1, RecordSafe
<1>9. Tried'
  <2>1. attempts' \in [Item -> Nat] /\ pc' = "input"
    BY <1>1 DEF TypeOK
  <2> QED
    BY <1>1, <1>2, <1>4, <2>1, RecordTried
<1> HIDE DEF i
<1>10. TypeOK'
  BY <1>1, <1>2, <1>7, <1>8 DEF TypeOK
<1>11. Shape' /\ Stray'
  <2>1. \A j \in Item : j <= item => j <= i
    BY <1>2 DEF Item
  <2> QED
    BY <1>1, <2>1 DEF Shape, Stray, Waiting
<1>12. Tallied'
  BY <1>1, <1>7 DEF Tallied
<1> QED
  BY <1>8, <1>9, <1>10, <1>11, <1>12

\* A wait starts: its poller has not run before.
LEMMA StartStep ==
    ASSUME WaitInv, NextItem, StartWait
    PROVE  WaitInv'
<1> USE DEF WaitInv
<1> DEFINE i == item + 1
<1>1. /\ pc = "input" /\ pc' = "select" /\ item' = i /\ predicateID' = i
      /\ poller' = [poller EXCEPT ![i] = "get"]
      /\ lastValue' = NoValue /\ interrupted' = FALSE /\ timer' \in {"stopped", "running"}
      /\ UNCHANGED <<command, unmatched, attempts, totalErrors, lastErr, printed, outcome, checked,
                     offer, strays, interrupts>>
      /\ item < Items /\ ~(totalErrors >= command.abortOnErrors)
  BY DEF NextItem, StartWait, MoreItems, TooManyErrors, Timer
<1>2. i \in Item /\ i \in 0..Items /\ i > item /\ item \in Nat /\ Items \in Nat
  BY <1>1, WaitAssumption DEF TypeOK, Item, WaitAssumption
<1>3. outcome[i] = Open /\ attempts[i] = 0 /\ totalErrors < command.abortOnErrors
  BY <1>1, <1>2 DEF Tried, TypeOK, WaitAssumption, Command
<1>4. object' \in [Item -> Object]
  <2>1. PICK o \in ObjectValues : object' = [object EXCEPT ![i] = o]
    BY DEF StartWait
  <2>2. o \in Object
    BY <2>1, ObjectValuesType
  <2> QED
    BY <2>1, <2>2 DEF TypeOK
<1>5. NoValue \in Message
  BY NoObjectType, <1>2 DEF NoValue, Message
<1>6. TypeOK'
  <2>1. i > 0 /\ pc' \in {"input", "select", "check", "done"} /\ timer' \in {"stopped", "running", "expired"}
    BY <1>1, <1>2
  <2> QED
    BY <1>1, <1>2, <1>4, <1>5, <2>1 DEF TypeOK
<1>12. /\ \A j \in Item : j <= item => j <= i /\ j # i
       /\ poller \in [Item -> {"none", "get", "send", "sleep"}]
  BY <1>2 DEF Item, TypeOK
<1>7. Shape'
  <2>1. i > 0 /\ i <= i
    BY <1>2
  <2>2. \A j \in Item : poller'[j] # "none" => i > 0 /\ j <= i
    BY <1>1, <1>2, <1>12, <2>1 DEF Shape
  <2>3. \A j \in Item : Waiting(j)' => j = i /\ poller'[j] = "get"
    BY <1>1, <1>2, <1>12 DEF Waiting
  <2>4. poller'[i] # "none"
    BY <1>1, <1>2, <1>12
  <2> QED
    BY <1>1, <2>2, <2>3, <2>4 DEF Shape
<1>8. Stray'
  <2>1. \A j \in Item : strays[j] = 0 \/ (strays[j] = 1 /\ poller[j] = "send" /\ j <= i /\ j # i)
    BY <1>12 DEF Stray
  <2> QED
    BY <1>1, <1>12, <2>1 DEF Stray, Waiting
<1>9. Tried'
  <2>1. command.retries \in Nat \cup {-1}
    BY DEF TypeOK, WaitAssumption, Command
  <2> QED
    BY <1>1, <1>2, <1>3, <2>1 DEF Tried, Waiting, TypeOK, Item
<1>10. Tallied'
  <2>1. Failed' = Failed
    BY <1>1 DEF Failed, Counts
  <2> QED
    BY <1>1, <1>3, <2>1 DEF Tallied
<1>11. Safe'
  BY <1>1 DEF Safe, AllRetriesMade, HonestSuccess, OwnValues
<1> QED
  BY <1>6, <1>7, <1>8, <1>9, <1>10, <1>11

\* A wait returns, after which its books are closed.
LEMMA ReturnStep ==
    ASSUME WaitInv, pc \in {"select", "check"}, NEW err \in Outcome \ {Open}, NEW value \in Message,
           Return(value, err), UNCHANGED <<command, unmatched, object, item, predicateID, strays, interrupts>>,
           value.kind = "value" => value.id = item,
           attempts' \in [Item -> Nat], \A j \in Item \ {item} : attempts'[j] = attempts[j],
           command.retries >= 0 => attempts'[item] <= command.retries + 1,
           IsAssertion(err) => attempts'[item] = command.retries + 1,
           checked' \in [Item -> Object], \A j \in Item \ {item} : checked'[j] = checked[j],
           err = NoError /\ OneLimit(command.predicate) => Satisfies(command.predicate, checked'[item]),
           offer' \in [Item -> Message], poller' \in [Item -> {"none", "get", "send", "sleep"}],
           \A j \in Item \ {item} : poller'[j] = poller[j], poller[item] # "none"
    PROVE  WaitInv'
<1> USE DEF WaitInv
<1>1. /\ pc' = "input" /\ timer' = "stopped" /\ interrupted' = FALSE /\ lastValue' = NoValue
      /\ Record(item, value, err)
  BY DEF Return
<1>2. item \in Item /\ item \in Nat /\ Items \in Nat
  BY WaitAssumption DEF TypeOK, Item, WaitAssumption
<1>3. outcome[item] = Open /\ totalErrors < command.abortOnErrors
  BY <1>2 DEF Tried, Waiting, Tallied
<1>4. /\ totalErrors' \in Nat /\ lastErr' \in Error
      /\ totalErrors' = Cardinality(Failed') /\ totalErrors' <= command.abortOnErrors
      /\ \/ lastErr' = NoError /\ totalErrors' = 0
         \/ ProcessExitCode(lastErr') # ExitOK /\ totalErrors' > 0
  BY <1>1, <1>2, <1>3, RecordTally
<1>5. Safe' /\ outcome' \in [Item -> Error \cup {Open}] /\ printed' \in Seq([item : Item, id : Item])
  BY <1>1, <1>2, <1>3, RecordSafe
<1>6. Tried'
  BY <1>1, <1>2, RecordTried
<1>7. NoValue \in Message
  BY NoObjectType, <1>2 DEF NoValue, Message
<1>8. TypeOK'
  BY <1>1, <1>2, <1>4, <1>5, <1>7 DEF TypeOK
<1>9. Shape'
  BY <1>1, <1>2 DEF Shape, Waiting
<1>10. Stray'
  BY <1>1, <1>2 DEF Stray, Waiting
<1>11. Tallied'
  BY <1>1, <1>4 DEF Tallied
<1> QED
  BY <1>5, <1>6, <1>8, <1>9, <1>10, <1>11

\* The timeout and Ctrl-C end a wait with what the last answer was.
LEMMA GiveUpStep ==
    ASSUME WaitInv, TimedOut \/ Cancelled
    PROVE  WaitInv'
<1> USE DEF WaitInv
<1>1. PICK err \in {WaitTimeout, WaitCancelled} :
         /\ pc = "select" /\ Return(lastValue, err)
         /\ UNCHANGED <<command, object, unmatched, item, predicateID, attempts, checked, poller,
                        offer, strays, interrupts>>
  BY DEF TimedOut, Cancelled, WaitTimeout, WaitCancelled
<1>2. err \in Outcome \ {Open} /\ err # NoError /\ ~IsAssertion(err)
  <2>1. err \in Outcome \ {Open, NoError}
    BY ErrorsDiffer DEF Outcome, WaitTimeout, WaitCancelled, NewUserErrorWithExitCode, NoError, Err
  <2>2. err # AssertionError
    BY DEF WaitTimeout, WaitCancelled, NewUserErrorWithExitCode, AssertionError, Err, ExitTimeout,
           ExitCancel, ExitAssertionError
  <2> QED
    BY <2>1, <2>2 DEF IsAssertion
<1>3. item \in Item
  BY <1>1, WaitAssumption DEF TypeOK, Item, WaitAssumption
<1>4. lastValue \in Message /\ (lastValue.kind = "value" => lastValue.id = item)
  BY <1>1 DEF Shape, TypeOK, NoValue
<1>5. /\ attempts \in [Item -> Nat] /\ checked \in [Item -> Object] /\ offer \in [Item -> Message]
      /\ poller \in [Item -> {"none", "get", "send", "sleep"}]
      /\ command.retries >= 0 => attempts[item] <= command.retries + 1
  BY <1>3 DEF TypeOK, Safe, AllRetriesMade
<1>6. poller[item] # "none"
  BY <1>1 DEF Shape
<1> QED
  BY <1>1, <1>2, <1>3, <1>4, <1>5, <1>6, ReturnStep

\* An answer is an error, which ends the wait, or an object that is checked.
LEMMA TakeStep ==
    ASSUME WaitInv, NEW i \in Item, TakeAnswer(i)
    PROVE  WaitInv'
<1> USE DEF WaitInv
<1>1. /\ pc = "select" /\ i = item /\ poller[i] = "send"
      /\ poller' = [poller EXCEPT ![i] = "sleep"] /\ offer' = [offer EXCEPT ![i] = NoValue]
      /\ attempts' = [attempts EXCEPT ![i] = @ + 1]
      /\ UNCHANGED <<command, object, unmatched, item, predicateID, checked, strays, interrupts>>
  BY DEF TakeAnswer, Sender
<1>2. /\ poller' \in [Item -> {"none", "get", "send", "sleep"}] /\ offer' \in [Item -> Message]
      /\ attempts' \in [Item -> Nat] /\ attempts'[i] = attempts[i] + 1
      /\ \A j \in Item \ {i} : attempts'[j] = attempts[j] /\ poller'[j] = poller[j]
      /\ poller[item] # "none"
  <2>1. NoValue \in Message
    BY NoObjectType, WaitAssumption DEF NoValue, Message, WaitAssumption
  <2> QED
    BY <1>1, <2>1 DEF TypeOK
<1>3. /\ command.retries \in Nat \cup {-1} /\ attempts[i] \in Nat
      /\ command.retries >= 0 => attempts'[i] <= command.retries + 1
  <2>1. command \in Commands
    BY DEF TypeOK
  <2> QED
    BY <1>1, <1>2, <2>1 DEF TypeOK, WaitAssumption, Command, Tried, Waiting
<1>4. CASE offer[i] = GetError
  <2>1. Return(NoValue, OtherError)
    BY <1>1, <1>4 DEF TakeAnswer
  <2>2. OtherError \in Outcome \ {Open} /\ OtherError # NoError /\ ~IsAssertion(OtherError)
    BY ErrorsDiffer DEF Outcome
  <2>3. NoValue \in Message /\ NoValue.kind # "value" /\ checked \in [Item -> Object]
    BY NoObjectType, WaitAssumption DEF NoValue, Message, WaitAssumption, TypeOK
  <2> QED
    BY <1>1, <1>2, <1>3, <2>1, <2>2, <2>3, ReturnStep
<1>5. CASE offer[i] # GetError
  <2>1. /\ pc' = "check" /\ lastValue' = offer[i]
        /\ UNCHANGED <<timer, interrupted, printed, outcome, totalErrors, lastErr>>
    BY <1>1, <1>5 DEF TakeAnswer
  <2>2. offer[i] \in Message /\ offer[i].kind = "value" /\ offer[i].id = i
    BY <1>1, <1>5 DEF Shape, Waiting, TypeOK
  <2>3. TypeOK'
    BY <1>1, <1>2, <2>1, <2>2 DEF TypeOK
  <2>4. Shape'
    BY <1>1, <1>2, <2>1, <2>2 DEF Shape, Waiting, TypeOK
  <2>5. Stray'
    BY <1>1, <1>2, <2>1 DEF Stray, Waiting
  <2>6. Tried'
    BY <1>1, <1>2, <1>3, <2>1 DEF Tried, Waiting, TypeOK
  <2>7. Tallied'
    <3>1. Failed' = Failed
      BY <1>1, <2>1 DEF Failed, Counts
    <3> QED
      BY <1>1, <2>1, <3>1 DEF Tallied
  <2>8. outcome[i] = Open /\ ~IsAssertion(Open) /\ Open # NoError
    BY <1>1, ErrorsDiffer DEF Tried, Waiting, Outcome
  <2>9. Safe'
    <3>1. AllRetriesMade'
      BY <1>1, <1>2, <1>3, <2>1, <2>8 DEF Safe, AllRetriesMade
    <3>2. OneLimit(command.predicate)' => HonestSuccess'
      BY <1>1, <2>1 DEF Safe, HonestSuccess
    <3>3. OwnValues'
      BY <2>1 DEF Safe, OwnValues
    <3> QED
      BY <3>1, <3>2, <3>3 DEF Safe
  <2> QED
    BY <2>3, <2>4, <2>5, <2>6, <2>7, <2>9
<1> QED
  BY <1>4, <1>5

\* The check of an answer ends the wait, or the wait selects again.
LEMMA CheckStep ==
    ASSUME WaitInv, CheckAnswer
    PROVE  WaitInv'
<1> USE DEF WaitInv
<1> DEFINE p == command.predicate
           now == object[lastValue.id]
           done(f) == Check(p, lastValue.object, now, f).done
           err(f) == Check(p, lastValue.object, now, f).err
<1>1. PICK f \in BOOLEAN :
         /\ checked' = [checked EXCEPT ![item] = IF p.kind = "count" THEN now ELSE lastValue.object]
         /\ IF done(f) \/ RetriesUsed
            THEN Return(lastValue, err(f))
            ELSE /\ pc' = "select"
                 /\ UNCHANGED <<timer, interrupted, lastValue, printed, outcome, totalErrors,
                                lastErr>>
  BY DEF CheckAnswer
<1>2. /\ pc = "check" /\ item \in Item
      /\ UNCHANGED <<command, object, unmatched, item, predicateID, attempts, poller, offer,
                     strays, interrupts>>
  BY WaitAssumption DEF CheckAnswer, TypeOK, Item, WaitAssumption
<1>3. /\ lastValue \in Message /\ lastValue.kind = "value" /\ lastValue.id = item
      /\ lastValue.object \in Object /\ now \in Object
  BY <1>2 DEF Shape, TypeOK, Message
<1>4. /\ command.retries \in Nat \cup {-1} /\ attempts[item] \in Nat
      /\ command.retries >= 0 => attempts[item] <= command.retries + 1
      /\ command.retries >= 0 => p.kind # "status"
      /\ p \in Predicate
  <2>1. command \in Commands
    BY DEF TypeOK
  <2> QED
    BY <1>2, <2>1 DEF TypeOK, WaitAssumption, Command, Tried, Waiting
<1>5. /\ done(f) \in BOOLEAN /\ err(f) \in {NoError, OtherError, AssertionError}
      /\ done(f) => err(f) # AssertionError
      /\ err(f) = NoError /\ (done(f) \/ p.kind # "status") /\ OneLimit(p) =>
             Satisfies(p, IF p.kind = "count" THEN now ELSE lastValue.object)
  <2>1. p \in Predicate /\ lastValue.object \in Object /\ now \in Object /\ f \in BOOLEAN
    BY <1>1, <1>3, <1>4
  <2> HIDE DEF p, now
  <2> QED
    BY <2>1, CheckResult, Zenon
<1>6. /\ checked' \in [Item -> Object]
      /\ checked'[item] = IF p.kind = "count" THEN now ELSE lastValue.object
      /\ \A j \in Item \ {item} : checked'[j] = checked[j]
  BY <1>1, <1>2, <1>3 DEF TypeOK
<1>7. CASE done(f) \/ RetriesUsed
  <2>1. Return(lastValue, err(f))
    BY <1>1, <1>7
  <2>2. err(f) \in Outcome \ {Open}
    BY <1>5, ErrorsDiffer DEF Outcome
  <2>3. IsAssertion(err(f)) => attempts[item] = command.retries + 1
    <3>1. IsAssertion(err(f)) => RetriesUsed
      BY <1>5, <1>7 DEF IsAssertion
    <3> QED
      BY <1>4, <3>1 DEF RetriesUsed
  <2>4. err(f) = NoError /\ OneLimit(p) => Satisfies(p, checked'[item])
    <3>1. done(f) \/ p.kind # "status"
      BY <1>4, <1>7 DEF RetriesUsed
    <3> QED
      BY <1>5, <1>6, <3>1
  <2>5. /\ attempts \in [Item -> Nat] /\ offer \in [Item -> Message]
        /\ poller \in [Item -> {"none", "get", "send", "sleep"}] /\ poller[item] # "none"
    BY <1>2 DEF TypeOK, Shape
  <2> HIDE DEF err, done, now, p
  <2>6. err(f) = NoError /\ OneLimit(command.predicate) => Satisfies(command.predicate, checked'[item])
    BY <2>4 DEF p
  <2> QED
    BY <1>2, <1>3, <1>4, <1>6, <2>1, <2>2, <2>3, <2>5, <2>6, ReturnStep
<1>8. CASE ~(done(f) \/ RetriesUsed)
  <2>1. /\ pc' = "select"
        /\ UNCHANGED <<timer, interrupted, lastValue, printed, outcome, totalErrors, lastErr>>
    BY <1>1, <1>8
  <2>2. TypeOK'
    BY <1>2, <1>6, <2>1 DEF TypeOK
  <2>3. Shape' /\ Stray'
    BY <1>2, <1>3, <2>1 DEF Shape, Stray, Waiting
  <2>4. command.retries >= 0 => attempts[item] <= command.retries
    BY <1>4, <1>8 DEF RetriesUsed
  <2>5. Tried'
    BY <1>2, <2>1, <2>4 DEF Tried, Waiting
  <2>6. Tallied'
    <3>1. Failed' = Failed
      BY <1>2, <2>1 DEF Failed, Counts
    <3> QED
      BY <1>2, <2>1, <3>1 DEF Tallied
  <2>7. Safe'
    <3>1. AllRetriesMade' /\ OwnValues'
      BY <1>2, <2>1 DEF Safe, AllRetriesMade, OwnValues
    <3>2. outcome[item] = Open /\ Open # NoError
      BY <1>2, ErrorsDiffer DEF Tried, Waiting
    <3>3. OneLimit(command.predicate)' => HonestSuccess'
      BY <1>2, <1>6, <2>1, <3>2 DEF Safe, HonestSuccess
    <3> QED
      BY <3>1, <3>3 DEF Safe
  <2> QED
    BY <2>2, <2>3, <2>5, <2>6, <2>7
<1> QED
  BY <1>7, <1>8

LEMMA WaitStutter ==
    ASSUME WaitInv, UNCHANGED waitVars
    PROVE  WaitInv'
<1> USE DEF WaitInv, waitVars, mainVars
<1>1. TypeOK' /\ Shape' /\ Stray'
  BY DEF TypeOK, Shape, Stray, Waiting
<1> QED
  BY <1>1, BooksUntouched

\* What is proved below follows from the invariant of the reachable states.
LEMMA WaitReachable == Spec => []WaitInv
<1>1. WaitInv /\ [Next]_waitVars => WaitInv'
  BY SurroundingsStep, PollerStep, ExitStep, SkipStep, StartStep, GiveUpStep, TakeStep,
     CheckStep, WaitStutter
     DEF Next, NextItem
<1> QED
  BY InitWaitInv, <1>1, PTL DEF Spec

\* The variables keep their types: in particular a poller never reads the
\* predicate before an ID is set in it.
THEOREM WaitTypeCorrect == Spec => []TypeOK
<1>1. WaitInv => TypeOK
  BY DEF WaitInv
<1> QED
  BY <1>1, WaitReachable, PTL

\* What is written for an item was fetched for that item, whatever the pollers of
\* the waits before it still do with the predicate they share, and each of these
\* pollers sends at most one more request.
THEOREM StraysStayHarmless == Spec => []StraysAreHarmless
<1>1. WaitInv => StraysAreHarmless
  <2>1. WaitInv => OwnValues
    BY DEF WaitInv, Safe
  <2>2. WaitInv => OneStrayRequest
    BY DEF WaitInv, Stray, OneStrayRequest
  <2> QED
    BY <2>1, <2>2 DEF StraysAreHarmless
<1> QED
  BY <1>1, WaitReachable, PTL

\* An assertion fails only after all of its retries.
THEOREM RetriesAreMade == Spec => []AllRetriesMade
<1>1. WaitInv => AllRetriesMade
  BY DEF WaitInv, Safe
<1> QED
  BY <1>1, WaitReachable, PTL

\* A wait without an error has seen its object as wanted, for the commands whose
\* count has one limit.
THEOREM SuccessIsHonest ==
    ASSUME \A c \in Commands : OneLimit(c.predicate)
    PROVE  Spec => []HonestSuccess
<1>1. WaitInv => HonestSuccess
  BY DEF WaitInv, Safe, TypeOK
<1> QED
  BY <1>1, WaitReachable, PTL

\* No wait is started once the failures have reached --abortOnErrors.
THEOREM FailuresStayBounded == Spec => []FailuresBounded
<1>1. WaitInv => FailuresBounded
  BY DEF WaitInv, Tallied, Failed, FailuresBounded
<1> QED
  BY <1>1, WaitReachable, PTL

\* The exit code is 0 exactly if every item got what it waited for, or a failed
\* assertion is forgiven.
THEOREM FailuresAreReported == Spec => []NoSilentFailure
<1>1. WaitInv => NoSilentFailure
  <2> SUFFICES ASSUME WaitInv, pc = "done"
               PROVE  ProcessExitCode(lastErr) = ExitOK <=>
                        /\ \A i \in Item :
                              \/ outcome[i] = NoError
                              \/ /\ command.kind = "assertDevice" /\ ~command.strict
                                 /\ IsAssertion(outcome[i])
                        /\ item = Items
    BY DEF NoSilentFailure
  <2> USE DEF WaitInv
  <2>1. \A i \in Item : i \notin Failed /\ outcome[i] # Open <=>
            \/ outcome[i] = NoError
            \/ /\ command.kind = "assertDevice" /\ ~command.strict
               /\ IsAssertion(outcome[i])
    BY ErrorsDiffer DEF Failed, Counts, IsAssertion, Tried, Outcome
  <2>2. item = Items => \A i \in Item : outcome[i] # Open
    BY WaitAssumption DEF Tried, Waiting, Item, WaitAssumption
  <2>3. totalErrors = 0 <=> Failed = {}
    BY FailedFinite, FS_EmptySet DEF Tallied
  <2>4. (ProcessExitCode(lastErr) = ExitOK <=> totalErrors = 0 /\ item = Items)
    <3>1. item \in 0..Items /\ Items \in Nat /\ totalErrors \in Nat
      BY WaitAssumption DEF TypeOK, WaitAssumption
    <3> QED
      BY <3>1, ErrorsDiffer DEF Tallied
  <2>5. Failed = {} <=> \A i \in Item : i \notin Failed
    BY DEF Failed
  <2> QED
    BY <2>1, <2>2, <2>3, <2>4, <2>5
<1> QED
  BY <1>1, WaitReachable, PTL
=============================================================================
