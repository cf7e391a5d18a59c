----------------------------- MODULE Conditions -----------------------------
(***************************************************************************)
(* pkg/c8ywaiter: the conditions that the wait and assert commands poll    *)
(* for.  Each is a StateDefiner: Get fetches an object, Check says whether *)
(* it is the wanted one.                                                   *)
(***************************************************************************)
EXTENDS ErrorMapping, FiniteSets

ExitAssertionError == 112
ExitCancel         == 2
ExitError          == 100

\* cmderrors.NewAssertionError
AssertionError == Err("command", 0, ExitAssertionError)

\* errors.Is(err, cmderrors.ErrAssertion)
IsAssertion(err) == err = AssertionError

\* cmd.MainRun: the exit code of the process for the error of the command.
ProcessExitCode(err) ==
    CASE err.kind = "nil"       -> ExitOK
      [] err.kind = "command"   -> err.exit
      [] err.kind = "noMatches" -> ExitNotFound404
      [] OTHER                  -> ExitError

OperationStatus == {"PENDING", "EXECUTING", "SUCCESSFUL", "FAILED"}
FinalStatus == {"SUCCESSFUL", "FAILED"}

\* What the conditions look at: an operation's status, whether a managed
\* object exists, its fragments, and the number of its alarms (events,
\* measurements, operations).
Object == [status : OperationStatus, exists : BOOLEAN,
           fragments : SUBSET {"f", "g"}, count : Nat]

\* A predicate.  wanted and unwanted are the statuses, or the fragments without
\* and with the prefix "!"; invalid says that the last pattern of the fragments
\* has a value that is no regular expression; minimum and maximum are -1 if not
\* given.
Predicate == [kind : {"status", "fragments", "exists", "count"},
              wanted : SUBSET (OperationStatus \cup {"f", "g"}), unwanted : SUBSET {"f", "g"},
              invalid : BOOLEAN, negate : BOOLEAN, minimum : Int, maximum : Int]

\* The result of Check.
Checked(done, err) == [done |-> done, err |-> err]

\* Mutation: a condition that does not hold is no error.
NotYetSilently(done) == Checked(done, NoError)

NotYet(done) == Checked(done, IF done THEN NoError ELSE AssertionError)

\* OperationState.Check: a final status that is not wanted will not change.
CheckStatus(p, o) ==
    IF o.status \in p.wanted THEN Checked(TRUE, NoError)
    ELSE IF o.status \in FinalStatus THEN Checked(TRUE, OtherError)
    ELSE Checked(FALSE, NoError)

\* InventoryState.Check: every pattern has to hold, and an invalid one that is
\* reached ends the wait.
CheckFragments(p, o) ==
    LET holds == p.wanted \subseteq o.fragments /\ p.unwanted \cap o.fragments = {}
    IN  IF holds /\ p.invalid THEN Checked(TRUE, OtherError) ELSE NotYet(holds)

\* InventoryExistance.Check
CheckExists(p, o) == NotYet(o.exists # p.negate)

\* OperationCount.Check, AlarmCount.Check, ...: a maximum that is given
\* replaces what the minimum said.
CheckCount(p, o) ==
    NotYet(IF p.maximum > -1 THEN o.count <= p.maximum
           ELSE p.minimum > -1 /\ o.count >= p.minimum)

\* Check of the object that Get returned; the count is requested by Check
\* itself, from the object as it is now, and a failed request is no match.
Check(p, got, now, requestFails) ==
    CASE p.kind = "status"    -> CheckStatus(p, got)
      [] p.kind = "fragments" -> CheckFragments(p, got)
      [] p.kind = "exists"    -> CheckExists(p, got)
      [] OTHER -> IF requestFails THEN NotYet(FALSE) ELSE CheckCount(p, now)

-----------------------------------------------------------------------------
\* What the commands promise of the object when the condition is met.  For a
\* count with two limits this is the interval, which CheckCount does not test.
Satisfies(p, o) ==
    CASE p.kind = "status"    -> o.status \in p.wanted
      [] p.kind = "fragments" -> \A f \in p.wanted \cup p.unwanted :
                                     f \in o.fragments <=> f \in p.wanted
      [] p.kind = "exists"    -> o.exists <=> ~p.negate
      [] OTHER                -> /\ p.minimum > -1 => p.minimum <= o.count
                                 /\ p.maximum > -1 => o.count <= p.maximum
=============================================================================
