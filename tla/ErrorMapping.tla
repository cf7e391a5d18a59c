---------------------------- MODULE ErrorMapping ----------------------------
(***************************************************************************)
(* How an error of one job becomes (or does not become) an entry in the    *)
(* batch's error list and an exit code of the process: pkg/cmderrors and   *)
(* Factory.CheckPostCommandError.  Only what decides the outcome is kept:  *)
(* the dynamic type of the error, its HTTP status and its exit code.       *)
(***************************************************************************)
EXTENDS Integers

\* The ExitCode constants the batch pipeline returns.
ExitOK                  == 0
ExitPanic               == 2    \* the Go runtime's own code for a panic
ExitUnknownError        == 99
ExitUserError           == 101
ExitAbortedWithErrors   == 103
ExitCompletedWithErrors == 104
ExitJobLimitExceeded    == 105
ExitTimeout             == 106
ExitNotFound404         == 4

\* httpStatusCodeToExitCode
HttpExitCode ==
    [s \in {400, 401, 403, 404, 405, 409, 413, 422, 429} \cup 500..508 |->
        CASE s = 400 -> 40
          [] s = 401 -> 1
          [] s \in {403, 404, 405, 409, 413, 422, 429} -> s - 400
          [] OTHER -> s - 450]

Kinds == {"nil", "command", "noMatches", "abortAction", "other"}

\* An error value: its dynamic type, and for a CommandError the fields that
\* are read again later (0 when the struct leaves them unset).
Error == [kind : Kinds, status : Nat, exit : Nat]

Err(k, s, x) == [kind |-> k, status |-> s, exit |-> x]

NoError      == Err("nil", 0, 0)
NoMatches    == Err("noMatches", 0, 0)      \* cmderrors.ErrNoMatchesFound
AbortAction  == Err("abortAction", 0, 0)    \* *prompt.ErrAbortAction
OtherError   == Err("other", 0, 0)          \* any error of another type

NewUserErrorWithExitCode(code) == Err("command", 0, code)

\* NewServerError: the exit code is the timeout's only if no mapped status
\* came back with the response (status 0 stands for a missing response).
NewServerError(status, deadlineExceeded) ==
    Err("command", status,
        IF status \in DOMAIN HttpExitCode THEN HttpExitCode[status]
        ELSE IF deadlineExceeded THEN ExitTimeout ELSE ExitUnknownError)

HasDigitZero(n) == n % 10 = 0 \/ (n \div 10) % 10 = 0

\* strings.Contains(silentStatusCodes, Sprintf("%d", status)) for a list of
\* three digit codes.  The status of an error that has none is printed "0",
\* and "0" occurs inside any listed code that has a zero digit.
IsSilentStatus(status, silentStatusCodes) ==
    \/ status \in silentStatusCodes
    \/ status = 0 /\ \E c \in silentStatusCodes : HasDigitZero(c)

\* CheckPostCommandError: the error that the batch counts, NoError if the
\* error is swallowed (silenced status together with --silentExit).
CheckPostCommandError(err, silentStatusCodes, silentExit) ==
    LET e == IF err.kind = "noMatches" THEN Err("command", 404, ExitNotFound404)
             ELSE err
    IN  IF e.kind # "command" THEN Err("command", 0, ExitUserError)
        ELSE IF ~IsSilentStatus(e.status, silentStatusCodes) THEN e
        ELSE IF silentExit THEN NoError ELSE e
=============================================================================
