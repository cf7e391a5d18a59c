--------------------------- MODULE MCBatchWorker ----------------------------
(***************************************************************************)
(* Instances of BatchWorker for TLC.                                       *)
(***************************************************************************)
EXTENDS BatchWorker, TLC

CONSTANTS w1, w2

\* One error of each fate: a 404 (which the option sets silence or not), a
\* 500, a timeout without a response, and an error of no known type.
NotFound == NewServerError(404, FALSE)
ServerFailure == NewServerError(500, FALSE)
Timeout == NewServerError(0, TRUE)

Options(m, a, c, s, x) ==
    [maxJobs |-> m, abortOnErrors |-> a, confirm |-> c,
     silentStatusCodes |-> s, silentExit |-> x]

OneWorker == {w1}
TwoWorkers == {w1, w2}

Symmetry == Permutations(Workers)

\* Confirmed batches, with and without a job limit and an error threshold.
PromptOptions ==
    {Options(m, a, TRUE, {}, FALSE) : m \in {0, 2}, a \in {0, 1, 2}}

\* Unattended batches, also with silenced 404s.
UnattendedOptions ==
    {Options(m, a, FALSE, {}, FALSE) : m \in {0, 2}, a \in {0, 1, 2}}
        \cup {Options(m, 2, FALSE, {404}, TRUE) : m \in {0, 2}}

AllOptions == PromptOptions \cup UnattendedOptions

AllReplies == {"y", "a", "n", "l", "unrecognised"}

\* Long unattended batches that are aborted, or not, at the first error.
AbortOptions == {Options(0, a, FALSE, {}, FALSE) : a \in {0, 1}}

InputErrorSet == {NoMatches}
RequestErrorSet == {NotFound, OtherError}
=============================================================================
