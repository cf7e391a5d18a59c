------------------------------- MODULE MCWait -------------------------------
(***************************************************************************)
(* Instances of Wait for TLC.                                              *)
(***************************************************************************)
EXTENDS Wait

Status(w) == [kind |-> "status", wanted |-> w, unwanted |-> {}, invalid |-> FALSE,
              negate |-> FALSE, minimum |-> -1, maximum |-> -1]
Fragments(w, u) == [Status(w) EXCEPT !.kind = "fragments", !.unwanted = u]
Exists(n) == [Status({}) EXCEPT !.kind = "exists", !.negate = n]
Count(lo, hi) == [Status({}) EXCEPT !.kind = "count", !.minimum = lo, !.maximum = hi]

Waits(p, t, a) == [kind |-> "wait", predicate |-> p, retries |-> -1, timeout |-> t,
                   strict |-> FALSE, abortOnErrors |-> a]
Asserts(k, p, r, s, a) == [kind |-> k, predicate |-> p, retries |-> r, timeout |-> TRUE,
                           strict |-> s, abortOnErrors |-> a]

\* The waits of the two wait commands, one of them with a negative duration,
\* and the assertions with and without retries and --strict, one with an invalid
\* pattern.
WaitCommands ==
    {Waits(Status({"SUCCESSFUL"}), TRUE, 1), Waits(Status({"EXECUTING", "FAILED"}), FALSE, 2)}

AssertCommands ==
    {Asserts("assert", Fragments({"f"}, {"g"}), 0, FALSE, 1),
     Asserts("assert", [Fragments({"f"}, {}) EXCEPT !.invalid = TRUE], 0, FALSE, 1),
     Asserts("assert", Exists(TRUE), 1, FALSE, 1),
     Asserts("assertDevice", Exists(FALSE), 0, TRUE, 2),
     Asserts("assertDevice", Count(1, -1), 1, FALSE, 2),
     Asserts("assertDevice", Count(-1, 0), 0, TRUE, 1)}

\* alarms assert count --minimum 1, for the first device of the input
OneCount == {Asserts("assertDevice", Count(1, -1), 0, FALSE, 1)}

\* alarms assert count --minimum 1 --maximum 2
BothLimits == {Asserts("assertDevice", Count(1, 2), 0, TRUE, 1)}

AllCommands == WaitCommands \cup AssertCommands
=============================================================================
