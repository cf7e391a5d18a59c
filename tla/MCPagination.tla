---------------------------- MODULE MCPagination ----------------------------
(***************************************************************************)
(* Instances of Pagination for TLC.                                        *)
(***************************************************************************)
EXTENDS Pagination, TLC

Paging(m, a, t, s, r) ==
    [mode |-> m, includeAll |-> a, totalPages |-> t, pageSize |-> s, serverResponse |-> r]

\* Complete listings in both modes, the same with a limit of pages (the page
\* size is then 0 when it is the server's default), a listing of a client that
\* asks for more than the server gives, one with raw output, and a plain request.
Options ==
    {Paging(m, TRUE, 0, s, FALSE) : m \in {"next", "byId"}, s \in {2, 3}}
        \cup {Paging(m, FALSE, t, s, FALSE) :
                  m \in {"next", "byId"}, t \in {1, 2, 3}, s \in {0, 2}}
        \cup {Paging(m, TRUE, 0, 2, TRUE) : m \in {"next", "byId"}}
        \cup {Paging("next", FALSE, 0, 0, FALSE)}

IncludeAllOnly == {Paging("next", TRUE, 0, 2, FALSE)}

\* error-handling.md:17 says of exit code 0: "No error occurred".  With paging
\* the error of the first request is dropped and the command succeeds.
ZeroMeansNoError == pc = "done" /\ err = NoError => failures = {}
=============================================================================
