----------------------------- MODULE Pagination -----------------------------
(***************************************************************************)
(* pkg/request: how RequestHandler.ProcessRequestAndResponse collects the  *)
(* pages of a collection (fetchAllResults, fetchAllInventoryQueryResults,  *)
(* optimizeManagedObjectsURL) while other clients create and delete items  *)
(* on the server.                                                          *)
(*                                                                         *)
(* An item is its id; the server gives a new item a greater id than every  *)
(* earlier one.  A page is the set of its items.                           *)
(***************************************************************************)
EXTENDS ErrorMapping, FiniteSets

CONSTANTS
    InitialItems,    \* the items on the server when the command starts: 1..InitialItems
    MaxItems,        \* bound on the ids the server gives
    MaxPages,        \* bound on the pages requested in a run
    ServerPageSize,  \* the size of the pages that the server returns
    PagingOptions    \* the option sets explored (see PagingOptionSet)

\* mode: "next" follows the next link, "byId" restarts an inventory query
\* behind the last id, "byIdUnmatched" would do so but the query does not have
\* the form that optimizeManagedObjectsURL rewrites.  pageSize is the one the
\* client knows of: 0 if it is the server's default.  serverResponse is
\* --output serverresponse.
PagingOptionSet ==
    [mode : {"next", "byId", "byIdUnmatched"}, includeAll : BOOLEAN, totalPages : Nat,
     pageSize : Nat, serverResponse : BOOLEAN]

ASSUME ItemsAssumption ==
    /\ InitialItems \in Nat /\ MaxItems \in Nat /\ InitialItems <= MaxItems
    /\ MaxPages \in Nat \ {0}
    /\ ServerPageSize \in Nat \ {0}

ASSUME PagingAssumption == PagingOptions \subseteq PagingOptionSet

Ids == 1..MaxItems

ExitSystemError == 100

\* cmderrors.NewSystemError
SystemError == Err("command", 0, ExitSystemError)

VARIABLES
    options,     \* the command's options, never written
    \* the server
    store,       \* the items that exist
    lastCreated, \* the greatest id given so far
    \* the client
    pc, currentPage,
    resp,        \* the last response: what it is, its items, its next link
    totalItems,  \* the unfiltered size of the last page, as ProcessResponse says
    err,         \* the error the handler returns
    \* history
    printed,     \* how often each item was written to the output
    failures     \* the pages whose request failed

serverVars == <<store, lastCreated>>
clientVars == <<pc, currentPage, resp, totalItems, err>>
pagingVars == <<options, serverVars, clientVars, printed, failures>>

-----------------------------------------------------------------------------
\* The server (external)

\* The first ServerPageSize items of a set, in the order of their ids.
FirstPageOf(items) ==
    {i \in items : Cardinality({k \in items : k <= i}) <= ServerPageSize}

\* The items of page p of the collection.
PageOf(p) ==
    {i \in store :
        LET rank == Cardinality({k \in store : k <= i})
        IN  (p - 1) * ServerPageSize < rank /\ rank <= p * ServerPageSize}

\* Mutation: the constraint lets the last item through again.
ItemsFrom(id) == IF options.mode = "byId" THEN {i \in store : i >= id} ELSE store

\* optimizeManagedObjectsURL: the query with _id gt '<id>', ordered by id; a
\* query that does not start with $filter= stays as it is.
ItemsBehind(id) == IF options.mode = "byId" THEN {i \in store : i > id} ELSE store

\* A response with items.  The link to the next page is there when there are
\* more items, and may be there when there are not.
Success(items, next) == [kind |-> "ok", items |-> items, next |-> next]
HttpError == [kind |-> "error", items |-> {}, next |-> FALSE]
NoResponse == [kind |-> "none", items |-> {}, next |-> FALSE]

Page(p) ==
    {Success(PageOf(p), next) :
        next \in IF PageOf(p + 1) = {} THEN BOOLEAN ELSE {TRUE}}

\* What the server or the network may answer to a request for these responses.
Answers(ok) == ok \cup {HttpError, NoResponse}

Create ==
    /\ pc # "done"
    /\ lastCreated < MaxItems
    /\ lastCreated' = lastCreated + 1
    /\ store' = store \cup {lastCreated'}
    /\ UNCHANGED <<options, clientVars, printed, failures>>

Delete ==
    /\ pc # "done"
    /\ \E i \in store : store' = store \ {i}
    /\ UNCHANGED <<options, lastCreated, clientVars, printed, failures>>

-----------------------------------------------------------------------------
\* The client

Paged == options.includeAll \/ options.totalPages > 0

\* ProcessResponse writes the page and returns its unfiltered size, but 0 if
\* it wrote the server's response as it came.
ItemCount(r) == IF options.serverResponse THEN 0 ELSE Cardinality(r.items)

Printed(r) == [i \in Ids |-> printed[i] + (IF i \in r.items THEN 1 ELSE 0)]

\* The responses to a request for page p, that is for the items behind id.
Responses(p, id) ==
    Answers(IF options.mode = "next" \/ ~Paged
            THEN Page(p) ELSE {Success(FirstPageOf(ItemsBehind(id)), FALSE)})

\* The first request.  With paging, the error of the request is not looked at:
\* an HTTP error is processed like a page, and only a missing response counts.
FirstPage ==
    /\ pc = "first"
    /\ \E r \in Responses(currentPage, 0) :
          /\ resp' = r
          /\ printed' = Printed(r)
          /\ totalItems' = ItemCount(r)
          /\ failures' = IF r.kind = "ok" THEN failures ELSE failures \cup {currentPage}
          /\ IF Paged
             THEN /\ pc' = IF r.kind = "none" THEN "done" ELSE "more"
                  /\ err' = IF r.kind = "none" THEN OtherError ELSE NoError
             ELSE /\ pc' = "done"
                  /\ err' = IF r.kind = "ok" THEN NoError
                            ELSE IF r.kind = "error" THEN NewServerError(500, FALSE)
                            ELSE NewServerError(0, TRUE)
    /\ UNCHANGED <<options, serverVars, currentPage>>

\* There is a page to ask for: the last one had items, and leads to it.
HasMore ==
    /\ totalItems # 0
    /\ resp.kind = "ok"
    /\ options.mode = "next" => resp.next

\* The loop ends before a request: the handler returns the last error.
NoMorePages ==
    /\ pc = "more"
    /\ ~HasMore
    /\ pc' = "done"
    /\ UNCHANGED <<options, serverVars, currentPage, resp, totalItems, err, printed, failures>>

\* Mutation: the last id stays what it was before the loop.
LastIDUnset == 0

\* Mutation: it is the id of the page's first item.
LastIDOfFirst == CHOOSE i \in resp.items : \A k \in resp.items : i <= k

LastID == CHOOSE i \in resp.items : \A k \in resp.items : k <= i

\* Mutation: a full page is taken for the last one.
LastPageFull(count, page) ==
    \/ count <= options.pageSize
    \/ options.totalPages # 0 /\ page >= options.totalPages

\* Mutation: the limit of pages is passed by one.
LastPageLate(count, page) ==
    \/ count < options.pageSize
    \/ options.totalPages # 0 /\ page > options.totalPages

\* The checks after a page: fewer items than the page size, or enough pages.
LastPage(count, page) ==
    \/ count < options.pageSize
    \/ options.totalPages # 0 /\ page >= options.totalPages

\* Mutation: a page that could not be read is skipped.
LaterErrorIgnored(r) == NoError

\* What the loop returns when a later page fails: ProcessResponse's error is
\* replaced by a system error, a missing response keeps the request's error.
LaterError(r) ==
    IF r.kind = "error" THEN SystemError
    ELSE IF r.kind = "none" THEN OtherError ELSE NoError

\* One more request and the processing of its response.
NextPage ==
    /\ pc = "more"
    /\ HasMore
    /\ currentPage < MaxPages
    /\ currentPage' = currentPage + 1
    /\ \E r \in Responses(currentPage', LastID) :
          /\ resp' = r
          /\ printed' = Printed(r)
          /\ totalItems' = ItemCount(r)
          /\ failures' = IF r.kind = "ok" THEN failures ELSE failures \cup {currentPage'}
          /\ err' = LaterError(r)
          /\ pc' = IF r.kind # "ok" \/ LastPage(totalItems', currentPage')
                   THEN "done" ELSE "more"
    /\ UNCHANGED <<options, serverVars>>

-----------------------------------------------------------------------------

Init ==
    /\ options \in PagingOptions
    /\ store = 1..InitialItems /\ lastCreated = InitialItems
    /\ pc = "first" /\ currentPage = 1
    /\ resp = NoResponse /\ totalItems = 0 /\ err = NoError
    /\ printed = [i \in Ids |-> 0] /\ failures = {}

ClientNext == FirstPage \/ NoMorePages \/ NextPage
ServerNext == Create \/ Delete

Next == ClientNext \/ ServerNext

\* Every request ends by its timeout; other clients need not do anything.
Spec == Init /\ [][Next]_pagingVars /\ WF_pagingVars(ClientNext)

-----------------------------------------------------------------------------
(***************************************************************************)
(* Properties                                                              *)
(***************************************************************************)

\* The items that existed all the time.
Stable == store \cap (1..InitialItems)

\* The type invariant.  A page never has more items than the server's pages.
TypeOK ==
    /\ options \in PagingOptions
    /\ lastCreated \in InitialItems..MaxItems /\ store \subseteq 1..lastCreated
    /\ pc \in {"first", "more", "done"} /\ currentPage \in 1..MaxPages
    /\ resp.kind \in {"ok", "error", "none"} /\ resp.items \subseteq 1..lastCreated
    /\ totalItems \in 0..ServerPageSize
    /\ err \in Error
    /\ printed \in [Ids -> Nat] /\ failures \subseteq 1..currentPage

\* An inventory query never writes an item twice, whatever is created and
\* deleted between its pages (request.go:523-536).
NoDuplicates == options.mode = "byId" => \A i \in Ids : printed[i] <= 1

\* No item that was there at the start was deleted.
NothingDeleted == 1..InitialItems \subseteq store

\* The options ask for every item, and the client's page size is possible.
ReadsEverything ==
    /\ options.includeAll /\ options.totalPages = 0
    /\ ~options.serverResponse /\ options.pageSize <= ServerPageSize

\* --includeAll without an error is complete: every item that existed all the
\* time was written.  An inventory query is so in spite of concurrent deletions;
\* the next links are if nothing was deleted (request.go:402-462, 517-584).
NothingSkipped ==
    /\ pc = "done" /\ failures = {} /\ ReadsEverything
    /\ options.mode = "byId" \/ (options.mode = "next" /\ NothingDeleted)
    => \A i \in Stable : printed[i] >= 1

\* --totalPages bounds the pages requested, but for the second page, which is
\* requested before the limit is looked at (request.go:402-456).
PagesBounded ==
    options.totalPages # 0 =>
        currentPage <= IF options.totalPages = 1 THEN 2 ELSE options.totalPages

\* A page after the first that could not be read makes the command fail, so an
\* incomplete listing is not taken for a complete one (request.go:433-445, 464).
LaterFailureReported ==
    pc = "done" /\ failures \ {1} # {} => err # NoError

\* Every item was asked for, and no page follows the last one.
Complete ==
    /\ ReadsEverything /\ failures = {}
    /\ pc = "done" \/ (pc = "more" /\ ~HasMore)

Promise == INSTANCE Listing WITH mode <- options.mode, written <- printed, complete <- Complete

\* The pages, links, limits and errors implement the abstract listing: whatever
\* is created and deleted between two pages, each page goes on right behind what
\* was written, in the order of the ids, and nothing that is owed is behind the
\* last one (request.go:402-462, 517-584).
ImplementsListing == Promise!Spec

-----------------------------------------------------------------------------

\* Strengthens ImplementsListing: the last page was written, and by next links,
\* too, the next page is behind everything written (deletions move items to
\* earlier pages, never to later ones) and right behind it as long as nothing
\* is deleted.
PlaceKept ==
    /\ pc = "more" => \A i \in resp.items : printed[i] > 0
    /\ pc = "first" => \A i \in Ids : printed[i] = 0
    /\ pc = "more" /\ options.mode = "next" =>
          /\ \A i \in Ids : printed[i] > 0 =>
                /\ i <= lastCreated
                /\ Cardinality({k \in store : k <= i}) <= currentPage * ServerPageSize
          /\ resp.kind = "ok" /\ NothingDeleted =>
                \A i \in 1..InitialItems :
                    i <= currentPage * ServerPageSize => printed[i] > 0

\* Strengthens NoDuplicates: an item that was written does not lie behind the
\* last item of the page that the next request starts from.
WrittenInOrder ==
    options.mode = "byId" =>
        /\ pc = "first" => \A i \in Ids : printed[i] = 0
        /\ \A i \in Ids : printed[i] \in {0, 1}
        /\ pc = "more" /\ totalItems # 0 =>
              \A i \in Ids : printed[i] = 1 => \E k \in resp.items : i <= k

\* Strengthens PagesBounded: before another request the limit is not reached.
LimitAhead ==
    /\ pc = "first" => currentPage = 1
    /\ pc = "more" => Paged
    /\ pc = "more" /\ options.totalPages # 0 =>
          currentPage = 1 \/ currentPage < options.totalPages

\* Strengthens LaterFailureReported: a failed page ends the loop.
FailureEndsLoop ==
    /\ pc = "first" => failures = {}
    /\ pc = "more" => failures \subseteq {1}

ItemTypes ==
    /\ options \in PagingOptions
    /\ currentPage \in Nat \ {0}
    /\ printed \in [Ids -> Nat]
    /\ lastCreated \in Nat
    /\ store \subseteq Ids /\ resp.items \subseteq Ids
    /\ resp.items = {} => totalItems = 0

\* The inductive invariant behind the theorems of PaginationProofs.
PInv ==
    /\ ItemTypes /\ WrittenInOrder /\ LimitAhead /\ FailureEndsLoop
    /\ PagesBounded /\ LaterFailureReported

\* Strengthens NothingSkipped: between two pages, what an inventory query has
\* written reaches without a gap up to the page's last item, and what the next
\* links have led to up to the end of the page; the end of the list is seen only
\* where nothing is left.
ListedWithoutGap ==
    pc = "more" /\ failures = {} /\ ReadsEverything =>
        /\ resp.kind = "ok" /\ totalItems = Cardinality(resp.items)
        /\ options.mode = "byId" =>
              \A i \in Stable :
                  resp.items = {} \/ (\E k \in resp.items : i <= k) => printed[i] >= 1
        /\ options.mode = "next" /\ NothingDeleted =>
              /\ \A i \in 1..InitialItems :
                    i <= currentPage * ServerPageSize => printed[i] >= 1
              /\ ~resp.next \/ resp.items = {} =>
                    InitialItems <= currentPage * ServerPageSize

\* Inductive together with PInv.
ListInv == TypeOK /\ ListedWithoutGap /\ NothingSkipped

-----------------------------------------------------------------------------

\* The command ends although the collection may grow while it is read.
Termination == <>(pc = "done")
=============================================================================
