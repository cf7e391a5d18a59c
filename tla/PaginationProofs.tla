-------------------------- MODULE PaginationProofs --------------------------
(***************************************************************************)
(* Theorems about paging, for collections and pages of every size, every   *)
(* option, and any number of concurrent changes.                           *)
(***************************************************************************)
EXTENDS Pagination, FiniteSetTheorems, WellFoundedInduction, TLAPS

\* A set of ids that is not empty has a greatest one, which LastID chooses.
LEMMA GreatestId ==
    ASSUME NEW S, S \subseteq Ids, S # {}
    PROVE  \E m \in S : \A k \in S : k <= m
<1> DEFINE T == {MaxItems - i : i \in S}
<1>1. T \subseteq Nat /\ T # {}
  <2>1. \A i \in S : i \in Nat /\ MaxItems - i \in Nat
    BY ItemsAssumption DEF Ids
  <2>2. PICK i \in S : TRUE
    OBVIOUS
  <2>3. MaxItems - i \in T
    BY <2>2
  <2> QED
    BY <2>1, <2>3
<1>2. \E x \in T : \A y \in T : ~(<<y, x>> \in OpToRel(<, Nat))
  BY <1>1, NatLessThanWellFounded, WFMin
<1>3. PICK x \in T : \A y \in T : ~(<<y, x>> \in OpToRel(<, Nat))
  BY <1>2
<1>4. \A y \in T : ~(y < x)
  BY <1>1, <1>3 DEF OpToRel
<1>5. PICK m \in S : x = MaxItems - m
  BY <1>3
<1>6. \A k \in S : k <= m
  <2>1. SUFFICES ASSUME NEW k \in S PROVE k <= m
    OBVIOUS
  <2>2. ~(MaxItems - k < MaxItems - m)
    BY <1>4, <1>5
  <2> QED
    BY <2>2, ItemsAssumption DEF Ids
<1> QED
  BY <1>6

\* LastID is that greatest id.
LEMMA LastIDIsGreatest ==
    ASSUME resp.items \subseteq Ids, resp.items # {}
    PROVE  LastID \in resp.items /\ \A k \in resp.items : k <= LastID
BY GreatestId DEF LastID

\* An answer carries items of the store, and in the mode "byId" with paging
\* only items behind the given id.
LEMMA AnswerItems ==
    ASSUME NEW p, NEW id, NEW r \in Responses(p, id)
    PROVE  /\ r.items \subseteq store
           /\ options.mode = "byId" /\ Paged => \A i \in r.items : i > id
<1>1. CASE r = HttpError \/ r = NoResponse
  BY <1>1 DEF HttpError, NoResponse
<1>2. CASE options.mode = "next" \/ ~Paged
  <2>1. r = HttpError \/ r = NoResponse \/ r \in Page(p)
    BY <1>2 DEF Responses, Answers
  <2>2. r \in Page(p) => r.items = PageOf(p)
    <3>1. SUFFICES ASSUME r \in Page(p) PROVE r.items = PageOf(p)
      OBVIOUS
    <3>2. \E next : r = Success(PageOf(p), next)
      BY <3>1, Zenon DEF Page
    <3> QED
      BY <3>2 DEF Success
  <2>3. PageOf(p) \subseteq store
    BY DEF PageOf
  <2> QED
    BY <1>1, <1>2, <2>1, <2>2, <2>3
<1>3. CASE ~(options.mode = "next" \/ ~Paged) /\ r \notin {HttpError, NoResponse}
  <2>1. r = Success(FirstPageOf(ItemsBehind(id)), FALSE)
    BY <1>3 DEF Responses, Answers
  <2>2. r.items \subseteq ItemsBehind(id)
    BY <2>1 DEF Success, FirstPageOf
  <2> QED
    BY <2>2 DEF ItemsBehind
<1> QED
  BY <1>1, <1>2, <1>3

\* An answer is a page, an error, or there is none.
LEMMA AnswerKinds ==
    ASSUME NEW p, NEW id, NEW r \in Responses(p, id)
    PROVE  r.kind \in {"ok", "error", "none"}
<1>1. \A q \in Page(p) : \E next : q = Success(PageOf(p), next)
  BY Zenon DEF Page
<1>2. \/ r \in {HttpError, NoResponse}
      \/ \E items, next : r = Success(items, next)
  BY <1>1 DEF Responses, Answers
<1> QED
  BY <1>2 DEF Success, HttpError, NoResponse

\* A page that counts items has items.
LEMMA EmptyPageCountsNothing ==
    ASSUME NEW r, r.items = {}
    PROVE  ItemCount(r) = 0
BY FS_EmptySet DEF ItemCount

LEMMA InitPInv == Init => PInv
<1> SUFFICES ASSUME Init PROVE PInv
  OBVIOUS
<1>1. ItemTypes
  BY ItemsAssumption DEF Init, ItemTypes, Ids, NoResponse
<1>2. WrittenInOrder
  BY DEF Init, WrittenInOrder
<1>3. LimitAhead /\ FailureEndsLoop /\ PagesBounded /\ LaterFailureReported
  BY PagingAssumption DEF Init, LimitAhead, FailureEndsLoop, PagesBounded,
     LaterFailureReported, PagingOptionSet
<1> QED
  BY <1>1, <1>2, <1>3 DEF PInv

\* The first request keeps the invariant.
LEMMA FirstPageStep ==
    ASSUME PInv, FirstPage
    PROVE  PInv'
<1>1. PICK r \in Responses(currentPage, 0) :
        /\ resp' = r /\ printed' = Printed(r) /\ totalItems' = ItemCount(r)
        /\ failures' = IF r.kind = "ok" THEN failures ELSE failures \cup {currentPage}
        /\ pc' \in {"more", "done"}
        /\ pc' = "more" => Paged
  BY DEF FirstPage
<1>2. r.items \subseteq Ids
  BY AnswerItems DEF PInv, ItemTypes
<1>3. UNCHANGED <<options, store, lastCreated, currentPage>> /\ pc = "first"
  BY DEF FirstPage, serverVars
<1>4. ItemTypes'
  BY <1>1, <1>2, <1>3, EmptyPageCountsNothing DEF PInv, ItemTypes, Printed
<1>5. WrittenInOrder'
  <2>1. SUFFICES ASSUME options.mode = "byId" PROVE WrittenInOrder'
    BY <1>3 DEF WrittenInOrder
  <2>2. \A i \in Ids : printed[i] = 0
    BY <1>3, <2>1 DEF PInv, WrittenInOrder
  <2>3. \A i \in Ids : printed'[i] = IF i \in r.items THEN 1 ELSE 0
    BY <1>1, <2>2 DEF Printed
  <2>4. \A i \in Ids : i <= i
    BY ItemsAssumption DEF Ids
  <2> QED
    BY <1>1, <2>3, <2>4 DEF WrittenInOrder
<1>6. LimitAhead' /\ PagesBounded'
  <2>1. options.totalPages \in Nat /\ options' = options /\ currentPage' = 1
    BY <1>3, PagingAssumption DEF PInv, ItemTypes, PagingOptionSet, LimitAhead
  <2> QED
    BY <1>1, <2>1 DEF LimitAhead, PagesBounded, Paged
<1>7. FailureEndsLoop' /\ LaterFailureReported'
  BY <1>1, <1>3 DEF PInv, FailureEndsLoop, LaterFailureReported, LimitAhead
<1> QED
  BY <1>4, <1>5, <1>6, <1>7 DEF PInv

\* Every later request keeps the invariant.
LEMMA NextPageStep ==
    ASSUME PInv, NextPage
    PROVE  PInv'
<1>1. PICK r \in Responses(currentPage', LastID) :
        /\ resp' = r /\ printed' = Printed(r) /\ totalItems' = ItemCount(r)
        /\ failures' = IF r.kind = "ok" THEN failures ELSE failures \cup {currentPage'}
        /\ err' = LaterError(r)
        /\ pc' = IF r.kind # "ok" \/ LastPage(totalItems', currentPage')
                 THEN "done" ELSE "more"
  BY DEF NextPage
<1>2. r.items \subseteq Ids
  BY AnswerItems DEF PInv, ItemTypes
<1>3. /\ UNCHANGED <<options, store, lastCreated>> /\ pc = "more"
      /\ currentPage' = currentPage + 1 /\ totalItems # 0
  BY DEF NextPage, HasMore, serverVars
<1>4. ItemTypes'
  BY <1>1, <1>2, <1>3, EmptyPageCountsNothing DEF PInv, ItemTypes, Printed
<1>5. WrittenInOrder'
  <2>1. SUFFICES ASSUME options.mode = "byId" PROVE WrittenInOrder'
    BY <1>3 DEF WrittenInOrder
  <2>2. Paged
    BY <1>3 DEF PInv, LimitAhead
  <2>3. \A i \in r.items : i > LastID
    BY <2>1, <2>2, AnswerItems
  <2>4. resp.items # {} /\ resp.items \subseteq Ids
    BY <1>3 DEF PInv, ItemTypes
  <2>5. \A i \in Ids : printed[i] = 1 => i <= LastID
    BY <1>3, <2>1, <2>4, LastIDIsGreatest DEF PInv, WrittenInOrder, Ids
  <2>6. \A i \in Ids : i \in r.items => printed[i] = 0
    <3>1. \A i \in Ids : printed[i] \in {0, 1}
      BY <2>1 DEF PInv, WrittenInOrder
    <3>2. LastID \in Ids
      BY <2>4, LastIDIsGreatest
    <3> QED
      BY <2>3, <2>5, <3>1, <3>2 DEF Ids
  <2>7. \A i \in Ids : printed'[i] = IF i \in r.items THEN 1 ELSE printed[i]
    BY <1>1, <2>6 DEF Printed, PInv, ItemTypes
  <2>8. \A i \in Ids : printed[i] \in {0, 1}
    BY <2>1 DEF PInv, WrittenInOrder
  <2>9. \A i \in Ids : printed'[i] \in {0, 1}
    BY <2>7, <2>8
  <2>10. totalItems' # 0 => \A i \in Ids : printed'[i] = 1 => \E k \in r.items : i <= k
    <3>1. SUFFICES ASSUME totalItems' # 0, NEW i \in Ids, printed'[i] = 1
                   PROVE  \E k \in r.items : i <= k
      OBVIOUS
    <3>2. PICK k \in r.items : TRUE
      BY <1>4, <3>1, <1>1 DEF ItemTypes
    <3>3. CASE i \in r.items
      BY <3>3 DEF Ids
    <3>4. CASE i \notin r.items
      <4>1. i <= LastID /\ k > LastID /\ k \in Ids /\ LastID \in Ids
        BY <1>2, <2>3, <2>4, <2>5, <2>7, <3>1, <3>2, <3>4, LastIDIsGreatest
      <4> QED
        BY <4>1, <3>2 DEF Ids
    <3> QED
      BY <3>3, <3>4
  <2> QED
    BY <1>1, <2>9, <2>10 DEF WrittenInOrder
<1>6. LimitAhead' /\ PagesBounded'
  <2>1. options.totalPages \in Nat /\ options' = options
    BY <1>3, PagingAssumption DEF PInv, ItemTypes, PagingOptionSet
  <2>2. Paged' <=> Paged
    BY <2>1 DEF Paged
  <2>3. Paged /\ (options.totalPages # 0 =>
                     currentPage = 1 \/ currentPage < options.totalPages)
    BY <1>3 DEF PInv, LimitAhead
  <2>4. currentPage \in Nat \ {0} /\ currentPage' = currentPage + 1
    BY <1>3 DEF PInv, ItemTypes
  <2>5. PagesBounded'
    BY <2>1, <2>3, <2>4 DEF PagesBounded
  <2>6. pc' # "first"
    BY <1>1
  <2>7. pc' = "more" /\ options.totalPages # 0 => ~(currentPage' >= options.totalPages)
    BY <1>1, <2>1 DEF LastPage
  <2>8. LimitAhead'
    BY <2>1, <2>2, <2>3, <2>4, <2>6, <2>7 DEF LimitAhead
  <2> QED
    BY <2>5, <2>8
<1>7. FailureEndsLoop' /\ LaterFailureReported'
  <2>1. failures \subseteq {1} /\ pc' \in {"more", "done"}
    BY <1>1, <1>3 DEF PInv, FailureEndsLoop
  <2>2. CASE r.kind = "ok"
    BY <1>1, <2>1, <2>2 DEF FailureEndsLoop, LaterFailureReported
  <2>3. CASE r.kind # "ok"
    <3>1. r.kind \in {"error", "none"}
      BY <2>3, AnswerKinds
    <3>2. err' # NoError
      BY <1>1, <3>1 DEF LaterError, SystemError, OtherError, NoError, Err
    <3> QED
      BY <1>1, <2>3, <3>2 DEF FailureEndsLoop, LaterFailureReported
  <2> QED
    BY <2>2, <2>3
<1> QED
  BY <1>4, <1>5, <1>6, <1>7 DEF PInv

\* The other steps do not write, request or fail.
LEMMA OtherSteps ==
    ASSUME PInv, NoMorePages \/ ServerNext \/ UNCHANGED pagingVars
    PROVE  PInv'
<1>1. UNCHANGED <<options, currentPage, resp, totalItems, err, printed, failures>>
  BY DEF NoMorePages, ServerNext, Create, Delete, pagingVars, clientVars, serverVars
<1>2. pc' = pc \/ (pc = "more" /\ pc' = "done")
  BY DEF NoMorePages, ServerNext, Create, Delete, pagingVars, clientVars, serverVars
<1>3. lastCreated' \in Nat /\ store' \subseteq Ids
  <2>1. CASE Create
    <3>1. lastCreated' \in Nat /\ lastCreated' \in 1..MaxItems
      BY <2>1, ItemsAssumption DEF Create, PInv, ItemTypes
    <3> QED
      BY <2>1, <3>1 DEF Create, PInv, ItemTypes, Ids
  <2>2. CASE Delete
    BY <2>2 DEF Delete, PInv, ItemTypes
  <2>3. CASE UNCHANGED serverVars
    BY <2>3 DEF serverVars, PInv, ItemTypes
  <2> QED
    BY <2>1, <2>2, <2>3 DEF NoMorePages, ServerNext, pagingVars
<1>4. ItemTypes'
  BY <1>1, <1>3 DEF PInv, ItemTypes
<1>5. WrittenInOrder'
  BY <1>1, <1>2 DEF PInv, WrittenInOrder
<1>6. LimitAhead' /\ PagesBounded'
  BY <1>1, <1>2 DEF PInv, LimitAhead, PagesBounded, Paged
<1>7. FailureEndsLoop' /\ LaterFailureReported'
  BY <1>1, <1>2 DEF PInv, FailureEndsLoop, LaterFailureReported
<1> QED
  BY <1>4, <1>5, <1>6, <1>7 DEF PInv

LEMMA PagingInvariant == Spec => []PInv
<1>1. PInv /\ [Next]_pagingVars => PInv'
  BY FirstPageStep, NextPageStep, OtherSteps DEF Next, ClientNext, ServerNext
<1> QED
  BY <1>1, InitPInv, PTL DEF Spec

\* An inventory query never writes an item twice, whatever other clients create
\* and delete between its pages and however many items and pages there are:
\* every page starts behind the last id of the page before (request.go:517-584).
THEOREM InventoryWithoutDuplicates == Spec => []NoDuplicates
<1>1. PInv => NoDuplicates
  BY DEF PInv, WrittenInOrder, NoDuplicates
<1> QED
  BY <1>1, PagingInvariant, PTL

\* --totalPages n requests at most n pages, two if n is 1 (request.go:402-456).
THEOREM LimitOfPages == Spec => []PagesBounded
<1>1. PInv => PagesBounded
  BY DEF PInv
<1> QED
  BY <1>1, PagingInvariant, PTL

\* A page after the first that could not be read always makes the command fail
\* (request.go:433-445, 464).
THEOREM LaterFailures == Spec => []LaterFailureReported
<1>1. PInv => LaterFailureReported
  BY DEF PInv
<1> QED
  BY <1>1, PagingInvariant, PTL

-----------------------------------------------------------------------------
\* Pages as sets of ids: their size, and what they cannot leave out.

LEMMA LeastId ==
    ASSUME NEW S, S \subseteq Ids, S # {}
    PROVE  \E m \in S : \A k \in S : m <= k
<1>1. S \subseteq Nat
  BY ItemsAssumption DEF Ids
<1>2. \E m \in S : \A k \in S : ~(<<k, m>> \in OpToRel(<, Nat))
  BY <1>1, NatLessThanWellFounded, WFMin
<1>3. PICK m \in S : \A k \in S : ~(<<k, m>> \in OpToRel(<, Nat))
  BY <1>2
<1>4. \A k \in S : ~(k < m)
  BY <1>1, <1>3 DEF OpToRel
<1> QED
  BY <1>1, <1>4

LEMMA FiniteIds ==
    ASSUME NEW S, S \subseteq Ids
    PROVE  IsFiniteSet(S) /\ Cardinality(S) \in Nat
<1>1. IsFiniteSet(Ids)
  BY FS_Interval, ItemsAssumption DEF Ids
<1>2. IsFiniteSet(S)
  BY <1>1, FS_Subset
<1> QED
  BY <1>2, FS_CardinalityType

\* The first page behind an id has no more items than a page may have.
LEMMA FirstPageSize ==
    ASSUME NEW S, S \subseteq Ids
    PROVE  Cardinality(FirstPageOf(S)) <= ServerPageSize
<1> DEFINE page == FirstPageOf(S)
<1>1. page \subseteq S
  BY DEF FirstPageOf
<1>2. CASE page = {}
  BY <1>2, FS_EmptySet, ItemsAssumption
<1>3. CASE page # {}
  <2>1. PICK m \in page : \A k \in page : k <= m
    BY <1>1, <1>3, GreatestId
  <2> DEFINE upTo == {k \in S : k <= m}
  <2>2. Cardinality(upTo) <= ServerPageSize
    BY <2>1 DEF FirstPageOf
  <2>3. page \subseteq upTo /\ upTo \subseteq Ids
    BY <1>1, <2>1
  <2>4. Cardinality(page) <= Cardinality(upTo)
    BY <2>3, FiniteIds, FS_Subset
  <2>5. Cardinality(page) \in Nat /\ Cardinality(upTo) \in Nat
    BY <1>1, <2>3, FiniteIds
  <2> QED
    BY <2>2, <2>4, <2>5, ItemsAssumption
<1> QED
  BY <1>2, <1>3

\* It has no gaps.
LEMMA FirstPageClosed ==
    ASSUME NEW S, S \subseteq Ids, NEW k \in FirstPageOf(S), NEW i \in S, i <= k
    PROVE  i \in FirstPageOf(S)
<1> DEFINE upTo(n) == {j \in S : j <= n}
<1>1. k \in S /\ Cardinality(upTo(k)) <= ServerPageSize
  BY DEF FirstPageOf
<1>2. upTo(i) \subseteq upTo(k) /\ upTo(k) \subseteq Ids /\ upTo(i) \subseteq Ids
  <2>1. S \subseteq Int
    BY ItemsAssumption DEF Ids
  <2>2. i \in Int /\ k \in Int
    BY <1>1, <2>1
  <2>3. \A j \in S : j <= i => j <= k
    BY <2>1, <2>2
  <2> QED
    BY <2>3
<1>3. Cardinality(upTo(i)) <= Cardinality(upTo(k))
  BY <1>2, FiniteIds, FS_Subset
<1>4. Cardinality(upTo(i)) \in Nat /\ Cardinality(upTo(k)) \in Nat
  BY <1>2, FiniteIds
<1>5. Cardinality(upTo(i)) <= ServerPageSize
  BY <1>1, <1>3, <1>4, ItemsAssumption
<1> QED
  BY <1>5 DEF FirstPageOf

\* If it is not full, it has everything.
LEMMA FirstPageShort ==
    ASSUME NEW S, S \subseteq Ids, Cardinality(FirstPageOf(S)) < ServerPageSize
    PROVE  S = FirstPageOf(S)
<1> DEFINE page == FirstPageOf(S)
<1>1. page \subseteq S
  BY DEF FirstPageOf
<1>2. SUFFICES ASSUME S \ page # {} PROVE FALSE
  BY <1>1
<1>3. PICK i \in S \ page : \A k \in S \ page : i <= k
  BY <1>2, LeastId
<1> DEFINE upTo == {k \in S : k <= i}
<1>4. upTo \subseteq Ids /\ i \in upTo /\ i \in S
  BY <1>3, ItemsAssumption DEF Ids
<1>5. ~(Cardinality(upTo) <= ServerPageSize)
  BY <1>3, <1>4 DEF FirstPageOf
<1>6. upTo \ {i} \subseteq page
  <2>1. SUFFICES ASSUME NEW k \in upTo \ {i}, k \notin page PROVE FALSE
    OBVIOUS
  <2>2. k \in Int /\ i \in Int
    BY ItemsAssumption DEF Ids
  <2>3. i <= k /\ k <= i /\ k # i
    BY <1>3, <2>1
  <2> QED
    BY <2>2, <2>3
<1>7. Cardinality(upTo \ {i}) = Cardinality(upTo) - 1
  BY <1>4, FiniteIds, FS_RemoveElement
<1>8. Cardinality(upTo \ {i}) <= Cardinality(page)
  BY <1>1, <1>6, FiniteIds, FS_Subset
<1>9. Cardinality(upTo) \in Nat /\ Cardinality(page) \in Nat
  BY <1>1, <1>4, FiniteIds
<1> QED
  BY <1>5, <1>7, <1>8, <1>9, ItemsAssumption

\* The ranks of a page.
LEMMA PageProduct ==
    ASSUME NEW p \in Nat \ {0}
    PROVE  /\ p * ServerPageSize \in Nat
           /\ (p - 1) * ServerPageSize = p * ServerPageSize - ServerPageSize
           /\ (p - 1) * ServerPageSize \in Nat
           /\ (p + 1) * ServerPageSize = p * ServerPageSize + ServerPageSize
BY ItemsAssumption

LEMMA PageSize ==
    ASSUME store \subseteq Ids, NEW p \in Nat \ {0}
    PROVE  Cardinality(PageOf(p)) <= ServerPageSize
<1> DEFINE page == PageOf(p)
           upTo(n) == {k \in store : k <= n}
<1>1. page \subseteq store
  BY DEF PageOf
<1>2. CASE page = {}
  BY <1>2, FS_EmptySet, ItemsAssumption
<1>3. CASE page # {}
  <2>1. PICK m \in page : \A k \in page : k <= m
    BY <1>1, <1>3, GreatestId
  <2>2. PICK a \in page : \A k \in page : a <= k
    BY <1>1, <1>3, LeastId
  <2> DEFINE before == upTo(a) \ {a}
  <2>3. Cardinality(upTo(m)) <= p * ServerPageSize
    BY <2>1 DEF PageOf
  <2>4. (p - 1) * ServerPageSize < Cardinality(upTo(a))
    BY <2>2 DEF PageOf
  <2>5. /\ upTo(a) \subseteq Ids /\ upTo(m) \subseteq Ids /\ before \subseteq Ids
        /\ a \in upTo(a) /\ page \subseteq Ids
    BY <1>1, <2>2, ItemsAssumption DEF Ids
  <2>6. before \cup page \subseteq upTo(m) /\ before \cap page = {}
    BY <1>1, <2>1, <2>2, <2>5, ItemsAssumption DEF Ids
  <2>7. Cardinality(before) = Cardinality(upTo(a)) - 1
    BY <2>5, FiniteIds, FS_RemoveElement
  <2>8. Cardinality(before \cup page) = Cardinality(before) + Cardinality(page)
    <3>1. /\ Cardinality(before \cap page) = 0
          /\ Cardinality(before) \in Nat /\ Cardinality(page) \in Nat
      BY <2>5, <2>6, FS_EmptySet, FiniteIds
    <3>2. Cardinality(before \cup page) =
             Cardinality(before) + Cardinality(page) - Cardinality(before \cap page)
      BY <2>5, FiniteIds, FS_Union
    <3> QED
      BY <3>1, <3>2
  <2>9. Cardinality(before \cup page) <= Cardinality(upTo(m))
    BY <2>5, <2>6, FiniteIds, FS_Subset
  <2>10. /\ Cardinality(page) \in Nat /\ Cardinality(upTo(a)) \in Nat
         /\ Cardinality(upTo(m)) \in Nat
    BY <2>5, FiniteIds
  <2> QED
    BY <2>3, <2>4, <2>7, <2>8, <2>9, <2>10, PageProduct, ItemsAssumption
<1> QED
  BY <1>2, <1>3

\* As long as nothing is deleted, the items that were there at the start keep
\* their ranks, and page p holds its share of them.
LEMMA PageHolds ==
    ASSUME store \subseteq Ids, NothingDeleted, NEW p \in Nat \ {0},
           NEW i \in 1..InitialItems,
           (p - 1) * ServerPageSize < i, i <= p * ServerPageSize
    PROVE  i \in PageOf(p)
<1>1. {k \in store : k <= i} = 1..i
  <2>1. \A k \in store : k <= i => k \in 1..i
    BY ItemsAssumption DEF Ids
  <2>2. \A k \in 1..i : k \in store /\ k <= i
    BY ItemsAssumption DEF NothingDeleted
  <2> QED
    BY <2>1, <2>2
<1>2. Cardinality(1..i) = i
  BY FS_Interval, ItemsAssumption
<1>3. i \in store
  BY DEF NothingDeleted
<1> QED
  BY <1>1, <1>2, <1>3 DEF PageOf

\* Where no page follows, or the page is not full, nothing is left.
LEMMA PageShort ==
    ASSUME store \subseteq Ids, NothingDeleted, NEW p \in Nat \ {0},
           PageOf(p + 1) = {} \/ Cardinality(PageOf(p)) < ServerPageSize
    PROVE  InitialItems <= p * ServerPageSize
<1> DEFINE last == p * ServerPageSize
<1>1. SUFFICES ASSUME ~(InitialItems <= last) PROVE FALSE
  OBVIOUS
<1>2. last \in Nat /\ (p - 1) * ServerPageSize = last - ServerPageSize
      /\ last - ServerPageSize \in Nat
      /\ (p + 1) * ServerPageSize = last + ServerPageSize
  BY PageProduct
<1> HIDE DEF last
<1>3. CASE PageOf(p + 1) = {}
  <2>1. last + 1 \in 1..InitialItems
    BY <1>1, <1>2, ItemsAssumption
  <2>2. p + 1 \in Nat \ {0} /\ ((p + 1) - 1) * ServerPageSize = last
    BY DEF last
  <2>3. last < last + 1 /\ last + 1 <= (p + 1) * ServerPageSize
    BY <1>2, ItemsAssumption
  <2>4. last + 1 \in PageOf(p + 1)
    BY <2>1, <2>2, <2>3, PageHolds
  <2> QED
    BY <1>3, <2>4
<1>4. CASE Cardinality(PageOf(p)) < ServerPageSize
  <2> DEFINE share == (last - ServerPageSize + 1)..last
  <2>1. share \subseteq PageOf(p)
    <3>1. SUFFICES ASSUME NEW i \in share PROVE i \in PageOf(p)
      OBVIOUS
    <3>2. i \in 1..InitialItems
      BY <1>1, <1>2, ItemsAssumption
    <3>3. (p - 1) * ServerPageSize < i /\ i <= p * ServerPageSize
      BY <1>2, ItemsAssumption DEF last
    <3> QED
      BY <3>2, <3>3, PageHolds
  <2>2. Cardinality(share) = ServerPageSize
    BY <1>2, FS_Interval, ItemsAssumption
  <2>3. PageOf(p) \subseteq Ids
    BY DEF PageOf
  <2>4. Cardinality(share) <= Cardinality(PageOf(p))
    BY <2>1, <2>3, FiniteIds, FS_Subset
  <2>5. Cardinality(PageOf(p)) \in Nat
    BY <2>3, FiniteIds
  <2> QED
    BY <1>4, <2>2, <2>4, <2>5, ItemsAssumption
<1> QED
  BY <1>3, <1>4

-----------------------------------------------------------------------------
\* The answers

LEMMA OtherAnswersEmpty ==
    ASSUME NEW p, NEW id, NEW r \in Responses(p, id), r.kind # "ok"
    PROVE  r.items = {}
<1>1. \A q \in Page(p) : \E next : q = Success(PageOf(p), next)
  BY Zenon DEF Page
<1>2. \/ r \in {HttpError, NoResponse}
      \/ \E items, next : r = Success(items, next)
  BY <1>1 DEF Responses, Answers
<1> QED
  BY <1>2 DEF Success, HttpError, NoResponse

LEMMA PageAnswer ==
    ASSUME NEW p, NEW id, NEW r \in Responses(p, id), r.kind = "ok",
           options.mode = "next" \/ ~Paged
    PROVE  r.items = PageOf(p) /\ (~r.next => PageOf(p + 1) = {})
<1>1. r \in Page(p)
  <2>1. r # HttpError /\ r # NoResponse
    BY DEF HttpError, NoResponse
  <2>2. r = HttpError \/ r = NoResponse \/ r \in Page(p)
    BY DEF Responses, Answers
  <2> QED
    BY <2>1, <2>2
<1>2. PICK next \in (IF PageOf(p + 1) = {} THEN BOOLEAN ELSE {TRUE}) :
        r = Success(PageOf(p), next)
  BY <1>1, Zenon DEF Page
<1>3. r.items = PageOf(p) /\ r.next = next
  BY <1>2 DEF Success
<1> QED
  BY <1>2, <1>3

LEMMA QueryAnswer ==
    ASSUME NEW p, NEW id, NEW r \in Responses(p, id), r.kind = "ok",
           options.mode # "next", Paged
    PROVE  r.items = FirstPageOf(ItemsBehind(id))
BY DEF Responses, Answers, HttpError, NoResponse, Success

\* No page is greater than the server's pages.
LEMMA AnswerSize ==
    ASSUME store \subseteq Ids, NEW p \in Nat \ {0}, NEW id, NEW r \in Responses(p, id)
    PROVE  ItemCount(r) \in 0..ServerPageSize
<1>1. r.items \subseteq Ids
  BY AnswerItems
<1>2. Cardinality(r.items) \in Nat
  BY <1>1, FiniteIds
<1>3. Cardinality(r.items) <= ServerPageSize
  <2>1. CASE r.kind # "ok"
    BY <2>1, OtherAnswersEmpty, FS_EmptySet, ItemsAssumption
  <2>2. CASE r.kind = "ok" /\ (options.mode = "next" \/ ~Paged)
    BY <2>2, PageAnswer, PageSize
  <2>3. CASE r.kind = "ok" /\ options.mode # "next" /\ Paged
    <3>1. ItemsBehind(id) \subseteq Ids
      BY DEF ItemsBehind
    <3> QED
      BY <2>3, <3>1, QueryAnswer, FirstPageSize
  <2> QED
    BY <2>1, <2>2, <2>3
<1> QED
  BY <1>2, <1>3, ItemsAssumption DEF ItemCount

\* An inventory query misses nothing behind its id up to the end of the page,
\* and nothing at all with a page that is not full.
LEMMA QueryCovers ==
    ASSUME store \subseteq Ids, options.mode = "byId", Paged,
           NEW p, NEW id, NEW r \in Responses(p, id), r.kind = "ok",
           NEW i \in store, i > id,
           Cardinality(r.items) < ServerPageSize \/ \E k \in r.items : i <= k
    PROVE  i \in r.items
<1>1. r.items = FirstPageOf(ItemsBehind(id))
  BY QueryAnswer
<1>2. i \in ItemsBehind(id) /\ ItemsBehind(id) \subseteq Ids
  BY DEF ItemsBehind
<1>3. CASE Cardinality(r.items) < ServerPageSize
  BY <1>1, <1>2, <1>3, FirstPageShort
<1>4. CASE \E k \in r.items : i <= k
  <2>1. PICK k \in FirstPageOf(ItemsBehind(id)) : i <= k
    BY <1>1, <1>4
  <2> QED
    BY <1>1, <1>2, <2>1, FirstPageClosed
<1> QED
  BY <1>3, <1>4

\* The next links lead to the items in their order.
LEMMA PageCovers ==
    ASSUME store \subseteq Ids, options.mode = "next", NothingDeleted,
           NEW p \in Nat \ {0}, NEW id, NEW r \in Responses(p, id), r.kind = "ok"
    PROVE  /\ \A i \in 1..InitialItems :
                 (p - 1) * ServerPageSize < i /\ i <= p * ServerPageSize => i \in r.items
           /\ ~r.next \/ Cardinality(r.items) < ServerPageSize =>
                 InitialItems <= p * ServerPageSize
<1>1. r.items = PageOf(p) /\ (~r.next => PageOf(p + 1) = {})
  BY PageAnswer
<1> QED
  BY <1>1, PageHolds, PageShort

-----------------------------------------------------------------------------
\* The types

LEMMA InitTypeOK == Init => TypeOK
BY ItemsAssumption DEF Init, TypeOK, Ids, NoResponse, NoError, Err, Error, Kinds

LEMMA ErrorValues ==
    /\ NoError \in Error /\ OtherError \in Error /\ SystemError \in Error
    /\ NewServerError(500, FALSE) \in Error /\ NewServerError(0, TRUE) \in Error
BY DEF NoError, OtherError, SystemError, NewServerError, Err, Error, Kinds,
       ExitSystemError, HttpExitCode, ExitTimeout, ExitUnknownError

\* A request keeps the types.
LEMMA RequestTypes ==
    ASSUME TypeOK, options' = options, UNCHANGED serverVars, pc' \in {"more", "done"},
           currentPage' \in 1..MaxPages, currentPage <= currentPage', err' \in Error,
           NEW id, NEW r \in Responses(currentPage', id),
           resp' = r, printed' = Printed(r), totalItems' = ItemCount(r),
           failures' \in {failures, failures \cup {currentPage'}}
    PROVE  TypeOK'
<1>1. store \subseteq Ids /\ lastCreated \in Nat
  BY ItemsAssumption DEF TypeOK, Ids
<1>2. r.items \subseteq 1..lastCreated /\ r.kind \in {"ok", "error", "none"}
  BY AnswerItems, AnswerKinds DEF TypeOK
<1>3. ItemCount(r) \in 0..ServerPageSize
  BY <1>1, AnswerSize, ItemsAssumption
<1>4. Printed(r) \in [Ids -> Nat]
  BY DEF Printed, TypeOK
<1>5. failures' \subseteq 1..currentPage'
  BY ItemsAssumption DEF TypeOK
<1> QED
  BY <1>2, <1>3, <1>4, <1>5 DEF TypeOK, serverVars

LEMMA TypeStep ==
    ASSUME PInv, TypeOK, [Next]_pagingVars
    PROVE  TypeOK'
<1>1. CASE FirstPage
  <2>1. currentPage' = currentPage /\ currentPage \in 1..MaxPages
    BY <1>1 DEF FirstPage, TypeOK
  <2>2. PICK r \in Responses(currentPage, 0) :
          /\ resp' = r /\ printed' = Printed(r) /\ totalItems' = ItemCount(r)
          /\ failures' = IF r.kind = "ok" THEN failures ELSE failures \cup {currentPage}
          /\ pc' \in {"more", "done"}
          /\ err' \in {OtherError, NoError, NewServerError(500, FALSE),
                       NewServerError(0, TRUE)}
    BY <1>1 DEF FirstPage
  <2>3. failures' \in {failures, failures \cup {currentPage'}}
    BY <2>1, <2>2
  <2>4. err' \in Error /\ options' = options /\ UNCHANGED serverVars
    BY <1>1, <2>2, ErrorValues DEF FirstPage
  <2>5. currentPage <= currentPage' /\ currentPage' \in 1..MaxPages
    BY <2>1, ItemsAssumption
  <2> QED
    BY <2>1, <2>2, <2>3, <2>4, <2>5, RequestTypes
<1>2. CASE NextPage
  <2>1. currentPage' = currentPage + 1 /\ currentPage' \in 1..MaxPages
        /\ currentPage <= currentPage'
    BY <1>2, ItemsAssumption DEF NextPage, TypeOK
  <2>2. PICK r \in Responses(currentPage', LastID) :
          /\ resp' = r /\ printed' = Printed(r) /\ totalItems' = ItemCount(r)
          /\ failures' = IF r.kind = "ok" THEN failures ELSE failures \cup {currentPage'}
          /\ pc' \in {"more", "done"}
          /\ err' = LaterError(r)
    BY <1>2 DEF NextPage
  <2>3. failures' \in {failures, failures \cup {currentPage'}}
    BY <2>2
  <2>4. err' \in Error /\ options' = options /\ UNCHANGED serverVars
    BY <1>2, <2>2, ErrorValues DEF NextPage, LaterError
  <2> QED
    BY <2>1, <2>2, <2>3, <2>4, RequestTypes
<1>3. CASE NoMorePages
  BY <1>3 DEF NoMorePages, TypeOK, serverVars
<1>4. CASE Create
  BY <1>4, ItemsAssumption DEF Create, TypeOK, clientVars
<1>5. CASE Delete
  BY <1>5 DEF Delete, TypeOK, clientVars
<1>6. CASE UNCHANGED pagingVars
  BY <1>6 DEF pagingVars, serverVars, clientVars, TypeOK
<1> QED
  BY <1>1, <1>2, <1>3, <1>4, <1>5, <1>6 DEF Next, ClientNext, ServerNext

-----------------------------------------------------------------------------
\* Completeness

\* What a request for page p behind the given id writes, if the request before
\* it left no gap, leaves none; and a page that is not full ends the list.
LEMMA RequestWithoutGap ==
    ASSUME PInv, TypeOK, options.includeAll,
           NEW p \in Nat \ {0}, NEW id \in Nat, NEW r \in Responses(p, id), r.kind = "ok",
           options.mode = "byId" =>
               \A i \in Stable : i <= id => printed[i] >= 1,
           options.mode = "next" /\ NothingDeleted =>
               \A i \in 1..InitialItems : i <= (p - 1) * ServerPageSize => printed[i] >= 1
    PROVE  /\ options.mode = "byId" =>
                 \A i \in Stable :
                     Cardinality(r.items) < ServerPageSize \/ (\E k \in r.items : i <= k)
                         => Printed(r)[i] >= 1
           /\ options.mode = "next" /\ NothingDeleted =>
                 /\ \A i \in 1..InitialItems :
                       i <= p * ServerPageSize => Printed(r)[i] >= 1
                 /\ ~r.next \/ Cardinality(r.items) < ServerPageSize =>
                       InitialItems <= p * ServerPageSize
<1>1. store \subseteq Ids /\ Paged /\ 1..InitialItems \subseteq Ids
  BY ItemsAssumption DEF PInv, ItemTypes, Paged, Ids
<1>2. \A i \in Ids : /\ printed[i] >= 1 => Printed(r)[i] >= 1
                     /\ i \in r.items => Printed(r)[i] >= 1
  BY DEF Printed, PInv, ItemTypes
<1>3. ASSUME options.mode = "byId", NEW i \in Stable,
             Cardinality(r.items) < ServerPageSize \/ \E k \in r.items : i <= k
      PROVE  Printed(r)[i] >= 1
  <2>1. i \in store /\ i \in Ids /\ i \in Int
    BY <1>1, ItemsAssumption DEF Stable, Ids
  <2>2. CASE i <= id
    BY <1>2, <1>3, <2>1, <2>2
  <2>3. CASE i > id
    BY <1>1, <1>2, <1>3, <2>1, <2>3, QueryCovers
  <2> QED
    BY <2>1, <2>2, <2>3
<1>4. ASSUME options.mode = "next", NothingDeleted
      PROVE  /\ \A i \in 1..InitialItems :
                   i <= p * ServerPageSize => Printed(r)[i] >= 1
             /\ ~r.next \/ Cardinality(r.items) < ServerPageSize =>
                   InitialItems <= p * ServerPageSize
  <2>1. /\ \A i \in 1..InitialItems :
              (p - 1) * ServerPageSize < i /\ i <= p * ServerPageSize => i \in r.items
        /\ ~r.next \/ Cardinality(r.items) < ServerPageSize =>
              InitialItems <= p * ServerPageSize
    BY <1>1, <1>4, PageCovers
  <2>2. ASSUME NEW i \in 1..InitialItems, i <= p * ServerPageSize
        PROVE  Printed(r)[i] >= 1
    <3>1. i \in Ids /\ i \in Int /\ (p - 1) * ServerPageSize \in Int
      BY <1>1, PageProduct, ItemsAssumption
    <3>2. CASE i <= (p - 1) * ServerPageSize
      BY <1>2, <1>4, <3>1, <3>2
    <3>3. CASE (p - 1) * ServerPageSize < i
      BY <1>2, <2>1, <2>2, <3>1, <3>3
    <3> QED
      BY <3>1, <3>2, <3>3
  <2> QED
    BY <2>1, <2>2
<1> QED
  BY <1>3, <1>4

\* What is common to the steps of the two kinds of requests.
LEMMA RequestListed ==
    ASSUME PInv, TypeOK, ReadsEverything, failures' = {},
           UNCHANGED <<options, serverVars>>, currentPage' \in Nat \ {0},
           NEW id \in Nat, NEW r \in Responses(currentPage', id), r.kind = "ok",
           resp' = r, printed' = Printed(r), totalItems' = ItemCount(r),
           pc' = "done" => totalItems' < options.pageSize,
           options.mode = "byId" =>
               \A i \in Stable : i <= id => printed[i] >= 1,
           options.mode = "next" /\ NothingDeleted =>
               \A i \in 1..InitialItems :
                   i <= (currentPage' - 1) * ServerPageSize => printed[i] >= 1
    PROVE  ListedWithoutGap' /\ NothingSkipped'
<1>1. r.items \subseteq Ids /\ Cardinality(r.items) \in Nat
  BY AnswerItems, FiniteIds DEF PInv, ItemTypes
<1>2. totalItems' = Cardinality(r.items)
  BY DEF ItemCount, ReadsEverything
<1>3. r.items = {} => Cardinality(r.items) < ServerPageSize
  BY FS_EmptySet, ItemsAssumption
<1>4. pc' = "done" => Cardinality(r.items) < ServerPageSize
  BY <1>1, <1>2, PagingAssumption, ItemsAssumption
     DEF ReadsEverything, PInv, ItemTypes, PagingOptionSet
<1>5. /\ options.mode = "byId" =>
            \A i \in Stable :
                Cardinality(r.items) < ServerPageSize \/ (\E k \in r.items : i <= k)
                    => printed'[i] >= 1
      /\ options.mode = "next" /\ NothingDeleted =>
            /\ \A i \in 1..InitialItems :
                  i <= currentPage' * ServerPageSize => printed'[i] >= 1
            /\ ~r.next \/ Cardinality(r.items) < ServerPageSize =>
                  InitialItems <= currentPage' * ServerPageSize
  BY RequestWithoutGap DEF ReadsEverything
<1>6. Stable' = Stable /\ (NothingDeleted' <=> NothingDeleted) /\ options' = options
  BY DEF Stable, NothingDeleted, serverVars
<1>7. ListedWithoutGap'
  BY <1>2, <1>3, <1>5, <1>6 DEF ListedWithoutGap
<1>8. NothingSkipped'
  <2>1. SUFFICES ASSUME pc' = "done", NEW i \in Stable,
                        options.mode = "byId" \/ (options.mode = "next" /\ NothingDeleted)
                 PROVE  printed'[i] >= 1
    BY <1>6 DEF NothingSkipped
  <2>2. CASE options.mode = "byId"
    BY <1>4, <1>5, <2>1, <2>2
  <2>3. CASE options.mode = "next" /\ NothingDeleted
    <3>1. InitialItems <= currentPage' * ServerPageSize
      BY <1>4, <1>5, <2>1, <2>3
    <3>2. i \in 1..InitialItems /\ i <= currentPage' * ServerPageSize
      <4>1. i \in 1..InitialItems
        BY DEF Stable
      <4>2. currentPage' * ServerPageSize \in Nat
        BY PageProduct
      <4>3. \A n \in Nat : InitialItems <= n => i <= n
        BY <4>1, ItemsAssumption
      <4> QED
        BY <3>1, <4>1, <4>2, <4>3, Zenon
    <3> QED
      BY <1>5, <2>3, <3>2
  <2> QED
    BY <2>1, <2>2, <2>3
<1> QED
  BY <1>7, <1>8

LEMMA FirstPageListed ==
    ASSUME PInv, TypeOK, FirstPage
    PROVE  ListedWithoutGap' /\ NothingSkipped'
<1>1. SUFFICES ASSUME ReadsEverything, failures' = {}
               PROVE  ListedWithoutGap' /\ NothingSkipped'
  BY DEF FirstPage, ListedWithoutGap, NothingSkipped, ReadsEverything
<1>2. PICK r \in Responses(currentPage, 0) :
        /\ resp' = r /\ printed' = Printed(r) /\ totalItems' = ItemCount(r)
        /\ failures' = IF r.kind = "ok" THEN failures ELSE failures \cup {currentPage}
        /\ pc' = IF Paged /\ r.kind # "none" THEN "more" ELSE "done"
  BY DEF FirstPage
<1>3. UNCHANGED <<options, serverVars>> /\ currentPage' = currentPage /\ currentPage = 1
  BY DEF FirstPage, PInv, LimitAhead
<1>4. r.kind = "ok" /\ Paged /\ pc' = "more"
  BY <1>1, <1>2 DEF ReadsEverything, Paged
<1>5. /\ \A i \in Stable : ~(i <= 0)
      /\ \A i \in 1..InitialItems : ~(i <= (1 - 1) * ServerPageSize)
  BY ItemsAssumption DEF Stable
<1>6. currentPage' \in Nat \ {0} /\ r \in Responses(currentPage', 0)
  BY <1>2, <1>3
<1> QED
  BY <1>1, <1>2, <1>3, <1>4, <1>5, <1>6, RequestListed

LEMMA NextPageListed ==
    ASSUME PInv, TypeOK, ListedWithoutGap, NextPage
    PROVE  ListedWithoutGap' /\ NothingSkipped'
<1>1. SUFFICES ASSUME ReadsEverything, failures' = {}
               PROVE  ListedWithoutGap' /\ NothingSkipped'
  BY DEF NextPage, ListedWithoutGap, NothingSkipped, ReadsEverything
<1>2. PICK r \in Responses(currentPage', LastID) :
        /\ resp' = r /\ printed' = Printed(r) /\ totalItems' = ItemCount(r)
        /\ failures' = IF r.kind = "ok" THEN failures ELSE failures \cup {currentPage'}
        /\ pc' = IF r.kind # "ok" \/ LastPage(totalItems', currentPage')
                 THEN "done" ELSE "more"
  BY DEF NextPage
<1>3. /\ UNCHANGED <<options, serverVars>> /\ pc = "more"
      /\ currentPage' = currentPage + 1 /\ totalItems # 0
  BY DEF NextPage, HasMore
<1>4. r.kind = "ok" /\ failures = {}
  BY <1>1, <1>2
<1>5. pc' = "done" => totalItems' < options.pageSize
  BY <1>1, <1>2, <1>3, <1>4 DEF LastPage, ReadsEverything
<1>6. resp.items # {} /\ resp.items \subseteq Ids
  BY <1>3 DEF PInv, ItemTypes
<1>7. LastID \in resp.items /\ LastID \in Nat
  BY <1>6, LastIDIsGreatest, ItemsAssumption DEF Ids
<1>8. options.mode = "byId" => \A i \in Stable : i <= LastID => printed[i] >= 1
  BY <1>1, <1>3, <1>4, <1>7 DEF ListedWithoutGap
<1>9. currentPage' \in Nat \ {0} /\ currentPage' - 1 = currentPage
  BY <1>3 DEF PInv, ItemTypes
<1>10. options.mode = "next" /\ NothingDeleted =>
         \A i \in 1..InitialItems :
             i <= (currentPage' - 1) * ServerPageSize => printed[i] >= 1
  BY <1>1, <1>3, <1>4, <1>9 DEF ListedWithoutGap
<1> QED
  BY <1>1, <1>2, <1>3, <1>4, <1>5, <1>7, <1>8, <1>9, <1>10, RequestListed

LEMMA NoMorePagesListed ==
    ASSUME PInv, TypeOK, ListedWithoutGap, NoMorePages
    PROVE  ListedWithoutGap' /\ NothingSkipped'
<1>1. ListedWithoutGap'
  BY DEF NoMorePages, ListedWithoutGap
<1>2. NothingSkipped'
  <2>1. UNCHANGED <<options, store, currentPage, resp, printed, failures>> /\ pc = "more"
    BY DEF NoMorePages, serverVars
  <2>2. SUFFICES ASSUME failures = {}, ReadsEverything, NEW i \in Stable,
                        options.mode = "byId" \/ (options.mode = "next" /\ NothingDeleted)
                 PROVE  printed[i] >= 1
    BY <2>1 DEF NothingSkipped, ReadsEverything, Stable, NothingDeleted
  <2>3. resp.kind = "ok" /\ totalItems = Cardinality(resp.items)
    BY <2>1, <2>2 DEF ListedWithoutGap
  <2>4. totalItems = 0 => resp.items = {}
    BY <2>3, FiniteIds, FS_EmptySet DEF PInv, ItemTypes
  <2>5. resp.items = {} \/ (options.mode = "next" /\ ~resp.next)
    BY <2>3, <2>4 DEF NoMorePages, HasMore
  <2>6. CASE options.mode = "byId"
    BY <2>1, <2>2, <2>5, <2>6 DEF ListedWithoutGap
  <2>7. CASE options.mode = "next" /\ NothingDeleted
    <3>1. InitialItems <= currentPage * ServerPageSize
      BY <2>1, <2>2, <2>5, <2>7 DEF ListedWithoutGap
    <3>2. i \in 1..InitialItems /\ i <= currentPage * ServerPageSize
      BY <3>1, PageProduct, ItemsAssumption DEF Stable, PInv, ItemTypes
    <3> QED
      BY <2>1, <2>2, <2>7, <3>2 DEF ListedWithoutGap
  <2> QED
    BY <2>2, <2>6, <2>7
<1> QED
  BY <1>1, <1>2

\* Other clients delete items, but they do not bring one of the first items back.
LEMMA ServerListed ==
    ASSUME PInv, TypeOK, ListedWithoutGap, NothingSkipped,
           ServerNext \/ UNCHANGED pagingVars
    PROVE  ListedWithoutGap' /\ NothingSkipped'
<1>1. UNCHANGED <<options, pc, currentPage, resp, totalItems, printed, failures>>
  BY DEF ServerNext, Create, Delete, pagingVars, clientVars
<1>2. Stable' \subseteq Stable /\ (NothingDeleted' => NothingDeleted)
  <2>1. CASE Create
    <3>1. lastCreated' \notin 1..InitialItems /\ store' = store \cup {lastCreated'}
      BY <2>1, ItemsAssumption DEF Create, TypeOK
    <3> QED
      BY <3>1 DEF Stable, NothingDeleted
  <2>2. CASE Delete
    BY <2>2 DEF Delete, Stable, NothingDeleted
  <2>3. CASE UNCHANGED pagingVars
    BY <2>3 DEF pagingVars, serverVars, Stable, NothingDeleted
  <2> QED
    BY <2>1, <2>2, <2>3 DEF ServerNext
<1>3. ListedWithoutGap'
  BY <1>1, <1>2 DEF ListedWithoutGap, ReadsEverything
<1>4. NothingSkipped'
  BY <1>1, <1>2 DEF NothingSkipped, ReadsEverything
<1> QED
  BY <1>3, <1>4

LEMMA ListingInvariant == Spec => []ListInv
<1>1. Init => ListInv
  BY InitTypeOK DEF Init, ListInv, ListedWithoutGap, NothingSkipped
<1>2. PInv /\ ListInv /\ [Next]_pagingVars => ListInv'
  BY TypeStep, FirstPageListed, NextPageListed, NoMorePagesListed, ServerListed
     DEF ListInv, Next, ClientNext
<1> QED
  BY <1>1, <1>2, PagingInvariant, PTL DEF Spec

\* The variables keep their types; above all a page, and so the count that the
\* loop looks at, never exceeds the server's page size.
THEOREM PagingTypeCorrect == Spec => []TypeOK
<1>1. ListInv => TypeOK
  BY DEF ListInv
<1> QED
  BY <1>1, ListingInvariant, PTL

\* --includeAll without an error has written every item that existed all the
\* time: an inventory query whatever other clients delete, the next links if
\* nothing was deleted (request.go:402-462, 517-584).
THEOREM CompleteListing == Spec => []NothingSkipped
<1>1. ListInv => NothingSkipped
  BY DEF ListInv
<1> QED
  BY <1>1, ListingInvariant, PTL

-----------------------------------------------------------------------------
\* The place where the listing goes on

\* Deletions lower the rank of an item, greater items have greater ranks.
LEMMA RankGrows ==
    ASSUME NEW S, S \subseteq Ids, NEW T, T \subseteq S, NEW i \in Ids, NEW k \in Ids, i <= k
    PROVE  /\ Cardinality({j \in T : j <= i}) <= Cardinality({j \in S : j <= k})
           /\ Cardinality({j \in T : j <= i}) \in Nat /\ Cardinality({j \in S : j <= k}) \in Nat
<1>1. Ids \subseteq Int
  BY ItemsAssumption DEF Ids
<1>2. {j \in T : j <= i} \subseteq {j \in S : j <= k}
  <2>1. SUFFICES ASSUME NEW j \in T, j <= i PROVE j \in S /\ j <= k
    OBVIOUS
  <2>2. j \in S /\ j \in Int /\ i \in Int /\ k \in Int
    BY <1>1
  <2> QED
    BY <2>1, <2>2
<1>3. {j \in T : j <= i} \subseteq Ids /\ {j \in S : j <= k} \subseteq Ids
  OBVIOUS
<1> QED
  BY <1>2, <1>3, FiniteIds, FS_Subset

\* A page has no gaps: what is missing before its last item is on earlier pages.
LEMMA PageClosed ==
    ASSUME store \subseteq Ids, NEW p \in Nat \ {0}, NEW k \in PageOf(p), NEW i \in store, i <= k,
           (p - 1) * ServerPageSize < Cardinality({j \in store : j <= i})
    PROVE  i \in PageOf(p)
<1>1. k \in store /\ Cardinality({j \in store : j <= k}) <= p * ServerPageSize
  BY DEF PageOf
<1>2. /\ Cardinality({j \in store : j <= i}) <= Cardinality({j \in store : j <= k})
      /\ Cardinality({j \in store : j <= i}) \in Nat /\ Cardinality({j \in store : j <= k}) \in Nat
  <2>1. i \in Ids /\ k \in Ids
    BY <1>1
  <2> QED
    BY <2>1, RankGrows
<1>3. Cardinality({j \in store : j <= i}) <= p * ServerPageSize
  BY <1>1, <1>2, PageProduct
<1> QED
  BY <1>3 DEF PageOf

\* The item of an initial id has the id as its rank until an initial item is deleted.
LEMMA InitialRank ==
    ASSUME store \subseteq Ids, NothingDeleted, NEW i \in 1..InitialItems
    PROVE  Cardinality({j \in store : j <= i}) = i
<1>1. {j \in store : j <= i} = 1..i
  <2>1. \A k \in store : k <= i => k \in 1..i
    BY ItemsAssumption DEF Ids
  <2>2. \A k \in 1..i : k \in store /\ k <= i
    BY ItemsAssumption DEF NothingDeleted
  <2> QED
    BY <2>1, <2>2
<1>2. Cardinality(1..i) = i
  BY FS_Interval, ItemsAssumption
<1> QED
  BY <1>1, <1>2

\* What is common to the two kinds of requests: a page written keeps the place.
LEMMA RequestKeepsPlace ==
    ASSUME PInv, TypeOK, UNCHANGED <<options, serverVars>>, pc' # "first",
           currentPage' \in Nat \ {0},
           NEW id, NEW r \in Responses(currentPage', id),
           resp' = r, printed' = Printed(r),
           options.mode = "next" =>
               \A i \in Ids : printed[i] > 0 =>
                   /\ i <= lastCreated
                   /\ Cardinality({k \in store : k <= i}) <= (currentPage' - 1) * ServerPageSize,
           options.mode = "next" /\ NothingDeleted =>
               \A i \in 1..InitialItems :
                   i <= (currentPage' - 1) * ServerPageSize => printed[i] > 0
    PROVE  PlaceKept'
<1> DEFINE last == currentPage' * ServerPageSize
           before == (currentPage' - 1) * ServerPageSize
           rank(i) == Cardinality({k \in store : k <= i})
<1>1. store \subseteq Ids /\ store \subseteq 1..lastCreated /\ 1..InitialItems \subseteq Ids
      /\ lastCreated \in Nat
  BY ItemsAssumption DEF PInv, ItemTypes, Ids, TypeOK
<1>2. r.items \subseteq store
  BY AnswerItems
<1>3. \A i \in Ids : /\ printed[i] > 0 => printed'[i] > 0
                     /\ i \in r.items => printed'[i] > 0
                     /\ printed'[i] > 0 => printed[i] > 0 \/ i \in r.items
  BY DEF Printed, PInv, ItemTypes
<1>4. before \in Nat /\ last \in Nat /\ before <= last
  <2>1. last \in Nat /\ before \in Nat /\ before = last - ServerPageSize
    BY PageProduct
  <2> HIDE DEF last, before
  <2> QED
    BY <2>1, ItemsAssumption
<1>5. options' = options /\ store' = store /\ lastCreated' = lastCreated
      /\ (NothingDeleted' <=> NothingDeleted)
  BY DEF NothingDeleted, serverVars
<1>6. ASSUME options.mode = "next", NEW i \in Ids, printed'[i] > 0
      PROVE  i <= lastCreated /\ rank(i) <= last
  <2>1. rank(i) \in Nat
    <3>1. {k \in store : k <= i} \subseteq Ids
      BY <1>1
    <3> QED
      BY <3>1, FiniteIds
  <2>2. CASE printed[i] > 0
    <3>1. i <= lastCreated /\ rank(i) <= before
      BY <1>6, <2>2
    <3> QED
      BY <1>4, <2>1, <3>1
  <2>3. CASE i \in r.items
    <3>1. r.kind = "ok"
      BY <2>3, OtherAnswersEmpty
    <3>2. i \in PageOf(currentPage')
      BY <1>6, <2>3, <3>1, PageAnswer
    <3>3. i \in store /\ rank(i) <= last
      BY <3>2 DEF PageOf
    <3> QED
      BY <1>1, <3>3
  <2> QED
    BY <1>3, <1>6, <2>2, <2>3
<1>7. ASSUME options.mode = "next", NothingDeleted, r.kind = "ok",
             NEW i \in 1..InitialItems, i <= last
      PROVE  printed'[i] > 0
  <2>1. i \in Ids /\ i \in Int
    BY <1>1
  <2>2. CASE i <= before
    BY <1>3, <1>7, <2>1, <2>2
  <2>3. CASE before < i
    BY <1>1, <1>3, <1>7, <2>1, <2>3, PageCovers
  <2> QED
    BY <1>4, <2>1, <2>2, <2>3
<1>8. \A i \in r.items : printed'[i] > 0
  BY <1>1, <1>2, <1>3
<1>9. options.mode = "next" => \A i \in Ids : printed'[i] > 0 =>
        i <= lastCreated' /\ Cardinality({k \in store' : k <= i}) <= currentPage' * ServerPageSize
  BY <1>5, <1>6
<1>10. options.mode = "next" /\ resp'.kind = "ok" /\ NothingDeleted' =>
         \A i \in 1..InitialItems : i <= currentPage' * ServerPageSize => printed'[i] > 0
  BY <1>5, <1>7
<1> QED
  BY <1>5, <1>8, <1>9, <1>10 DEF PlaceKept

LEMMA FirstPageKeepsPlace ==
    ASSUME PInv, TypeOK, PlaceKept, FirstPage
    PROVE  PlaceKept'
<1>1. PICK r \in Responses(currentPage, 0) : resp' = r /\ printed' = Printed(r)
  BY DEF FirstPage
<1>2. /\ UNCHANGED <<options, serverVars>> /\ pc' # "first" /\ pc = "first"
      /\ currentPage' = currentPage /\ currentPage = 1
  BY DEF FirstPage, PInv, LimitAhead
<1>3. \A i \in Ids : printed[i] = 0
  BY <1>2 DEF PlaceKept
<1>4. \A i \in Ids : ~(printed[i] > 0)
  BY <1>3
<1>5. \A i \in 1..InitialItems : ~(i <= (1 - 1) * ServerPageSize)
  BY ItemsAssumption
<1>6. currentPage' \in Nat \ {0} /\ r \in Responses(currentPage', 0) /\ currentPage' = 1
  BY <1>1, <1>2
<1> QED
  BY <1>1, <1>2, <1>4, <1>5, <1>6, RequestKeepsPlace

LEMMA NextPageKeepsPlace ==
    ASSUME PInv, TypeOK, PlaceKept, NextPage
    PROVE  PlaceKept'
<1>1. PICK r \in Responses(currentPage', LastID) : resp' = r /\ printed' = Printed(r)
  BY DEF NextPage
<1>2. /\ UNCHANGED <<options, serverVars>> /\ pc' # "first" /\ pc = "more"
      /\ currentPage' = currentPage + 1 /\ resp.kind = "ok"
  BY DEF NextPage, HasMore
<1>3. currentPage' \in Nat \ {0} /\ currentPage' - 1 = currentPage
  BY <1>2 DEF PInv, ItemTypes
<1>4. options.mode = "next" =>
        \A i \in Ids : printed[i] > 0 =>
            /\ i <= lastCreated
            /\ Cardinality({k \in store : k <= i}) <= (currentPage' - 1) * ServerPageSize
  BY <1>2, <1>3 DEF PlaceKept
<1>5. options.mode = "next" /\ NothingDeleted =>
        \A i \in 1..InitialItems :
            i <= (currentPage' - 1) * ServerPageSize => printed[i] > 0
  BY <1>2, <1>3 DEF PlaceKept
<1> QED
  BY <1>1, <1>2, <1>3, <1>4, <1>5, RequestKeepsPlace

\* A new item is behind everything written; a deleted one moves items forward.
LEMMA OthersKeepPlace ==
    ASSUME PInv, TypeOK, PlaceKept, NoMorePages \/ ServerNext \/ UNCHANGED pagingVars
    PROVE  PlaceKept'
<1>1. UNCHANGED <<options, currentPage, resp, printed>>
  BY DEF NoMorePages, ServerNext, Create, Delete, pagingVars, clientVars
<1>2. pc' = pc \/ pc' = "done"
  BY DEF NoMorePages, ServerNext, Create, Delete, pagingVars, clientVars
<1>3. /\ store \subseteq Ids /\ lastCreated \in Nat /\ Ids \subseteq Int
      /\ currentPage * ServerPageSize \in Nat
  BY ItemsAssumption, PageProduct DEF PInv, ItemTypes, Ids
<1>4. NothingDeleted' => NothingDeleted
  <2>1. CASE Create
    <3>1. lastCreated' \notin 1..InitialItems /\ store' = store \cup {lastCreated'}
      BY <2>1, ItemsAssumption DEF Create, TypeOK
    <3> QED
      BY <3>1 DEF NothingDeleted
  <2>2. CASE ~Create
    BY <2>2 DEF ServerNext, Delete, NoMorePages, pagingVars, serverVars, NothingDeleted
  <2> QED
    BY <2>1, <2>2
<1>5. ASSUME pc = "more", options.mode = "next", NEW i \in Ids, printed[i] > 0
      PROVE  /\ i <= lastCreated'
             /\ Cardinality({k \in store' : k <= i}) <= currentPage * ServerPageSize
  <2>1. i <= lastCreated /\ i \in Int /\ i <= i
        /\ Cardinality({k \in store : k <= i}) <= currentPage * ServerPageSize
    BY <1>3, <1>5 DEF PlaceKept
  <2>2. CASE Create
    <3>1. lastCreated' = lastCreated + 1 /\ store' = store \cup {lastCreated'}
      BY <2>2 DEF Create
    <3>2. {k \in store' : k <= i} = {k \in store : k <= i}
      BY <1>3, <2>1, <3>1
    <3>3. i <= lastCreated'
      BY <1>3, <2>1, <3>1
    <3> QED
      BY <2>1, <3>2, <3>3, Zenon
  <2>3. CASE ~Create
    <3>1. store' \subseteq store /\ lastCreated' = lastCreated
      BY <2>3 DEF ServerNext, Delete, NoMorePages, pagingVars, serverVars
    <3>2. /\ Cardinality({k \in store' : k <= i}) <= Cardinality({k \in store : k <= i})
          /\ Cardinality({k \in store' : k <= i}) \in Nat
          /\ Cardinality({k \in store : k <= i}) \in Nat
      BY <1>3, <2>1, <3>1, RankGrows
    <3>3. \A a, b, n \in Nat : a <= b /\ b <= n => a <= n
      OBVIOUS
    <3> QED
      BY <1>3, <2>1, <3>1, <3>2, <3>3
  <2> QED
    BY <2>2, <2>3
<1> QED
  BY <1>1, <1>2, <1>4, <1>5 DEF PlaceKept

LEMMA PlaceInvariant == Spec => []PlaceKept
<1>1. Init => PlaceKept
  BY DEF Init, PlaceKept
<1>2. PInv /\ TypeOK /\ PlaceKept /\ [Next]_pagingVars => PlaceKept'
  BY FirstPageKeepsPlace, NextPageKeepsPlace, OthersKeepPlace DEF Next, ClientNext
<1>3. ListInv => TypeOK
  BY DEF ListInv
<1> QED
  BY <1>1, <1>2, <1>3, PagingInvariant, ListingInvariant, PTL DEF Spec

-----------------------------------------------------------------------------
\* The abstract listing

\* A request whose page is behind what was written, without a gap, and ends the
\* listing only where nothing is left, is a read of the abstract listing.
LEMMA RequestReads ==
    ASSUME PInv, UNCHANGED <<options, serverVars>>, ~Complete,
           NEW items, items \subseteq Promise!Readable,
           printed' = [i \in Ids |-> printed[i] + (IF i \in items THEN 1 ELSE 0)],
           \A i \in Promise!Owed, k \in items : i <= k => i \in items,
           Complete' => Promise!Owed \subseteq items
    PROVE  Promise!Read
<1>1. Complete \in BOOLEAN /\ Complete' \in BOOLEAN
  BY DEF Complete
<1>2. Complete' = FALSE \/ (Complete' = TRUE /\ Promise!Owed \subseteq items)
  BY <1>1
<1>3. items \in SUBSET Promise!Readable
  OBVIOUS
<1>4. Promise!Ids = Ids
  BY DEF Promise!Ids, Ids
<1>5. UNCHANGED <<options.mode, store, lastCreated>>
  BY DEF serverVars
<1> QED
  BY <1>2, <1>3, <1>4, <1>5 DEF Promise!Read

\* What an answer for page p, or for the items behind id, does for the abstract
\* listing: place says that what was written is what lies before.
LEMMA AnswerReads ==
    ASSUME PInv, PlaceKept, NEW p \in Nat \ {0}, NEW id \in Nat, NEW r \in Responses(p, id),
           Paged \/ p = 1,
           \* the place of the queries
           options.mode = "byId" /\ Paged =>
               /\ \A i \in Ids : printed[i] > 0 => i <= id
               /\ id # 0 => id \in Ids /\ printed[id] > 0,
           \* the place of the links
           options.mode = "next" \/ ~Paged =>
               \A i \in Ids : printed[i] > 0 =>
                   Cardinality({k \in store : k <= i}) <= (p - 1) * ServerPageSize,
           options.mode = "next" /\ NothingDeleted =>
               \A i \in 1..InitialItems : i <= (p - 1) * ServerPageSize => printed[i] > 0
    PROVE  /\ r.items \subseteq Promise!Readable
           /\ \A i \in Promise!Owed, k \in r.items : i <= k => i \in r.items
<1>1. store \subseteq Ids /\ Ids \subseteq Nat /\ Promise!Ids = Ids /\ r.items \subseteq store
      /\ 1..InitialItems \subseteq Ids /\ \A i \in Ids : i > 0
  BY AnswerItems, ItemsAssumption DEF PInv, ItemTypes, Ids, Promise!Ids
<1>2. Promise!Behind = {i \in store : \A k \in Ids : printed[k] > 0 => k < i}
  BY <1>1 DEF Promise!Behind
<1>3. CASE r.kind # "ok"
  BY <1>3, OtherAnswersEmpty
<1>4. CASE r.kind = "ok" /\ options.mode = "byId" /\ Paged
  <2>1. r.items \subseteq Promise!Behind
    <3>1. SUFFICES ASSUME NEW i \in r.items, NEW k \in Ids, printed[k] > 0 PROVE k < i
      BY <1>1, <1>2
    <3>2. i > id /\ i \in Nat /\ k \in Nat /\ k <= id
      BY <1>1, <1>4, <3>1, AnswerItems
    <3> QED
      BY <3>2
  <2>2. \A i \in Promise!Behind : i > id
    BY <1>1, <1>2, <1>4
  <2>3. \A i \in Promise!Behind, k \in r.items : i <= k => i \in r.items
    BY <1>1, <1>2, <1>4, <2>2, QueryCovers
  <2> QED
    BY <1>4, <2>1, <2>3 DEF Promise!Readable, Promise!Owed
<1>5. CASE r.kind = "ok" /\ options.mode = "byIdUnmatched"
  BY <1>1, <1>5 DEF Promise!Readable, Promise!Owed
<1>6. CASE r.kind = "ok" /\ (options.mode = "next" \/ ~Paged)
  <2>1. r.items = PageOf(p)
    BY <1>6, PageAnswer
  <2>2. r.items \subseteq Promise!Behind
    <3>1. SUFFICES ASSUME NEW i \in r.items, NEW k \in Ids, printed[k] > 0, ~(k < i) PROVE FALSE
      BY <1>1, <1>2
    <3>2. /\ Cardinality({j \in store : j <= k}) <= (p - 1) * ServerPageSize
          /\ (p - 1) * ServerPageSize < Cardinality({j \in store : j <= i})
      BY <1>6, <2>1, <3>1 DEF PageOf
    <3>3. i \in Ids /\ i <= k
      <4>1. i \in Ids /\ i \in Nat /\ k \in Nat
        BY <1>1
      <4> QED
        BY <3>1, <4>1
    <3>4. /\ Cardinality({j \in store : j <= i}) <= Cardinality({j \in store : j <= k})
          /\ Cardinality({j \in store : j <= i}) \in Nat
          /\ Cardinality({j \in store : j <= k}) \in Nat
      BY <1>1, <3>3, RankGrows
    <3>5. (p - 1) * ServerPageSize \in Nat
      BY PageProduct
    <3>6. \A a, b, n \in Nat : ~(a <= n /\ n < b /\ b <= a)
      OBVIOUS
    <3> QED
      BY <3>2, <3>4, <3>5, <3>6
  <2>3. ASSUME NEW i \in Promise!Owed, NEW k \in r.items, i <= k,
               (p - 1) * ServerPageSize < Cardinality({j \in store : j <= i})
        PROVE  i \in r.items
    <3>1. i \in store
      BY <1>2, <2>3 DEF Promise!Owed
    <3> QED
      BY <1>1, <2>1, <2>3, <3>1, PageClosed
  <2>4. ASSUME NEW i \in Promise!Owed
        PROVE  (p - 1) * ServerPageSize < Cardinality({j \in store : j <= i})
    <3>1. CASE p = 1
      <4>1. i \in {j \in store : j <= i} /\ {j \in store : j <= i} \subseteq Ids
        <5>1. i \in store /\ i \in Nat
          BY <1>1, <1>2 DEF Promise!Owed
        <5>2. {j \in store : j <= i} \subseteq Ids
          BY <1>1
        <5>3. i <= i
          BY <5>1
        <5> QED
          BY <5>1, <5>2, <5>3, Zenon
      <4>2. Cardinality({j \in store : j <= i}) # 0
        BY <4>1, FiniteIds, FS_EmptySet
      <4>3. (p - 1) * ServerPageSize = 0 /\ Cardinality({j \in store : j <= i}) \in Nat
        BY <3>1, <4>1, FiniteIds, ItemsAssumption
      <4> QED
        BY <4>2, <4>3
    <3>2. CASE p # 1
      <4>1. options.mode = "next"
        BY <1>6, <3>2
      <4>2. NothingDeleted /\ i \in 1..InitialItems /\ i \in Promise!Behind
        BY <2>4, <4>1 DEF Promise!Owed, NothingDeleted
      <4>3. Cardinality({j \in store : j <= i}) = i
        BY <1>1, <4>2, InitialRank
      <4>4. ~(printed[i] > 0)
        BY <1>1, <1>2, <4>2
      <4>5. ~(i <= (p - 1) * ServerPageSize) /\ i \in Nat
        BY <1>1, <4>1, <4>2, <4>4
      <4>6. (p - 1) * ServerPageSize \in Nat
        BY PageProduct
      <4>7. \A a, b \in Nat : ~(a <= b) => b < a
        OBVIOUS
      <4>8. (p - 1) * ServerPageSize < i
        BY <4>5, <4>6, <4>7
      <4> QED
        BY <4>3, <4>8
    <3> QED
      BY <3>1, <3>2
  <2>5. options.mode # "byIdUnmatched" => r.items \subseteq Promise!Readable
    BY <2>2 DEF Promise!Readable
  <2>6. r.items \subseteq Promise!Readable
    BY <1>1, <2>5 DEF Promise!Readable
  <2> QED
    BY <2>3, <2>4, <2>6
<1>7. options.mode \in {"next", "byId", "byIdUnmatched"}
  BY PagingAssumption DEF PInv, ItemTypes, PagingOptionSet
<1> QED
  BY <1>3, <1>4, <1>5, <1>6, <1>7

\* The listing is complete only where nothing that is owed is behind the last page.
LEMMA LastAnswerIsLast ==
    ASSUME PInv, PlaceKept, ReadsEverything, NEW p \in Nat \ {0}, NEW id \in Nat,
           NEW r \in Responses(p, id), r.kind = "ok",
           Cardinality(r.items) < ServerPageSize \/ (options.mode = "next" /\ ~r.next),
           options.mode = "byId" /\ id # 0 => id \in Ids /\ printed[id] > 0,
           options.mode = "next" /\ NothingDeleted =>
               \A i \in 1..InitialItems : i <= (p - 1) * ServerPageSize => printed[i] > 0
    PROVE  Promise!Owed \subseteq r.items
<1>1. store \subseteq Ids /\ Ids \subseteq Nat /\ Promise!Ids = Ids /\ Paged
      /\ 1..InitialItems \subseteq Ids /\ \A i \in Ids : i > 0
  BY ItemsAssumption DEF PInv, ItemTypes, Ids, Promise!Ids, ReadsEverything, Paged
<1>2. Promise!Behind = {i \in store : \A k \in Ids : printed[k] > 0 => k < i}
  BY <1>1 DEF Promise!Behind
<1>3. ASSUME options.mode = "byId", NEW i \in Promise!Owed PROVE i \in r.items
  <2>1. i \in store /\ i > id
    BY <1>1, <1>2, <1>3 DEF Promise!Owed
  <2> QED
    BY <1>1, <1>3, <2>1, QueryCovers
<1>4. ASSUME options.mode = "next", NEW i \in Promise!Owed PROVE i \in r.items
  <2>1. NothingDeleted /\ i \in 1..InitialItems /\ i \in Promise!Behind
    BY <1>4 DEF Promise!Owed, NothingDeleted
  <2>2. InitialItems <= p * ServerPageSize
    BY <1>1, <1>4, <2>1, PageCovers
  <2>3. ~(printed[i] > 0) /\ i \in Nat
    BY <1>1, <1>2, <2>1
  <2>4. ~(i <= (p - 1) * ServerPageSize)
    BY <1>4, <2>1, <2>3
  <2>5. p * ServerPageSize \in Nat /\ (p - 1) * ServerPageSize \in Nat
    BY PageProduct
  <2>6. \A a, b \in Nat : ~(a <= b) => b < a
    OBVIOUS
  <2>7. \A n \in Nat : InitialItems <= n => i <= n
    BY <2>1, ItemsAssumption
  <2>8. (p - 1) * ServerPageSize < i
    BY <2>3, <2>4, <2>5, <2>6
  <2>9. i <= p * ServerPageSize
    BY <2>2, <2>5, <2>7
  <2> QED
    BY <1>1, <1>4, <2>1, <2>8, <2>9, PageCovers
<1>5. options.mode \notin {"byId", "next"} => Promise!Owed = {}
  BY DEF Promise!Owed
<1> QED
  BY <1>3, <1>4, <1>5

LEMMA FirstPageListing ==
    ASSUME PInv, TypeOK, PlaceKept, FirstPage
    PROVE  Promise!Read
<1>1. PICK r \in Responses(currentPage, 0) :
        /\ resp' = r /\ printed' = Printed(r) /\ totalItems' = ItemCount(r)
        /\ failures' = IF r.kind = "ok" THEN failures ELSE failures \cup {currentPage}
        /\ pc' = IF Paged /\ r.kind # "none" THEN "more" ELSE "done"
  BY DEF FirstPage
<1>2. /\ UNCHANGED <<options, serverVars>> /\ pc = "first" /\ currentPage = 1
  BY DEF FirstPage, PInv, LimitAhead
<1>3. \A i \in Ids : ~(printed[i] > 0)
  BY <1>2 DEF PlaceKept
<1>4. ~Complete
  BY <1>2 DEF Complete
<1>5. \A i \in 1..InitialItems : ~(i <= (1 - 1) * ServerPageSize)
  BY ItemsAssumption
<1>6. r \in Responses(1, 0) /\ 1 \in Nat \ {0} /\ 0 \in Nat
  BY <1>1, <1>2
<1>7. /\ r.items \subseteq Promise!Readable
      /\ \A i \in Promise!Owed, k \in r.items : i <= k => i \in r.items
  BY <1>3, <1>5, <1>6, AnswerReads
<1>8. ASSUME Complete' PROVE Promise!Owed \subseteq r.items
  <2>1. ReadsEverything /\ Paged /\ failures' = {} /\ options' = options
    BY <1>2, <1>8 DEF Complete, ReadsEverything, Paged
  <2>2. r.kind = "ok" /\ ~HasMore'
    BY <1>1, <1>8, <2>1 DEF Complete
  <2>3. totalItems' = 0 \/ (options.mode = "next" /\ ~r.next)
    BY <1>1, <2>1, <2>2 DEF HasMore
  <2>4. totalItems' = Cardinality(r.items)
    BY <1>1, <2>1 DEF ItemCount, ReadsEverything
  <2> QED
    BY <1>5, <1>6, <2>1, <2>2, <2>3, <2>4, LastAnswerIsLast, ItemsAssumption
<1> QED
  BY <1>1, <1>2, <1>4, <1>7, <1>8, RequestReads DEF Printed

LEMMA NextPageListing ==
    ASSUME PInv, TypeOK, PlaceKept, NextPage
    PROVE  Promise!Read
<1>1. PICK r \in Responses(currentPage', LastID) :
        /\ resp' = r /\ printed' = Printed(r) /\ totalItems' = ItemCount(r)
        /\ failures' = IF r.kind = "ok" THEN failures ELSE failures \cup {currentPage'}
        /\ pc' = IF r.kind # "ok" \/ LastPage(totalItems', currentPage')
                 THEN "done" ELSE "more"
  BY DEF NextPage
<1>2. /\ UNCHANGED <<options, serverVars>> /\ pc = "more" /\ HasMore /\ totalItems # 0
      /\ currentPage' = currentPage + 1 /\ resp.kind = "ok" /\ Paged
  BY DEF NextPage, HasMore, PInv, LimitAhead
<1>3. resp.items # {} /\ resp.items \subseteq Ids /\ Ids \subseteq Nat
  BY <1>2, ItemsAssumption DEF PInv, ItemTypes, Ids
<1>4. /\ LastID \in resp.items /\ LastID \in Ids /\ LastID \in Nat
      /\ \A k \in resp.items : k <= LastID
  BY <1>3, LastIDIsGreatest
<1>5. printed[LastID] > 0
  BY <1>2, <1>4 DEF PlaceKept
<1>6. options.mode = "byId" => \A i \in Ids : printed[i] > 0 => i <= LastID
  <2>1. SUFFICES ASSUME options.mode = "byId", NEW i \in Ids, printed[i] > 0
                 PROVE  i <= LastID
    OBVIOUS
  <2>2. printed[i] = 1
    BY <2>1 DEF PInv, WrittenInOrder
  <2>3. PICK k \in resp.items : i <= k
    BY <1>2, <2>1, <2>2 DEF PInv, WrittenInOrder
  <2>4. k <= LastID /\ k \in Nat /\ i \in Nat
    BY <1>3, <1>4
  <2> QED
    BY <1>4, <2>3, <2>4
<1>7. ~Complete
  BY <1>2 DEF Complete
<1>8. currentPage' \in Nat \ {0} /\ currentPage' - 1 = currentPage
  BY <1>2 DEF PInv, ItemTypes
<1>9. options.mode = "next" =>
        \A i \in Ids : printed[i] > 0 =>
            Cardinality({k \in store : k <= i}) <= (currentPage' - 1) * ServerPageSize
  BY <1>2, <1>8 DEF PlaceKept
<1>10. options.mode = "next" /\ NothingDeleted =>
        \A i \in 1..InitialItems : i <= (currentPage' - 1) * ServerPageSize => printed[i] > 0
  BY <1>2, <1>8 DEF PlaceKept
<1>11. /\ r.items \subseteq Promise!Readable
       /\ \A i \in Promise!Owed, k \in r.items : i <= k => i \in r.items
  BY <1>1, <1>2, <1>4, <1>5, <1>6, <1>8, <1>9, <1>10, AnswerReads
<1>12. ASSUME Complete' PROVE Promise!Owed \subseteq r.items
  <2>1. ReadsEverything /\ failures' = {} /\ options' = options
    BY <1>2, <1>12 DEF Complete, ReadsEverything
  <2>2. r.kind = "ok"
    BY <1>1, <2>1
  <2>3. totalItems' = Cardinality(r.items) /\ Cardinality(r.items) \in Nat
    <3>1. r.items \subseteq Ids
      BY AnswerItems DEF PInv, ItemTypes
    <3> QED
      BY <1>1, <2>1, <3>1, FiniteIds DEF ItemCount, ReadsEverything
  <2>4. Cardinality(r.items) < ServerPageSize \/ (options.mode = "next" /\ ~r.next)
    <3>1. CASE pc' = "done"
      <4>1. totalItems' < options.pageSize
        BY <1>1, <2>1, <2>2, <3>1 DEF LastPage, ReadsEverything
      <4> QED
        BY <2>1, <2>3, <4>1, PagingAssumption, ItemsAssumption
           DEF ReadsEverything, PInv, ItemTypes, PagingOptionSet
    <3>2. CASE pc' = "more"
      <4>1. ~HasMore'
        BY <1>12, <3>2 DEF Complete
      <4>2. totalItems' = 0 \/ (options.mode = "next" /\ ~r.next)
        BY <1>1, <2>1, <2>2, <4>1 DEF HasMore
      <4> QED
        BY <2>3, <4>2, ItemsAssumption
    <3> QED
      BY <1>1, <3>1, <3>2
  <2> QED
    BY <1>1, <1>4, <1>5, <1>8, <1>10, <2>1, <2>2, <2>4, LastAnswerIsLast
<1> QED
  BY <1>1, <1>2, <1>7, <1>11, <1>12, RequestReads DEF Printed

\* The other steps are those of other clients, or none of the abstract listing.
LEMMA OthersListing ==
    ASSUME PInv, TypeOK, NoMorePages \/ ServerNext \/ UNCHANGED pagingVars
    PROVE  Promise!Next \/ UNCHANGED Promise!listingVars
<1>1. UNCHANGED <<options, currentPage, resp, totalItems, printed, failures>>
  BY DEF NoMorePages, ServerNext, Create, Delete, pagingVars, clientVars
<1>2. Complete' = Complete
  <2>1. HasMore' <=> HasMore
    BY <1>1 DEF HasMore
  <2>2. ReadsEverything' <=> ReadsEverything
    BY <1>1 DEF ReadsEverything
  <2>3. pc' = pc \/ (pc = "more" /\ ~HasMore /\ pc' = "done")
    BY DEF NoMorePages, ServerNext, Create, Delete, pagingVars, clientVars
  <2> QED
    BY <1>1, <2>1, <2>2, <2>3 DEF Complete
<1>3. CASE Create
  BY <1>1, <1>2, <1>3 DEF Create, Promise!Create, Promise!Next
<1>4. CASE Delete
  BY <1>1, <1>2, <1>4 DEF Delete, Promise!Delete, Promise!Next
<1>5. CASE UNCHANGED serverVars
  BY <1>1, <1>2, <1>5 DEF serverVars, Promise!listingVars
<1> QED
  BY <1>3, <1>4, <1>5 DEF ServerNext, NoMorePages, pagingVars

\* However the pages are requested and whatever is created and deleted between
\* them, the command reads on right behind what it has written, leaves out
\* nothing that it owes, and takes for complete only a listing that is: the
\* model implements Listing (request.go:402-462, 517-584).
THEOREM ListingIsKept == Spec => ImplementsListing
<1>1. Init => Promise!Init
  BY PagingAssumption DEF Init, Promise!Init, Promise!Ids, Ids, Complete, PagingOptionSet
<1>2. PInv /\ TypeOK /\ PlaceKept /\ [Next]_pagingVars => [Promise!Next]_(Promise!listingVars)
  BY FirstPageListing, NextPageListing, OthersListing DEF Next, ClientNext, Promise!Next
<1>3. ListInv => TypeOK
  BY DEF ListInv
<1> QED
  BY <1>1, <1>2, <1>3, PagingInvariant, ListingInvariant, PlaceInvariant, PTL
     DEF Spec, ImplementsListing, Promise!Spec
=============================================================================
