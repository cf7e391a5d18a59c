------------------------------ MODULE Listing -------------------------------
(***************************************************************************)
(* What a listing promises, without pages, links, options or errors: it    *)
(* reads a collection that other clients change, in the order of the ids.  *)
(* Each read takes, at one moment, items behind all those that it has      *)
(* written, leaves out none that it owes up to the last one it takes, and  *)
(* a listing is complete only if it owed nothing more at its last read.    *)
(***************************************************************************)
EXTENDS Naturals

CONSTANTS InitialItems, MaxItems

Ids == 1..MaxItems

VARIABLES
    mode,               \* how the collection is read, never written
    store, lastCreated, \* the collection
    written,            \* how often each item was written
    complete            \* the listing has come to its end

listingVars == <<mode, store, lastCreated, written, complete>>

Init ==
    /\ mode \in {"byId", "next", "byIdUnmatched"}
    /\ store = 1..InitialItems /\ lastCreated = InitialItems
    /\ written = [i \in Ids |-> 0] /\ complete = FALSE

\* Other clients
Create ==
    /\ lastCreated < MaxItems
    /\ lastCreated' = lastCreated + 1
    /\ store' = store \cup {lastCreated'}
    /\ UNCHANGED <<mode, written, complete>>

Delete ==
    /\ \E i \in store : store' = store \ {i}
    /\ UNCHANGED <<mode, lastCreated, written, complete>>

\* The items of the collection behind everything that was written.
Behind == {i \in store : \A k \in Ids : written[k] > 0 => k < i}

\* What the listing must not pass by: by ids every item; by links, which count
\* items, those that were there at the start, as long as none of them is deleted.
Owed ==
    IF mode = "byId" THEN Behind
    ELSE IF mode = "next" /\ 1..InitialItems \subseteq store THEN Behind \cap (1..InitialItems)
    ELSE {}

\* A query that cannot be continued reads the same items again.
Readable == IF mode = "byIdUnmatched" THEN store ELSE Behind

Read ==
    /\ ~complete
    /\ \E items \in SUBSET Readable :
          /\ \A i \in Owed, k \in items : i <= k => i \in items
          /\ written' = [i \in Ids |-> written[i] + (IF i \in items THEN 1 ELSE 0)]
          /\ complete' = FALSE \/ (complete' = TRUE /\ Owed \subseteq items)
    /\ UNCHANGED <<mode, store, lastCreated>>

Next == Create \/ Delete \/ Read

Spec == Init /\ [][Next]_listingVars
=============================================================================
