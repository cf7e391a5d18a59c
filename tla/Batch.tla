------------------------------- MODULE Batch --------------------------------
(***************************************************************************)
(* What a batch command promises, without goroutines, channels, prompts or *)
(* counters: the items of the input are read in order, each is processed   *)
(* at most once, requests start in input order and at most MaxParallel run *)
(* at a time, and the verdict agrees with what happened to the items.      *)
(***************************************************************************)
EXTENDS Naturals, FiniteSets

CONSTANTS NumInputs, MaxParallel

Jobs == 1..NumInputs

VARIABLES outcome, verdict

batchVars == <<outcome, verdict>>

With(s) == {j \in Jobs : outcome[j] = s}

Init == outcome = [j \in Jobs |-> "unread"] /\ verdict = "open"

\* The next item is read; it may be unusable, which may be tolerated.
Read(j) ==
    /\ verdict = "open"
    /\ outcome[j] = "unread"
    /\ \A i \in Jobs : i < j => outcome[i] # "unread"
    /\ \E s \in {"accepted", "rejected", "ignored"} : outcome' = [outcome EXCEPT ![j] = s]
    /\ UNCHANGED verdict

\* The user declines the item that was read last.
Decline(j) ==
    /\ verdict = "open"
    /\ outcome[j] = "accepted"
    /\ \A i \in Jobs : i > j => outcome[i] = "unread"
    /\ outcome' = [outcome EXCEPT ![j] = "rejected"]
    /\ UNCHANGED verdict

\* The request of the first accepted item is sent.
Start(j) ==
    /\ verdict = "open"
    /\ outcome[j] = "accepted"
    /\ \A i \in Jobs : i < j => outcome[i] # "accepted"
    /\ Cardinality(With("running")) < MaxParallel
    /\ outcome' = [outcome EXCEPT ![j] = "running"]
    /\ UNCHANGED verdict

Finish(j) ==
    /\ verdict = "open"
    /\ outcome[j] = "running"
    /\ \E s \in {"ok", "failed", "ignored"} : outcome' = [outcome EXCEPT ![j] = s]
    /\ UNCHANGED verdict

Settled == \A j \in Jobs : outcome[j] \in {"unread", "ok", "ignored"}

Verdict ==
    /\ verdict = "open"
    /\ \/ /\ Settled
          /\ With("unread") = {} \/ With("ignored") # {}
          /\ verdict' = "success"
       \/ /\ Settled
          /\ With("unread") # {}
          /\ verdict' = "limit"
       \/ /\ With("failed") \cup With("rejected") # {}
          /\ verdict' = "failure"
    /\ UNCHANGED outcome

Next ==
    \/ \E j \in Jobs : Read(j) \/ Decline(j) \/ Start(j) \/ Finish(j)
    \/ Verdict

Spec == Init /\ [][Next]_batchVars
=============================================================================
