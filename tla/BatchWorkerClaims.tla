-------------------------- MODULE BatchWorkerClaims -------------------------
(***************************************************************************)
(* Statements that comments and documents of the repository make about the *)
(* batch pipeline and that the code does not keep.                         *)
(***************************************************************************)
EXTENDS MCBatchWorker

\* worker.go:271 says that the producer waits before a prompt "for any other
\* previous prompted jobs to finish".  So while it has to wait, some earlier
\* result is still under way.  An item the user declined has lowered
\* promptCount, the next confirmed item is then never released, and the
\* prompt after it waits for nothing, forever.
PromptWaitHasCause ==
    producer = "wait" /\ promptWG > 0 =>
        \/ collector # "receive"
        \/ \E j \in 1..(jobID - 1) : j \notin collected

ConfirmOnly == {Options(0, 0, TRUE, {}, FALSE)}
=============================================================================
