---------------------------- MODULE MCSubscribe -----------------------------
(***************************************************************************)
(* An instance of Subscribe for TLC.                                       *)
(***************************************************************************)
EXTENDS Subscribe

\* With every kind of limit, and without, with one and two of three types.
AllCommands ==
    [multiple : BOOLEAN, limit : {-1, 0, 1, 2}, types : {{}, {"CREATE"}, {"CREATE", "DELETE"}}]
=============================================================================
