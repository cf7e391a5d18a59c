----------------------------- MODULE MCOutput -----------------------------
(* Three responses, two workers.                                             *)
EXTENDS Output

CONSTANTS w1, w2    \* the workers

\* Objects with two views, one kind without a view, an empty array and text.
Response(kind, rows) == [kind |-> kind, rows |-> rows]
MCResponses == {Response("device", 2), Response("alarm", 1), Response("plain", 1),
                Response("device", 0), Response("text", 1)}
MCBatches == [1 .. 3 -> MCResponses]
MCViewOptions == {"select", "off", "auto", "alarm"}
MCFormats == {"csv", "csvheader", "json", "table"}
Symmetry == Permutations(Workers)
====
