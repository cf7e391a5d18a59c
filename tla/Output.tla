------------------------------ MODULE Output ------------------------------
(* How the workers of a batch write their responses: the columns that the   *)
(* first response chooses for all of them (RequestHandler.ProcessResponse,  *)
(* DataView.GetView), the samples that the header is taken from             *)
(* (JSONFilters.filterJSON, Console.SetHeaderFromInput) and the lines of    *)
(* CSV, JSON and tables (jsonformatter, Console.Write).  The workers share  *)
(* one JSONFilters value, which no lock protects, one view and one console. *)
EXTENDS Naturals, Sequences, FiniteSets, SequencesExt

CONSTANTS
  Workers,       \* worker goroutines
  Batches,       \* sequences of responses [kind, rows], in the order of the jobs
  Viewed,        \* kinds of objects for which a view is defined
  Unviewed,      \* kinds of objects without a view
  ViewOptions,   \* "select": --select is given, "off": --view off, "auto", or a view's name
  Formats        \* "csv", "csvheader", "json", "table"

Kinds == Viewed \cup Unviewed

\* Objects of one kind have the same properties.  A response without rows is
\* an empty array, and one of kind "text" is no JSON.
ASSUME OutputAssumption ==
  /\ Workers # {} /\ IsFiniteSet(Workers)
  /\ Batches \subseteq Seq([kind : Kinds \cup {"text"}, rows : Nat])
  /\ ViewOptions \subseteq {"select", "off", "auto"} \cup Viewed
  /\ Formats \subseteq {"csv", "csvheader", "json", "table"}
  /\ {"select", "off", "auto", "text", "none", "all", "part"} \cap Kinds = {}

VARIABLES
  batch, view, format,   \* the responses and the options of the command
  taken,         \* responses that workers took
  pc, response,  \* of each worker: its step, and the index of its response
  columns,       \* of each worker: the columns it chose, and then those it read
  pending,       \* of each worker: fields of the slice it has still to store
  pluck,         \* commonOptions.Filters.Pluck, a slice: [array, length]
  activeView,    \* DataView.ActiveView; "none": not chosen
  sample,        \* Console.samples[0]
  header,        \* the columns of the header that was written
  tableColumns,  \* TableViewer.Columns
  out,           \* the lines that were written: [response, row, columns]
  crashed,       \* a worker read memory that is not there
  raced          \* history: columns were read while another worker chose some

options == <<batch, view, format>>
shown == <<header, tableColumns, out>>
vars == <<options, taken, pc, response, columns, pending, pluck, activeView, sample,
          shown, crashed, raced>>

(***************************************************************************)
(* Columns.  "selected" are those of --select, "all" stands for "**", a     *)
(* kind for the columns of its view.                                        *)
(***************************************************************************)
Slices == {"none", "selected", "all"} \cup Viewed
LengthOf(slice) == IF slice = "none" THEN 0 ELSE IF slice = "all" THEN 1 ELSE 2

(* The first definition that matches the first object; "all" without one,   *)
(* and for an empty array.                                                  *)
Matching(r) == IF r.kind \in Viewed /\ r.rows > 0 THEN r.kind ELSE "all"

(* Columns of the rows of r: "**" gives the properties that an object has.  *)
ColumnsOf(slice, r) == IF slice = "all" THEN <<"all", r.kind>> ELSE <<slice>>

(* No sample, no header, no columns. *)
None == << >>

Mine(w) == batch[response[w]]
At(w, step) == ~crashed /\ pc[w] = step
GoTo(w, step) == pc' = [pc EXCEPT ![w] = step]
Step(w, from, to) == At(w, from) /\ GoTo(w, to)

Init ==
  /\ batch \in Batches /\ view \in ViewOptions /\ format \in Formats
  /\ taken = 0
  /\ pc = [w \in Workers |-> "idle"] /\ response = [w \in Workers |-> 0]
  /\ columns = [w \in Workers |-> "none"] /\ pending = [w \in Workers |-> {}]
  /\ pluck = IF view = "select" THEN [array |-> "selected", length |-> 2]
             ELSE [array |-> "none", length |-> 0]
  /\ activeView = "none" /\ sample = None
  /\ header = None /\ tableColumns = None /\ out = << >>
  /\ crashed = FALSE /\ raced = FALSE

(* A response arrives at a worker.  Text is not filtered. *)
Take(w) ==
  /\ taken < Len(batch)
  /\ Step(w, "idle", IF batch[taken + 1].kind = "text" THEN "write" ELSE "check")
  /\ taken' = taken + 1
  /\ response' = [response EXCEPT ![w] = taken + 1]
  /\ UNCHANGED <<options, columns, pending, pluck, activeView, sample, shown, crashed, raced>>

(***************************************************************************)
(* The choice of the columns, without a lock on the filters.                *)
(***************************************************************************)
Choosing(w) == pc[w] \in {"choose", "match", "store"}

(* Mutant: with views that are chosen automatically, every response asks    *)
(* for its view.                                                            *)
CheckEveryTime(w) ==
  /\ Step(w, "check", IF view = "auto" \/ pluck.length = 0 THEN "choose" ELSE "filter")
  /\ raced' = (raced \/ \E other \in Workers \ {w} : Choosing(other))
  /\ UNCHANGED <<options, taken, response, columns, pending, pluck, activeView, sample,
                 shown, crashed>>

(* len(commonOptions.Filters.Pluck) == 0 *)
Check(w) ==
  /\ Step(w, "check", IF pluck.length = 0 THEN "choose" ELSE "filter")
  /\ raced' = (raced \/ \E other \in Workers \ {w} : Choosing(other))
  /\ UNCHANGED <<options, taken, response, columns, pending, pluck, activeView, sample,
                 shown, crashed>>

Chosen(w, slice) ==
  /\ columns' = [columns EXCEPT ![w] = slice]
  /\ pending' = [pending EXCEPT ![w] = {"array", "length"}]

(* The view option, and the first half of GetView: GetActiveView, and the   *)
(* empty array.                                                             *)
Choose(w) ==
  /\ At(w, "choose")
  /\ \/ view = "auto" /\ activeView = "none" /\ Mine(w).rows > 0
        /\ GoTo(w, "match") /\ UNCHANGED <<columns, pending>>
     \/ GoTo(w, "store")
        /\ \/ view = "auto" /\ activeView # "none" /\ Chosen(w, activeView)
           \/ view = "auto" /\ activeView = "none" /\ Mine(w).rows = 0 /\ Chosen(w, "all")
           \/ view = "off" /\ Chosen(w, "all")
           \/ view \in Viewed /\ Chosen(w, view)
  /\ UNCHANGED <<options, taken, response, pluck, activeView, sample, shown, crashed, raced>>

(* The second half of GetView: another lock, and another look at nothing.   *)
Match(w) ==
  /\ Step(w, "match", "store")
  /\ Chosen(w, Matching(Mine(w)))
  /\ activeView' = IF Mine(w).kind \in Viewed THEN Mine(w).kind ELSE activeView
  /\ UNCHANGED <<options, taken, response, pluck, sample, shown, crashed, raced>>

(* commonOptions.Filters.Pluck = props: the fields of the slice are stored  *)
(* one after the other.                                                     *)
Store(w, field) ==
  /\ field \in pending[w]
  /\ Step(w, "store", IF pending[w] = {field} THEN "filter" ELSE "store")
  /\ pending' = [pending EXCEPT ![w] = @ \ {field}]
  /\ pluck' = [pluck EXCEPT ![field] =
                 IF field = "array" THEN columns[w] ELSE LengthOf(columns[w])]
  /\ UNCHANGED <<options, taken, response, columns, activeView, sample, shown, crashed, raced>>

(***************************************************************************)
(* Filters and samples.                                                     *)
(***************************************************************************)
(* Apply copies the filters: what it reads of a slice that is being stored  *)
(* may reach behind the array, or be a part of it.                          *)
Filter(w) ==
  /\ At(w, "filter")
  /\ \/ pluck.length <= LengthOf(pluck.array)
        /\ GoTo(w, IF Mine(w).rows > 0 THEN "sample" ELSE "idle")
        /\ columns' = [columns EXCEPT ![w] =
             IF pluck.length = LengthOf(pluck.array) THEN pluck.array ELSE "part"]
        /\ UNCHANGED crashed
     \/ pluck.length > LengthOf(pluck.array)
        /\ GoTo(w, "idle") /\ crashed' = TRUE /\ UNCHANGED columns
  /\ UNCHANGED <<options, taken, response, pending, pluck, activeView, sample, shown, raced>>

(* SetHeaderFromInput, of which only the first sample is used. *)
Sample(w) ==
  /\ Step(w, "sample", "write")
  /\ sample' = IF sample = None THEN ColumnsOf(columns[w], Mine(w)) ELSE sample
  /\ UNCHANGED <<options, taken, response, columns, pending, pluck, activeView, shown,
                 crashed, raced>>

(***************************************************************************)
(* The console, under its lock.                                             *)
(***************************************************************************)
Line(w, row, cols) == [response |-> response[w], row |-> row, columns |-> cols]
RowsOut(w) == {i \in DOMAIN out : out[i].response = response[w]}

(* Mutant: with a header, CSV is written row by row as well. *)
WholeUnlessHeader(w) == Mine(w).kind = "text" \/ format = "csv"

(* Text and CSV are one write, JSON and tables one for each row. *)
Whole(w) == Mine(w).kind = "text" \/ format \in {"csv", "csvheader"}
LinesOf(w) ==
  IF Mine(w).kind = "text" THEN <<Line(w, 1, <<"text">>)>>
  ELSE LET cols == IF format = "table" THEN tableColumns' ELSE ColumnsOf(columns[w], Mine(w))
           first == Cardinality(RowsOut(w)) + 1
           last == IF Whole(w) THEN Mine(w).rows ELSE first
       IN [i \in 1 .. last - first + 1 |-> Line(w, first + i - 1, cols)]

InTable(w) == format = "table" /\ Mine(w).kind # "text"

TableSet(w) ==
  tableColumns' = IF InTable(w) /\ tableColumns = None THEN sample ELSE tableColumns

(* The first write shows the header. *)
HeaderSet(w) ==
  header' = IF out # << >> THEN header
            ELSE IF format = "csvheader" THEN sample
            ELSE IF InTable(w) THEN tableColumns'
            ELSE header

Write(w) ==
  /\ At(w, "write") /\ TableSet(w) /\ HeaderSet(w)
  /\ LET lines == LinesOf(w) IN
       /\ out' = out \o lines
       /\ GoTo(w, IF Mine(w).kind = "text" \/ Last(lines).row = Mine(w).rows
                  THEN "idle" ELSE "write")
  /\ UNCHANGED <<options, taken, response, columns, pending, pluck, activeView, sample,
                 crashed, raced>>

Done ==
  /\ \/ crashed
     \/ taken = Len(batch) /\ \A w \in Workers : pc[w] = "idle"
  /\ UNCHANGED vars

Next ==
  \/ \E w \in Workers :
       \/ Take(w) \/ Check(w) \/ Choose(w) \/ Match(w)
       \/ \E field \in {"array", "length"} : Store(w, field)
       \/ Filter(w) \/ Sample(w) \/ Write(w)
  \/ Done

Spec == Init /\ [][Next]_vars

-----------------------------------------------------------------------------
Shown == {<<slice>> : slice \in (Slices \ {"none", "all"}) \cup {"part", "text"}}
         \cup {<<"all", kind>> : kind \in Kinds}

(* Types of the state. *)
TypeOK ==
  /\ batch \in Batches /\ view \in ViewOptions /\ format \in Formats
  /\ taken \in 0 .. Len(batch)
  /\ pc \in [Workers -> {"idle", "check", "choose", "match", "store", "filter", "sample", "write"}]
  /\ response \in [Workers -> 0 .. Len(batch)]
  /\ columns \in [Workers -> Slices \cup {"part"}]
  /\ pending \in [Workers -> SUBSET {"array", "length"}]
  /\ pluck \in [array : Slices, length : 0 .. 2]
  /\ activeView \in Viewed \cup {"none"}
  /\ sample \in Shown \cup {None} /\ header \in Shown \cup {None}
  /\ tableColumns \in Shown \cup {None}
  /\ out \in Seq([response : 1 .. Len(batch), row : Nat, columns : Shown])
  /\ crashed \in BOOLEAN /\ raced \in BOOLEAN

Rows == {i \in DOMAIN out : out[i].columns # <<"text">>}

(* Memory was read that is not there, or a part of the chosen columns was   *)
(* taken for all of them: only while two workers were choosing.             *)
TornOnlyInARace ==
  crashed \/ (\E i \in Rows : out[i].columns = <<"part">>) => raced

(* All rows under a header have its columns, whichever worker gave the      *)
(* sample and whichever wrote first: always in a table; in CSV as long as   *)
(* no worker looked at the columns while another one chose them, which      *)
(* needs --select or luck, and unless all properties are shown.             *)
RowsFitHeader ==
  /\ format = "table" \/ (~raced /\ pluck.array # "all") =>
       \A i, j \in Rows : out[i].columns = out[j].columns
  /\ header # None /\ (format = "table" \/ (~raced /\ pluck.array # "all")) =>
       \A i \in Rows : out[i].columns = header
  /\ TornOnlyInARace

(* The first n lines that are of a response, and how many it has to get. *)
LinesTo(lines, r, n) == {i \in 1 .. n : lines[i].response = r}
Expected(r) == IF batch[r].kind = "text" THEN 1 ELSE batch[r].rows

RowsInOrder == \A i \in DOMAIN out : out[i].row = Cardinality(LinesTo(out, out[i].response, i))

Unbroken ==
  format \in {"csv", "csvheader"} =>
    \A i, k \in DOMAIN out : out[i].response = out[k].response =>
      \A j \in i .. k : out[j].response = out[i].response

NothingLeftOut ==
  \A r \in 1 .. Len(batch) :
    /\ Cardinality(LinesTo(out, r, Len(out))) <= Expected(r)
    /\ \/ Cardinality(LinesTo(out, r, Len(out))) = Expected(r)
       \/ r > taken \/ crashed
       \/ \E w \in Workers : pc[w] # "idle" /\ response[w] = r

(* Every response that a worker took and is done with was written: each of  *)
(* its rows once and in its order, whatever the other workers write         *)
(* meanwhile, and in CSV without a line of another response in between.     *)
EveryRowOnce == RowsInOrder /\ Unbroken /\ NothingLeftOut
====
