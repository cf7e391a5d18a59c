--------------------------- MODULE OutputProofs ---------------------------
(* Proofs about module Output, for any number of workers and of responses.  *)
EXTENDS Output, FiniteSetTheorems, TLAPS

Steps == {"idle", "check", "choose", "match", "store", "filter", "sample", "write"}

(* What a worker knows at its step. *)
Work ==
  \A w \in Workers :
    /\ pc[w] # "idle" => response[w] \in 1 .. Len(batch)
    /\ pc[w] \in Steps \ {"idle", "write"} => Mine(w).kind # "text"
    /\ pc[w] = "store" =>
         /\ columns[w] \in Slices \ {"none"} /\ pending[w] # {}
         /\ "length" \notin pending[w] => pluck.length # 0
    /\ pc[w] = "filter" => pluck.length # 0
    /\ pc[w] \in {"sample", "write"} /\ Mine(w).kind # "text" => columns[w] # "none"
    /\ pc[w] = "write" /\ Mine(w).kind # "text" => sample # None

(* Without a race one worker chooses while no other one looks, what it has  *)
(* stored is what it chose, and the two fields belong together otherwise.   *)
Calm ==
  ~raced =>
    /\ \A w, v \in Workers : Choosing(w) /\ v # w => ~Choosing(v) /\ pc[v] # "filter"
    /\ \A w \in Workers : pc[w] = "store" =>
         /\ "array" \notin pending[w] => pluck.array = columns[w]
         /\ "length" \notin pending[w] => pluck.length = LengthOf(columns[w])
    /\ (\A w \in Workers : pc[w] # "store") => pluck.length = LengthOf(pluck.array)

(* Nothing that is torn gets to the output. *)
Untorn ==
  ~raced =>
    /\ ~crashed
    /\ \A w \in Workers : columns[w] # "part"
    /\ sample # <<"part">> /\ tableColumns # <<"part">>
    /\ \A i \in DOMAIN out : out[i].columns # <<"part">>

IInv == TypeOK /\ Work /\ Calm /\ Untorn

(* In a table, the rows and the header have the columns of the table.       *)
TableFits ==
  format = "table" =>
    /\ \A i \in Rows : out[i].columns = tableColumns /\ tableColumns # None
    /\ header # None => header = tableColumns

HeaderFits == format # "table" /\ header # None => header = sample

(* Until the columns are chosen nothing that needs them is sampled or       *)
(* written; from then on samples and rows are as they were chosen.          *)
Unchosen == pluck.length = 0 \/ \E w \in Workers : Choosing(w)

ChoiceFits ==
  ~raced =>
    /\ Unchosen =>
         /\ sample = None
         /\ \A i \in Rows : format = "table"
         /\ \A w \in Workers : pc[w] \in {"sample", "write"} => Mine(w).kind = "text"
    /\ pluck.array # "all" =>
         /\ sample # None => sample = <<pluck.array>>
         /\ \A i \in Rows : format # "table" => out[i].columns = <<pluck.array>>
         /\ \A w \in Workers : pc[w] \in {"sample", "write"} /\ Mine(w).kind # "text" =>
              columns[w] = pluck.array

Fits == TableFits /\ HeaderFits /\ ChoiceFits

-----------------------------------------------------------------------------
(* Facts about the columns. *)
LEMMA Names ==
  /\ "none" \notin Viewed /\ "all" \notin Viewed /\ "part" \notin Slices
  /\ "text" \notin Kinds /\ "none" \notin Kinds /\ "all" \notin Kinds
  /\ \A c \in Batches : c \in Seq([kind : Kinds \cup {"text"}, rows : Nat])
  BY OutputAssumption DEF Slices, Kinds

LEMMA Lengths ==
  ASSUME NEW slice \in Slices
  PROVE  /\ LengthOf(slice) \in 0 .. 2
         /\ slice # "none" => LengthOf(slice) \in {1, 2}
         /\ LengthOf(slice) # 0 => slice # "none"
  BY DEF LengthOf

(* The rows of a response that is no text show one of the columns. *)
LEMMA ColumnsShown ==
  ASSUME NEW slice \in Slices \cup {"part"}, slice # "none",
         NEW r, r.kind \in Kinds
  PROVE  /\ ColumnsOf(slice, r) \in Shown
         /\ ColumnsOf(slice, r) # None
         /\ slice # "part" => ColumnsOf(slice, r) # <<"part">>
<1>1. CASE slice = "all"
  <2>1. ColumnsOf(slice, r) = <<"all", r.kind>>
    BY <1>1 DEF ColumnsOf
  <2> QED BY <2>1 DEF Shown, None
<1>2. CASE slice # "all"
  <2>1. ColumnsOf(slice, r) = <<slice>>
    BY <1>2 DEF ColumnsOf
  <2>2. slice \in (Slices \ {"none", "all"}) \cup {"part", "text"}
    BY <1>2
  <2> QED BY <2>1, <2>2 DEF Shown, None
<1> QED BY <1>1, <1>2

LEMMA EmptyInterval ==
  ASSUME NEW first \in Nat, NEW last \in Nat, last - first + 1 \notin Nat
  PROVE  1 .. last - first + 1 = {} /\ 1 .. 0 = {}
<1>1. last - first + 1 < 0
  OBVIOUS
<1> QED BY <1>1

LEMMA EmptyIn ==
  ASSUME NEW S
  PROVE  << >> \in Seq(S)
  OBVIOUS

LEMMA FunctionIsSequence ==
  ASSUME NEW S, NEW n \in Nat, NEW f \in [1 .. n -> S]
  PROVE  f \in Seq(S)
  OBVIOUS

LEMMA Element ==
  ASSUME NEW S, NEW s \in Seq(S), NEW i \in 1 .. Len(s)
  PROVE  s[i] \in S
  OBVIOUS

LEMMA MineType ==
  ASSUME IInv, NEW w \in Workers, pc[w] # "idle"
  PROVE  /\ Mine(w) \in [kind : Kinds \cup {"text"}, rows : Nat]
         /\ Mine(w).kind \in Kinds \cup {"text"}
         /\ Mine(w).rows \in Nat
<1>1. batch \in Seq([kind : Kinds \cup {"text"}, rows : Nat])
  BY Names DEF IInv, TypeOK
<1>2. response[w] \in 1 .. Len(batch)
  BY DEF IInv, Work
<1>3. batch[response[w]] \in [kind : Kinds \cup {"text"}, rows : Nat]
  BY <1>1, <1>2, Element
<1> QED BY <1>3 DEF Mine

LEMMA GoesOn ==
  ASSUME TypeOK, NEW w \in Workers, pc' = [pc EXCEPT ![w] = pc'[w]], pc'[w] \in Steps
  PROVE  pc' \in [Workers -> {"idle", "check", "choose", "match", "store", "filter", "sample", "write"}]
<1>1. pc \in [Workers -> Steps]
  BY DEF TypeOK, Steps
<1>2. pc' \in [Workers -> Steps]
  BY <1>1
<1> QED BY <1>2 DEF Steps

-----------------------------------------------------------------------------
LEMMA Start == Init => IInv
<1> SUFFICES ASSUME Init PROVE IInv
  OBVIOUS
<1>1. TypeOK
  <2>1. pluck \in [array : Slices, length : 0 .. 2]
    BY DEF Init, Slices
  <2>2. taken \in 0 .. Len(batch) /\ response \in [Workers -> 0 .. Len(batch)]
    <3>1. Len(batch) \in Nat
      BY Names DEF Init
    <3> QED BY <3>1 DEF Init
  <2>3. out \in Seq([response : 1 .. Len(batch), row : Nat, columns : Shown])
    BY DEF Init
  <2> QED BY <2>1, <2>2, <2>3 DEF Init, TypeOK, Slices
<1>2. Work
  BY DEF Init, Work, Steps
<1>3. Calm
  BY DEF Init, Calm, LengthOf, Choosing
<1>4. Untorn
  BY DEF Init, Untorn, None
<1> QED BY <1>1, <1>2, <1>3, <1>4 DEF IInv

LEMMA TakeStep ==
  ASSUME IInv, NEW w \in Workers, Take(w)
  PROVE  IInv'
<1> USE DEF IInv
<1>1. Len(batch) \in Nat /\ taken + 1 \in 1 .. Len(batch)
  BY Names DEF TypeOK, Take
<1>2. /\ pc[w] = "idle" /\ pc' = [pc EXCEPT ![w] = pc'[w]]
      /\ pc'[w] = (IF batch[taken + 1].kind = "text" THEN "write" ELSE "check")
      /\ response' = [response EXCEPT ![w] = taken + 1]
      /\ UNCHANGED <<options, columns, pending, pluck, activeView, sample, shown, crashed, raced>>
  BY DEF Take, Step, At, GoTo, TypeOK
<1>3. TypeOK'
  <2>1. pc' \in [Workers -> {"idle", "check", "choose", "match", "store", "filter", "sample", "write"}]
    BY <1>2, GoesOn DEF Steps
  <2>2. response' \in [Workers -> 0 .. Len(batch)] /\ taken' \in 0 .. Len(batch)
    BY <1>1, <1>2 DEF TypeOK, Take
  <2> QED BY <1>2, <2>1, <2>2 DEF TypeOK, options, shown
<1>4. Work'
  <2> SUFFICES ASSUME NEW v \in Workers
               PROVE  /\ pc'[v] # "idle" => response'[v] \in 1 .. Len(batch')
                      /\ pc'[v] \in Steps \ {"idle", "write"} => Mine(v)'.kind # "text"
                      /\ pc'[v] = "store" =>
                           /\ columns'[v] \in Slices \ {"none"} /\ pending'[v] # {}
                           /\ "length" \notin pending'[v] => pluck'.length # 0
                      /\ pc'[v] = "filter" => pluck'.length # 0
                      /\ pc'[v] \in {"sample", "write"} /\ Mine(v)'.kind # "text" => columns'[v] # "none"
                      /\ pc'[v] = "write" /\ Mine(v)'.kind # "text" => sample' # None
    BY DEF Work
  <2>1. CASE v = w
    <3>1. response'[v] = taken + 1 /\ batch' = batch
      BY <1>2, <2>1 DEF TypeOK, options
    <3>2. Mine(v)' = batch[taken + 1]
      BY <3>1 DEF Mine
    <3> QED BY <1>1, <1>2, <2>1, <3>1, <3>2
  <2>2. CASE v # w
    BY <1>2, <2>2 DEF TypeOK, Work, Mine, options, shown
  <2> QED BY <2>1, <2>2
<1>5. Calm'
  <2>1. \A v \in Workers : /\ Choosing(v)' <=> Choosing(v)
                           /\ pc'[v] \in {"store", "filter"} <=> pc[v] \in {"store", "filter"}
                           /\ pc[v] \in {"store", "filter"} => pc'[v] = pc[v]
    BY <1>2 DEF TypeOK, Choosing
  <2>2. pending' = pending /\ pluck' = pluck /\ columns' = columns /\ raced' = raced
    BY <1>2
  <2> QED BY <2>1, <2>2 DEF Calm
<1>6. Untorn'
  BY <1>2 DEF Untorn, shown
<1> QED BY <1>3, <1>4, <1>5, <1>6

LEMMA CheckStep ==
  ASSUME IInv, NEW w \in Workers, Check(w)
  PROVE  IInv'
<1> USE DEF IInv
<1>1. /\ pc[w] = "check" /\ pc' = [pc EXCEPT ![w] = pc'[w]]
      /\ pc'[w] = (IF pluck.length = 0 THEN "choose" ELSE "filter")
      /\ UNCHANGED <<options, taken, response, columns, pending, pluck, activeView, sample, shown,
                     crashed>>
      /\ raced' = (raced \/ \E other \in Workers \ {w} : Choosing(other))
  BY DEF Check, Step, At, GoTo, TypeOK
<1>2. TypeOK'
  <2>1. pc' \in [Workers -> {"idle", "check", "choose", "match", "store", "filter", "sample", "write"}]
    BY <1>1, GoesOn DEF Steps
  <2> QED BY <1>1, <2>1 DEF TypeOK, options, shown
<1>3. Work'
  BY <1>1 DEF Work, TypeOK, Mine, options, shown, Steps
<1>4. Calm'
  <2> SUFFICES ASSUME ~raced' PROVE Calm'
    BY DEF Calm
  <2>1. ~raced /\ \A other \in Workers \ {w} : ~Choosing(other)
    BY <1>1
  <2>2. ASSUME NEW u \in Workers, NEW v \in Workers, Choosing(u)', v # u
        PROVE  ~Choosing(v)' /\ pc'[v] # "filter"
    <3>1. u = w
      BY <1>1, <2>1, <2>2 DEF Choosing, TypeOK
    <3>2. pc'[w] = "choose" /\ pluck.length = 0
      BY <1>1, <2>2, <3>1 DEF Choosing
    <3>3. pc'[v] = pc[v]
      BY <1>1, <2>2, <3>1 DEF TypeOK
    <3> QED BY <2>1, <2>2, <3>1, <3>2, <3>3 DEF Work, Choosing
  <2>3. \A v \in Workers : pc[v] # "store"
    BY <1>1, <2>1 DEF Choosing
  <2>4. \A v \in Workers : pc'[v] # "store"
    BY <1>1, <2>3 DEF TypeOK
  <2>5. pluck'.length = LengthOf(pluck'.array)
    BY <1>1, <2>1, <2>3 DEF Calm, LengthOf
  <2> QED BY <2>2, <2>4, <2>5 DEF Calm
<1>5. Untorn'
  BY <1>1 DEF Untorn, shown
<1> QED BY <1>2, <1>3, <1>4, <1>5

(* Both steps that choose leave the worker among those that choose, and the *)
(* filters alone.                                                           *)
LEMMA ChoiceStep ==
  ASSUME IInv, NEW w \in Workers, pc[w] \in {"choose", "match"},
         pc' = [pc EXCEPT ![w] = pc'[w]],
         \/ pc'[w] = "match" /\ UNCHANGED <<columns, pending>>
         \/ pc'[w] = "store" /\ \E slice \in Slices \ {"none"} : Chosen(w, slice),
         activeView' \in Viewed \cup {"none"},
         UNCHANGED <<options, taken, response, pluck, sample, shown, crashed, raced>>
  PROVE  IInv'
<1> USE DEF IInv
<1>1. /\ \A v \in Workers \ {w} : /\ pc'[v] = pc[v] /\ columns'[v] = columns[v]
                                  /\ pending'[v] = pending[v]
      /\ pc'[w] \in {"match", "store"}
      /\ pc'[w] = "store" => /\ columns'[w] \in Slices \ {"none"}
                             /\ pending'[w] = {"array", "length"}
      /\ pc'[w] = "match" => columns'[w] = columns[w]
      /\ columns' \in [Workers -> Slices \cup {"part"}]
      /\ pending' \in [Workers -> SUBSET {"array", "length"}]
  <2>1. /\ pc \in [Workers -> Steps] /\ columns \in [Workers -> Slices \cup {"part"}]
        /\ pending \in [Workers -> SUBSET {"array", "length"}]
    BY DEF TypeOK, Steps
  <2>2. CASE pc'[w] = "match" /\ UNCHANGED <<columns, pending>>
    BY <2>1, <2>2
  <2>3. ASSUME pc'[w] = "store", NEW slice \in Slices \ {"none"}, Chosen(w, slice)
        PROVE  <1>1!:
    BY <2>1, <2>3 DEF Chosen
  <2> QED BY <2>2, <2>3
<1>2. TypeOK'
  <2>1. pc' \in [Workers -> {"idle", "check", "choose", "match", "store", "filter", "sample", "write"}]
    BY <1>1, GoesOn DEF Steps
  <2> QED BY <1>1, <2>1 DEF TypeOK, options, shown
<1>3. Work'
  <2>1. \A v \in Workers : Mine(v)' = Mine(v)
    BY DEF Mine, options
  <2>2. batch' = batch /\ response' = response /\ pluck' = pluck /\ sample' = sample
    BY DEF options
  <2> SUFFICES ASSUME NEW v \in Workers
               PROVE  /\ pc'[v] # "idle" => response[v] \in 1 .. Len(batch)
                      /\ pc'[v] \in Steps \ {"idle", "write"} => Mine(v).kind # "text"
                      /\ pc'[v] = "store" =>
                           /\ columns'[v] \in Slices \ {"none"} /\ pending'[v] # {}
                           /\ "length" \notin pending'[v] => pluck.length # 0
                      /\ pc'[v] = "filter" => pluck.length # 0
                      /\ pc'[v] \in {"sample", "write"} /\ Mine(v).kind # "text" => columns'[v] # "none"
                      /\ pc'[v] = "write" /\ Mine(v).kind # "text" => sample # None
    BY <2>1, <2>2 DEF Work
  <2>3. CASE v = w
    BY <1>1, <2>3 DEF Work, Steps
  <2>4. CASE v # w
    BY <1>1, <2>4 DEF Work
  <2> QED BY <2>3, <2>4
<1>4. Calm'
  <2>1. \A v \in Workers : /\ Choosing(v)' <=> Choosing(v)
                           /\ pc'[v] = "filter" <=> pc[v] = "filter"
    BY <1>1 DEF Choosing
  <2>2. (\A v \in Workers : pc'[v] # "store") => \A v \in Workers : pc[v] # "store"
    BY <1>1
  <2>3. \A v \in Workers : pc'[v] = "store" =>
          (pc[v] = "store" /\ v # w) \/ pending'[v] = {"array", "length"}
    BY <1>1
  <2>4. \A v \in Workers : v # w => pending'[v] = pending[v] /\ columns'[v] = columns[v]
    BY <1>1
  <2> QED BY <2>1, <2>2, <2>3, <2>4 DEF Calm
<1>5. Untorn'
  BY <1>1, Names DEF Untorn, shown
<1> QED BY <1>2, <1>3, <1>4, <1>5

LEMMA ChooseStep ==
  ASSUME IInv, NEW w \in Workers, Choose(w)
  PROVE  IInv'
<1>1. pc[w] = "choose" /\ pc' = [pc EXCEPT ![w] = pc'[w]]
  BY DEF Choose, At, GoTo, IInv, TypeOK
<1>2. \/ pc'[w] = "match" /\ UNCHANGED <<columns, pending>>
      \/ pc'[w] = "store" /\ \E slice \in Slices \ {"none"} : Chosen(w, slice)
  <2>1. CASE pc'[w] = "match" /\ UNCHANGED <<columns, pending>>
    BY <2>1
  <2>2. ASSUME NEW slice \in {activeView, "all", view}, Chosen(w, slice), GoTo(w, "store"),
               slice = activeView => activeView # "none",
               slice = view => view \in Viewed
        PROVE  pc'[w] = "store" /\ \E s \in Slices \ {"none"} : Chosen(w, s)
    <3>1. slice \in Slices \ {"none"}
      BY <2>2, Names DEF Slices, IInv, TypeOK
    <3>2. pc'[w] = "store"
      BY <2>2 DEF GoTo, IInv, TypeOK
    <3> QED BY <2>2, <3>1, <3>2
  <2> QED BY <2>1, <2>2, Names DEF Choose, GoTo, IInv, TypeOK, Kinds
<1> QED BY <1>1, <1>2, ChoiceStep DEF Choose, IInv, TypeOK

LEMMA MatchStep ==
  ASSUME IInv, NEW w \in Workers, Match(w)
  PROVE  IInv'
<1>1. pc[w] = "match" /\ pc' = [pc EXCEPT ![w] = pc'[w]] /\ pc'[w] = "store"
  BY DEF Match, Step, At, GoTo, IInv, TypeOK
<1>2. Matching(Mine(w)) \in Slices \ {"none"}
  BY Names DEF Matching, Slices
<1>3. activeView' \in Viewed \cup {"none"}
  BY DEF Match, IInv, TypeOK
<1> QED BY <1>1, <1>2, <1>3, ChoiceStep DEF Match

LEMMA StoreStep ==
  ASSUME IInv, NEW w \in Workers, NEW field \in {"array", "length"}, Store(w, field)
  PROVE  IInv'
<1> USE DEF IInv
<1>1. /\ pc[w] = "store" /\ pc' = [pc EXCEPT ![w] = pc'[w]] /\ field \in pending[w]
      /\ pc'[w] = (IF pending[w] = {field} THEN "filter" ELSE "store")
      /\ pending' = [pending EXCEPT ![w] = pending[w] \ {field}]
      /\ pluck' = [pluck EXCEPT ![field] =
                     IF field = "array" THEN columns[w] ELSE LengthOf(columns[w])]
      /\ UNCHANGED <<options, taken, response, columns, activeView, sample, shown, crashed, raced>>
  BY DEF Store, Step, At, GoTo, TypeOK
<1>2. columns[w] \in Slices \ {"none"} /\ LengthOf(columns[w]) \in {1, 2}
  BY <1>1, Lengths DEF Work
<1>3. pluck' \in [array : Slices, length : 0 .. 2]
  BY <1>1, <1>2 DEF TypeOK
<1>4. /\ field = "array" => pluck'.array = columns[w] /\ pluck'.length = pluck.length
      /\ field = "length" => pluck'.length = LengthOf(columns[w]) /\ pluck'.array = pluck.array
      /\ pluck.length # 0 => pluck'.length # 0
  BY <1>1, <1>2 DEF TypeOK
<1>5. TypeOK'
  <2>1. pc' \in [Workers -> {"idle", "check", "choose", "match", "store", "filter", "sample", "write"}]
    BY <1>1, GoesOn DEF Steps
  <2>2. pending' \in [Workers -> SUBSET {"array", "length"}]
    BY <1>1 DEF TypeOK
  <2> QED BY <1>1, <1>3, <2>1, <2>2 DEF TypeOK, options, shown
<1>6. Work'
  <2>1. \A v \in Workers : Mine(v)' = Mine(v)
    BY <1>1 DEF Mine, options
  <2>2. /\ pc'[w] = "store" => /\ pending'[w] # {}
                                /\ "length" \notin pending'[w] => pluck'.length # 0
        /\ pc'[w] = "filter" => pluck'.length # 0
    BY <1>1, <1>2, <1>4 DEF TypeOK, Work
  <2>3. \A v \in Workers \ {w} : pc'[v] = pc[v] /\ pending'[v] = pending[v]
    BY <1>1 DEF TypeOK
  <2>4. pc'[w] \in {"store", "filter"}
    BY <1>1
  <2> QED BY <1>1, <1>2, <1>4, <2>1, <2>2, <2>3, <2>4 DEF Work, Steps, options
<1>7. Calm'
  <2> SUFFICES ASSUME ~raced PROVE Calm'
    BY <1>1 DEF Calm
  <2>1. \A v \in Workers \ {w} : ~Choosing(v) /\ pc[v] # "filter" /\ pc'[v] = pc[v]
    BY <1>1 DEF Calm, Choosing, TypeOK
  <2>2. ASSUME NEW u \in Workers, NEW v \in Workers, Choosing(u)', v # u
        PROVE  ~Choosing(v)' /\ pc'[v] # "filter"
    BY <2>1, <2>2 DEF Choosing
  <2>3. /\ "array" \notin pending'[w] => pluck'.array = columns[w]
        /\ "length" \notin pending'[w] => pluck'.length = LengthOf(columns[w])
    BY <1>1, <1>4 DEF Calm, TypeOK
  <2>4. ASSUME NEW v \in Workers, pc'[v] = "store"
        PROVE  /\ "array" \notin pending'[v] => pluck'.array = columns'[v]
               /\ "length" \notin pending'[v] => pluck'.length = LengthOf(columns'[v])
    <3>1. v = w
      BY <2>1, <2>4 DEF Choosing
    <3> QED BY <1>1, <2>3, <3>1
  <2>5. ASSUME \A v \in Workers : pc'[v] # "store"
        PROVE  pluck'.length = LengthOf(pluck'.array)
    <3>1. pending[w] = {field}
      BY <1>1, <2>5
    <3>2. pending'[w] = {}
      BY <1>1, <3>1 DEF TypeOK
    <3> QED BY <2>3, <3>2
  <2> QED BY <2>2, <2>4, <2>5 DEF Calm
<1>8. Untorn'
  BY <1>1 DEF Untorn, shown
<1> QED BY <1>5, <1>6, <1>7, <1>8

(* A worker that neither chooses nor looks at the columns disturbs nobody   *)
(* who does.                                                                *)
LEMMA CalmStep ==
  ASSUME TypeOK, Calm, NEW w \in Workers, ~Choosing(w),
         pc' = [pc EXCEPT ![w] = pc'[w]], pc'[w] \in {"idle", "sample", "write"},
         \A v \in Workers \ {w} : columns'[v] = columns[v],
         UNCHANGED <<pending, pluck, raced>>
  PROVE  Calm'
<1>1. \A v \in Workers : /\ Choosing(v)' <=> Choosing(v)
                         /\ pc'[v] = "filter" => pc[v] = "filter"
                         /\ pc'[v] = "store" <=> pc[v] = "store" /\ v # w
  BY DEF TypeOK, Choosing
<1>2. (\A v \in Workers : pc'[v] # "store") => \A v \in Workers : pc[v] # "store"
  BY <1>1 DEF Choosing
<1> QED BY <1>1, <1>2 DEF Calm

LEMMA FilterStep ==
  ASSUME IInv, NEW w \in Workers, Filter(w)
  PROVE  IInv'
<1> USE DEF IInv
<1>1. /\ pc[w] = "filter" /\ pc' = [pc EXCEPT ![w] = pc'[w]]
      /\ pc'[w] \in {"idle", "sample"}
      /\ UNCHANGED <<options, taken, response, pending, pluck, activeView, sample, shown, raced>>
  BY DEF Filter, At, GoTo, TypeOK
<1>2. /\ pluck.length \in 1 .. 2 /\ pluck.array \in Slices
      /\ LengthOf(pluck.array) \in 0 .. 2 /\ LengthOf("none") = 0
  BY <1>1, Lengths DEF Work, TypeOK, LengthOf
<1>3. \/ /\ pluck.length <= LengthOf(pluck.array) /\ crashed' = crashed
         /\ columns' = [columns EXCEPT ![w] =
              IF pluck.length = LengthOf(pluck.array) THEN pluck.array ELSE "part"]
      \/ pluck.length > LengthOf(pluck.array) /\ pc'[w] = "idle" /\ columns' = columns
         /\ crashed' = TRUE
  BY DEF Filter, GoTo, TypeOK
<1>4. /\ \A v \in Workers \ {w} : pc'[v] = pc[v] /\ columns'[v] = columns[v]
      /\ columns' \in [Workers -> Slices \cup {"part"}]
      /\ pc'[w] = "sample" => columns'[w] # "none"
  <2>1. columns \in [Workers -> Slices \cup {"part"}] /\ pc \in [Workers -> Steps]
    BY DEF TypeOK, Steps
  <2> QED BY <1>1, <1>2, <1>3, <2>1
<1>5. TypeOK'
  <2>1. crashed' \in BOOLEAN
    BY <1>3 DEF TypeOK
  <2>2. pc' \in [Workers -> {"idle", "check", "choose", "match", "store", "filter", "sample", "write"}]
    BY <1>1, GoesOn DEF Steps
  <2> QED BY <1>1, <1>4, <2>1, <2>2 DEF TypeOK, options, shown
<1>6. Work'
  <2>1. \A v \in Workers : Mine(v)' = Mine(v)
    BY <1>1 DEF Mine, options
  <2>2. batch' = batch
    BY <1>1 DEF options
  <2> QED BY <1>1, <1>4, <2>1, <2>2 DEF Work, Steps
<1>7. Calm'
  BY <1>1, <1>4, CalmStep DEF Choosing
<1>8. Untorn'
  <2> SUFFICES ASSUME ~raced PROVE Untorn'
    BY <1>1 DEF Untorn
  <2>1. \A v \in Workers : pc[v] # "store"
    BY <1>1 DEF Calm, Choosing
  <2>2. pluck.length = LengthOf(pluck.array)
    BY <2>1 DEF Calm
  <2>3. crashed' = crashed /\ columns' = [columns EXCEPT ![w] = pluck.array]
    BY <1>2, <1>3, <2>2
  <2>4. \A v \in Workers : columns'[v] # "part"
    BY <1>2, <2>3, Names DEF Untorn, TypeOK
  <2> QED BY <1>1, <2>3, <2>4 DEF Untorn, shown
<1> QED BY <1>5, <1>6, <1>7, <1>8

LEMMA SampleStep ==
  ASSUME IInv, NEW w \in Workers, Sample(w)
  PROVE  IInv'
<1> USE DEF IInv
<1>1. /\ pc[w] = "sample" /\ pc' = [pc EXCEPT ![w] = pc'[w]] /\ pc'[w] = "write"
      /\ sample' = (IF sample = None THEN ColumnsOf(columns[w], Mine(w)) ELSE sample)
      /\ UNCHANGED <<options, taken, response, columns, pending, pluck, activeView, shown,
                     crashed, raced>>
  BY DEF Sample, Step, At, GoTo, TypeOK
<1>2. /\ columns[w] \in Slices \cup {"part"} /\ columns[w] # "none"
      /\ Mine(w).kind \in Kinds
  BY <1>1, MineType DEF Work, TypeOK, Steps
<1>3. /\ ColumnsOf(columns[w], Mine(w)) \in Shown /\ ColumnsOf(columns[w], Mine(w)) # None
      /\ columns[w] # "part" => ColumnsOf(columns[w], Mine(w)) # <<"part">>
  BY <1>2, ColumnsShown
<1>4. TypeOK'
  <2>1. pc' \in [Workers -> {"idle", "check", "choose", "match", "store", "filter", "sample", "write"}]
    BY <1>1, GoesOn DEF Steps
  <2> QED BY <1>1, <1>3, <2>1 DEF TypeOK, options, shown
<1>5. Work'
  <2>1. \A v \in Workers : Mine(v)' = Mine(v)
    BY <1>1 DEF Mine, options
  <2>2. sample' # None /\ batch' = batch
    BY <1>1, <1>3 DEF options
  <2>3. \A v \in Workers \ {w} : pc'[v] = pc[v]
    BY <1>1 DEF TypeOK
  <2> QED BY <1>1, <1>2, <2>1, <2>2, <2>3 DEF Work, Steps
<1>6. Calm'
  BY <1>1, CalmStep DEF Choosing
<1>7. Untorn'
  BY <1>1, <1>3 DEF Untorn, shown
<1> QED BY <1>4, <1>5, <1>6, <1>7

(* What is written are lines with columns that may be shown.                *)
LEMMA LinesShown ==
  ASSUME IInv, NEW w \in Workers, pc[w] = "write", TableSet(w)
  PROVE  /\ tableColumns' \in Shown \cup {None}
         /\ LinesOf(w) \in Seq([response : 1 .. Len(batch), row : Nat, columns : Shown])
         /\ ~raced => /\ tableColumns' # <<"part">>
                      /\ \A i \in DOMAIN LinesOf(w) : LinesOf(w)[i].columns # <<"part">>
<1> DEFINE Printed == [response : 1 .. Len(batch), row : Nat, columns : Shown]
           cols == IF format = "table" THEN tableColumns' ELSE ColumnsOf(columns[w], Mine(w))
<1>1. response[w] \in 1 .. Len(batch) /\ Len(batch) \in Nat
  BY Names DEF IInv, Work, TypeOK
<1>2. tableColumns' = IF InTable(w) /\ tableColumns = None THEN sample ELSE tableColumns
  BY DEF TableSet
<1>3. tableColumns' \in Shown \cup {None} /\ (~raced => tableColumns' # <<"part">>)
  BY <1>2 DEF IInv, TypeOK, Untorn
<1>4. CASE Mine(w).kind = "text"
  <2>1. <<"text">> \in Shown /\ <<"text">> # <<"part">>
    BY DEF Shown
  <2>2. Line(w, 1, <<"text">>) \in Printed /\ Line(w, 1, <<"text">>).columns = <<"text">>
    BY <1>1, <2>1 DEF Line
  <2>3. LinesOf(w) = <<Line(w, 1, <<"text">>)>>
    BY <1>4 DEF LinesOf
  <2> QED BY <1>3, <2>1, <2>2, <2>3
<1>5. CASE Mine(w).kind # "text"
  <2>1. Mine(w).kind \in Kinds /\ Mine(w).rows \in Nat
    BY <1>5, MineType
  <2>2. cols \in Shown /\ (~raced => cols # <<"part">>)
    <3>1. CASE format = "table"
      <4>1. tableColumns' # None
        BY <1>2, <1>5, <3>1 DEF InTable, IInv, Work
      <4> QED BY <1>3, <3>1, <4>1
    <3>2. CASE format # "table"
      <4>1. columns[w] \in Slices \cup {"part"} /\ columns[w] # "none"
        BY <1>5 DEF IInv, TypeOK, Work
      <4>2. ~raced => columns[w] # "part"
        BY DEF IInv, Untorn
      <4> QED BY <2>1, <3>2, <4>1, <4>2, ColumnsShown
    <3> QED BY <3>1, <3>2
  <2> DEFINE first == Cardinality(RowsOut(w)) + 1
             last == IF Whole(w) THEN Mine(w).rows ELSE first
  <2>3. first \in Nat /\ last \in Nat
    <3>1. Len(out) \in Nat /\ DOMAIN out = 1 .. Len(out)
      BY DEF IInv, TypeOK
    <3>2. IsFiniteSet(DOMAIN out)
      BY <3>1, FS_Interval
    <3>3. IsFiniteSet(RowsOut(w))
      BY <3>2, FS_Subset DEF RowsOut
    <3> QED BY <2>1, <3>3, FS_CardinalityType
  <2>4. LinesOf(w) = [i \in 1 .. last - first + 1 |-> Line(w, first + i - 1, cols)]
    BY <1>5 DEF LinesOf
  <2> HIDE DEF cols, first, last
  <2>5. \A i \in 1 .. last - first + 1 : Line(w, first + i - 1, cols) \in Printed
                                        /\ Line(w, first + i - 1, cols).columns = cols
    BY <1>1, <2>2, <2>3 DEF Line
  <2>6. DOMAIN LinesOf(w) = 1 .. last - first + 1
        /\ \A i \in DOMAIN LinesOf(w) : LinesOf(w)[i] \in Printed /\ LinesOf(w)[i].columns = cols
    BY <2>4, <2>5
  <2>7. LinesOf(w) \in Seq(Printed)
    <3>1. CASE last - first + 1 \in Nat
      <4>1. LinesOf(w) \in [1 .. last - first + 1 -> Printed]
        BY <2>4, <2>5
      <4> QED BY <3>1, <4>1, FunctionIsSequence
    <3>2. CASE last - first + 1 \notin Nat
      <4>1. 1 .. last - first + 1 = {} /\ 1 .. 0 = {}
        BY <2>3, <3>2, EmptyInterval
      <4>2. LinesOf(w) = << >>
        BY <2>4, <4>1
      <4>3. << >> \in Seq(Printed)
        BY EmptyIn
      <4> HIDE DEF Printed
      <4> QED BY <4>2, <4>3
    <3> QED BY <3>1, <3>2
  <2> QED BY <1>3, <2>2, <2>6, <2>7
<1> QED BY <1>4, <1>5

LEMMA WriteStep ==
  ASSUME IInv, NEW w \in Workers, Write(w)
  PROVE  IInv'
<1> USE DEF IInv
<1>1. /\ pc[w] = "write" /\ pc' = [pc EXCEPT ![w] = pc'[w]] /\ pc'[w] \in {"idle", "write"}
      /\ TableSet(w) /\ HeaderSet(w) /\ out' = out \o LinesOf(w)
      /\ UNCHANGED <<options, taken, response, columns, pending, pluck, activeView, sample,
                     crashed, raced>>
  BY DEF Write, At, GoTo, TypeOK
<1>2. /\ tableColumns' \in Shown \cup {None}
      /\ LinesOf(w) \in Seq([response : 1 .. Len(batch), row : Nat, columns : Shown])
      /\ ~raced => /\ tableColumns' # <<"part">>
                   /\ \A i \in DOMAIN LinesOf(w) : LinesOf(w)[i].columns # <<"part">>
  BY <1>1, LinesShown
<1>3. header' \in Shown \cup {None}
  BY <1>1, <1>2 DEF HeaderSet, TypeOK
<1>4. out' \in Seq([response : 1 .. Len(batch), row : Nat, columns : Shown])
  BY <1>1, <1>2 DEF TypeOK
<1>5. \A v \in Workers \ {w} : pc'[v] = pc[v]
  BY <1>1 DEF TypeOK
<1>6. TypeOK'
  <2>1. pc' \in [Workers -> {"idle", "check", "choose", "match", "store", "filter", "sample", "write"}]
    BY <1>1, GoesOn DEF Steps
  <2> QED BY <1>1, <1>2, <1>3, <1>4, <2>1 DEF TypeOK, options
<1>7. Work'
  <2>1. \A v \in Workers : Mine(v)' = Mine(v)
    BY <1>1 DEF Mine, options
  <2> QED BY <1>1, <1>5, <2>1 DEF Work, Steps, options
<1>8. Calm'
  BY <1>1, CalmStep DEF Choosing
<1>9. Untorn'
  <2>1. \A i \in DOMAIN out' : \/ i \in DOMAIN out /\ out'[i] = out[i]
                              \/ \E j \in DOMAIN LinesOf(w) : out'[i] = LinesOf(w)[j]
    BY <1>1, <1>2 DEF TypeOK
  <2> QED BY <1>1, <1>2, <2>1 DEF Untorn
<1> QED BY <1>6, <1>7, <1>8, <1>9

-----------------------------------------------------------------------------
LEMMA Preserved == IInv /\ [Next]_vars => IInv'
<1> SUFFICES ASSUME IInv, [Next]_vars PROVE IInv'
  OBVIOUS
<1>1. ASSUME NEW w \in Workers,
             \/ Take(w) \/ Check(w) \/ Choose(w) \/ Match(w)
             \/ \E field \in {"array", "length"} : Store(w, field)
             \/ Filter(w) \/ Sample(w) \/ Write(w)
      PROVE  IInv'
  BY <1>1, TakeStep, CheckStep, ChooseStep, MatchStep, StoreStep, FilterStep, SampleStep, WriteStep
<1>2. CASE UNCHANGED vars
  BY <1>2 DEF IInv, TypeOK, Work, Calm, Untorn, Choosing, Mine, vars, options, shown
<1> QED BY <1>1, <1>2 DEF Next, Done

(* The filters, the view, the samples and the lines keep their types.       *)
THEOREM TypeCorrect == Spec => []TypeOK
<1>1. IInv => TypeOK
  BY DEF IInv
<1> QED BY Start, Preserved, <1>1, PTL DEF Spec

(* No worker reads behind the columns or prints a part of them, whatever    *)
(* the responses are, as long as none looked at the filters while another   *)
(* one was choosing.                                                        *)
THEOREM NothingTorn == Spec => []TornOnlyInARace
<1>1. IInv => TornOnlyInARace
  BY DEF IInv, Untorn, TornOnlyInARace, Rows
<1> QED BY Start, Preserved, <1>1, PTL DEF Spec
-----------------------------------------------------------------------------
(* The rows fit the header.                                                 *)

(* Steps that write nothing and lead no response to the sample.             *)
LEMMA FitsFrame ==
  ASSUME Fits, UNCHANGED <<format, sample, shown>>, raced => raced',
         ~raced' /\ Unchosen' => Unchosen,
         ~raced' /\ pluck'.array # pluck.array => Unchosen,
         \A v \in Workers : pc'[v] \in {"sample", "write"} /\ Mine(v)'.kind # "text" =>
           /\ pc[v] \in {"sample", "write"} /\ Mine(v).kind # "text"
           /\ columns'[v] = columns[v]
  PROVE  Fits'
<1>1. UNCHANGED <<header, tableColumns, out>> /\ Rows' = Rows
  BY DEF shown, Rows
<1>2. TableFits' /\ HeaderFits'
  BY <1>1 DEF Fits, TableFits, HeaderFits
<1>3. ChoiceFits'
  <2>1. SUFFICES ASSUME ~raced' PROVE ChoiceFits'
    BY DEF ChoiceFits
  <2>2. CASE Unchosen
    BY <1>1, <2>1, <2>2 DEF Fits, ChoiceFits
  <2>3. CASE ~Unchosen
    BY <1>1, <2>1, <2>3 DEF Fits, ChoiceFits
  <2> QED BY <2>2, <2>3
<1> QED BY <1>2, <1>3 DEF Fits

LEMMA FitsTake ==
  ASSUME IInv, Fits, NEW w \in Workers, Take(w)
  PROVE  Fits'
<1>1. /\ pc[w] = "idle" /\ pc' = [pc EXCEPT ![w] = pc'[w]]
      /\ pc'[w] = (IF batch[taken + 1].kind = "text" THEN "write" ELSE "check")
      /\ response' = [response EXCEPT ![w] = taken + 1]
      /\ UNCHANGED <<options, columns, pluck, sample, shown, raced>>
  BY DEF Take, Step, At, GoTo, IInv, TypeOK
<1>2. \A v \in Workers : Choosing(v)' <=> Choosing(v)
  BY <1>1 DEF IInv, TypeOK, Choosing
<1>3. ASSUME NEW v \in Workers, pc'[v] \in {"sample", "write"}, Mine(v)'.kind # "text"
      PROVE  pc[v] \in {"sample", "write"} /\ Mine(v).kind # "text"
  <2>1. CASE v = w
    <3>1. Mine(w)' = batch[taken + 1]
      BY <1>1 DEF IInv, TypeOK, Mine, options
    <3> QED BY <1>1, <1>3, <2>1, <3>1
  <2>2. CASE v # w
    BY <1>1, <1>3, <2>2 DEF IInv, TypeOK, Mine, options
  <2> QED BY <2>1, <2>2
<1>4. Unchosen' <=> Unchosen
  BY <1>1, <1>2 DEF Unchosen
<1> QED BY <1>1, <1>3, <1>4, FitsFrame DEF options

LEMMA FitsCheck ==
  ASSUME IInv, Fits, NEW w \in Workers, Check(w)
  PROVE  Fits'
<1>1. /\ pc[w] = "check" /\ pc' = [pc EXCEPT ![w] = pc'[w]]
      /\ pc'[w] = (IF pluck.length = 0 THEN "choose" ELSE "filter")
      /\ UNCHANGED <<options, response, columns, pluck, sample, shown>>
      /\ raced' = (raced \/ \E other \in Workers \ {w} : Choosing(other))
  BY DEF Check, Step, At, GoTo, IInv, TypeOK
<1>2. \A v \in Workers : v # w => pc'[v] = pc[v]
  BY <1>1 DEF IInv, TypeOK
<1>3. Unchosen' => Unchosen
  BY <1>1, <1>2 DEF Unchosen, Choosing
<1>4. \A v \in Workers : Mine(v)' = Mine(v)
  BY <1>1 DEF Mine, options
<1>5. \A v \in Workers : pc'[v] \in {"sample", "write"} => pc[v] = pc'[v]
  BY <1>1, <1>2
<1> QED BY <1>1, <1>3, <1>4, <1>5, FitsFrame DEF options

(* The choice of the columns ends before anything that needs them.          *)
LEMMA FitsChoice ==
  ASSUME IInv, Fits, NEW w \in Workers, Choosing(w),
         pc' = [pc EXCEPT ![w] = pc'[w]], pc'[w] \in {"match", "store", "filter"},
         UNCHANGED <<options, response, sample, shown, raced>>,
         \A v \in Workers \ {w} : columns'[v] = columns[v]
  PROVE  Fits'
<1>1. Unchosen
  BY DEF Unchosen
<1>2. \A v \in Workers : v # w => pc'[v] = pc[v]
  BY DEF IInv, TypeOK
<1>3. \A v \in Workers : Mine(v)' = Mine(v)
  BY DEF Mine, options
<1>4. \A v \in Workers : pc'[v] \in {"sample", "write"} => v # w /\ pc[v] = pc'[v]
  BY <1>2
<1>5. format' = format
  BY DEF options
<1> QED BY <1>1, <1>3, <1>4, <1>5, FitsFrame

LEMMA FitsChoose ==
  ASSUME IInv, Fits, NEW w \in Workers, Choose(w) \/ Match(w)
  PROVE  Fits'
<1>1. /\ pc[w] \in {"choose", "match"} /\ pc' = [pc EXCEPT ![w] = pc'[w]]
      /\ pc'[w] \in {"match", "store"}
      /\ UNCHANGED <<options, response, sample, shown, raced>>
  BY DEF Choose, Match, Step, At, GoTo, IInv, TypeOK
<1>2. columns' = columns \/ \E slice : columns' = [columns EXCEPT ![w] = slice]
  BY DEF Choose, Match, Chosen
<1>3. \A v \in Workers \ {w} : columns'[v] = columns[v]
  BY <1>2 DEF IInv, TypeOK
<1> QED BY <1>1, <1>3, FitsChoice DEF Choosing

LEMMA FitsStore ==
  ASSUME IInv, Fits, NEW w \in Workers, NEW field \in {"array", "length"}, Store(w, field)
  PROVE  Fits'
<1>1. /\ pc[w] = "store" /\ pc' = [pc EXCEPT ![w] = pc'[w]]
      /\ pc'[w] \in {"store", "filter"}
      /\ UNCHANGED <<options, response, columns, sample, shown, raced>>
  BY DEF Store, Step, At, GoTo, IInv, TypeOK
<1> QED BY <1>1, FitsChoice DEF Choosing

LEMMA FitsFilter ==
  ASSUME IInv, Fits, NEW w \in Workers, Filter(w)
  PROVE  Fits'
<1>1. /\ pc[w] = "filter" /\ pc' = [pc EXCEPT ![w] = pc'[w]]
      /\ pc'[w] \in {"idle", "sample"}
      /\ UNCHANGED <<options, response, pluck, sample, shown, raced>>
      /\ columns' = columns \/ \E slice : columns' = [columns EXCEPT ![w] = slice]
  BY DEF Filter, At, GoTo, IInv, TypeOK
<1>2. \A v \in Workers : v # w => pc'[v] = pc[v] /\ columns'[v] = columns[v]
  BY <1>1 DEF IInv, TypeOK
<1>3. \A v \in Workers : Mine(v)' = Mine(v) /\ (Choosing(v)' <=> Choosing(v))
  BY <1>1, <1>2 DEF Mine, options, Choosing
<1>4. Unchosen' <=> Unchosen
  BY <1>1, <1>3 DEF Unchosen
<1>5. UNCHANGED <<header, tableColumns, out>> /\ Rows' = Rows /\ format' = format
  BY <1>1 DEF shown, Rows, options
<1>6. ChoiceFits'
  <2>1. SUFFICES ASSUME ~raced PROVE ChoiceFits'
    BY <1>1 DEF ChoiceFits
  <2>2. ~Unchosen
    BY <1>1, <2>1 DEF IInv, Work, Calm, Choosing, Unchosen
  <2>3. pc'[w] = "sample" => columns'[w] = pluck.array
    <3>1. pluck.length = LengthOf(pluck.array)
      BY <1>1, <2>1, <2>2 DEF IInv, Calm, Unchosen, Choosing
    <3>2. LengthOf(pluck.array) \in Nat
      BY Lengths DEF IInv, TypeOK
    <3>3. columns' = [columns EXCEPT ![w] = pluck.array]
      BY <3>1, <3>2 DEF Filter
    <3> QED BY <3>3 DEF IInv, TypeOK
  <2>4. \A v \in Workers : pc'[v] \in {"sample", "write"} =>
          (pc'[v] = pc[v] /\ columns'[v] = columns[v]) \/ columns'[v] = pluck.array
    BY <1>1, <1>2, <2>3
  <2> QED BY <1>1, <1>3, <1>4, <1>5, <2>1, <2>2, <2>4 DEF Fits, ChoiceFits
<1> QED BY <1>1, <1>5, <1>6 DEF Fits, TableFits, HeaderFits

LEMMA FitsSample ==
  ASSUME IInv, Fits, NEW w \in Workers, Sample(w)
  PROVE  Fits'
<1>1. /\ pc[w] = "sample" /\ pc' = [pc EXCEPT ![w] = pc'[w]] /\ pc'[w] = "write"
      /\ sample' = (IF sample = None THEN ColumnsOf(columns[w], Mine(w)) ELSE sample)
      /\ UNCHANGED <<options, response, columns, pluck, shown, raced>>
  BY DEF Sample, Step, At, GoTo, IInv, TypeOK
<1>2. \A v \in Workers : v # w => pc'[v] = pc[v]
  BY <1>1 DEF IInv, TypeOK
<1>3. \A v \in Workers : Mine(v)' = Mine(v) /\ (Choosing(v)' <=> Choosing(v))
  BY <1>1, <1>2 DEF Mine, options, Choosing
<1>4. Unchosen' <=> Unchosen
  BY <1>1, <1>3 DEF Unchosen
<1>5. UNCHANGED <<header, tableColumns, out>> /\ Rows' = Rows /\ format' = format
  BY <1>1 DEF shown, Rows, options
<1>6. Mine(w).kind # "text"
  BY <1>1 DEF IInv, Work, Steps
<1>7. \A v \in Workers : pc'[v] \in {"sample", "write"} <=> pc[v] \in {"sample", "write"}
  BY <1>1, <1>2
<1>8. ChoiceFits'
  <2>1. SUFFICES ASSUME ~raced PROVE ChoiceFits'
    BY <1>1 DEF ChoiceFits
  <2>2. ~Unchosen
    BY <1>1, <1>6, <2>1 DEF Fits, ChoiceFits
  <2>3. pluck.array # "all" => sample' = <<pluck.array>>
    BY <1>1, <1>6, <2>1 DEF Fits, ChoiceFits, ColumnsOf
  <2> QED BY <1>1, <1>3, <1>4, <1>5, <1>7, <2>1, <2>2, <2>3 DEF Fits, ChoiceFits
<1>9. HeaderFits'
  <2>1. format # "table" /\ header # None => sample = header /\ sample # None
    BY DEF Fits, HeaderFits
  <2> QED BY <1>1, <1>5, <2>1 DEF HeaderFits
<1> QED BY <1>5, <1>8, <1>9 DEF Fits, TableFits

(* The lines of a text are no rows; those of other responses have the       *)
(* columns of the table or those that the worker read.                      *)
LEMMA LinesFit ==
  ASSUME IInv, NEW w \in Workers, pc[w] = "write", TableSet(w), NEW j \in DOMAIN LinesOf(w)
  PROVE  LinesOf(w)[j].columns =
           IF Mine(w).kind = "text" THEN <<"text">>
           ELSE IF format = "table" THEN tableColumns' ELSE ColumnsOf(columns[w], Mine(w))
<1> DEFINE cols == IF format = "table" THEN tableColumns' ELSE ColumnsOf(columns[w], Mine(w))
<1>1. CASE Mine(w).kind = "text"
  <2>1. LinesOf(w) = <<Line(w, 1, <<"text">>)>>
    BY <1>1 DEF LinesOf
  <2>2. j = 1
    BY <2>1
  <2> QED BY <1>1, <2>1, <2>2 DEF Line
<1>2. CASE Mine(w).kind # "text"
  <2> DEFINE first == Cardinality(RowsOut(w)) + 1
             last == IF Whole(w) THEN Mine(w).rows ELSE first
  <2>1. LinesOf(w) = [i \in 1 .. last - first + 1 |-> Line(w, first + i - 1, cols)]
    BY <1>2 DEF LinesOf
  <2> HIDE DEF first, last, cols
  <2>2. LinesOf(w)[j] = Line(w, first + j - 1, cols)
    BY <2>1
  <2>3. LinesOf(w)[j].columns = cols
    BY <2>2 DEF Line
  <2> QED BY <1>2, <2>3 DEF cols
<1> QED BY <1>1, <1>2

LEMMA FitsWrite ==
  ASSUME IInv, Fits, NEW w \in Workers, Write(w)
  PROVE  Fits'
<1>1. /\ pc[w] = "write" /\ pc' = [pc EXCEPT ![w] = pc'[w]] /\ pc'[w] \in {"idle", "write"}
      /\ TableSet(w) /\ HeaderSet(w) /\ out' = out \o LinesOf(w)
      /\ UNCHANGED <<options, response, columns, pluck, sample, raced>>
  BY DEF Write, At, GoTo, IInv, TypeOK
<1>2. \A v \in Workers : v # w => pc'[v] = pc[v]
  BY <1>1 DEF IInv, TypeOK
<1>3. \A v \in Workers : Mine(v)' = Mine(v) /\ (Choosing(v)' <=> Choosing(v))
  BY <1>1, <1>2 DEF Mine, options, Choosing
<1>4. (Unchosen' <=> Unchosen) /\ format' = format
  BY <1>1, <1>3 DEF Unchosen, options
<1>5. \A v \in Workers : pc'[v] \in {"sample", "write"} => pc[v] \in {"sample", "write"}
  BY <1>1, <1>2
<1>6. \A i \in Rows' :
        \/ i \in Rows /\ out'[i] = out[i]
        \/ /\ Mine(w).kind # "text"
           /\ out'[i].columns =
                IF format = "table" THEN tableColumns' ELSE ColumnsOf(columns[w], Mine(w))
  <2>1. /\ LinesOf(w) \in Seq([response : 1 .. Len(batch), row : Nat, columns : Shown])
        /\ out \in Seq([response : 1 .. Len(batch), row : Nat, columns : Shown])
    BY <1>1, LinesShown DEF IInv, TypeOK
  <2>2. \A i \in DOMAIN out' : \/ i \in DOMAIN out /\ out'[i] = out[i]
                              \/ \E j \in DOMAIN LinesOf(w) : out'[i] = LinesOf(w)[j]
    BY <1>1, <2>1
  <2> QED BY <1>1, <2>2, LinesFit DEF Rows
<1>7. tableColumns' = IF InTable(w) /\ tableColumns = None THEN sample ELSE tableColumns
  BY <1>1 DEF TableSet
<1>8. header' = IF out # << >> THEN header
                ELSE IF format = "csvheader" THEN sample
                ELSE IF InTable(w) THEN tableColumns' ELSE header
  BY <1>1 DEF HeaderSet
<1>9. Mine(w).kind # "text" => sample # None
  BY <1>1 DEF IInv, Work
<1>10. TableFits'
  <2>1. SUFFICES ASSUME format = "table" PROVE TableFits'
    BY <1>4 DEF TableFits
  <2>2. tableColumns # None => tableColumns' = tableColumns
    BY <1>7
  <2>3. tableColumns = None => Rows = {} /\ header = None
    BY <2>1 DEF Fits, TableFits
  <2>4. Mine(w).kind # "text" => tableColumns' # None
    BY <1>7, <1>9, <2>1 DEF InTable
  <2>5. \A i \in Rows' : out'[i].columns = tableColumns' /\ tableColumns' # None
    BY <1>6, <2>1, <2>2, <2>3, <2>4 DEF Fits, TableFits
  <2>6. header' # None => header' = tableColumns'
    BY <1>8, <2>1, <2>2, <2>3 DEF Fits, TableFits
  <2> QED BY <2>5, <2>6 DEF TableFits
<1>11. HeaderFits'
  <2>1. format # "table" => header' \in {header, sample}
    BY <1>8 DEF InTable
  <2> QED BY <1>1, <1>4, <2>1 DEF Fits, HeaderFits
<1>12. ChoiceFits'
  <2>1. SUFFICES ASSUME ~raced PROVE ChoiceFits'
    BY <1>1 DEF ChoiceFits
  <2>2. CASE Unchosen
    <3>1. Mine(w).kind = "text"
      BY <1>1, <2>1, <2>2 DEF Fits, ChoiceFits
    <3>2. \A i \in Rows' : i \in Rows
      BY <1>6, <3>1
    <3> QED BY <1>1, <1>3, <1>4, <1>5, <2>1, <2>2, <3>2 DEF Fits, ChoiceFits
  <2>3. CASE ~Unchosen
    <3>1. ASSUME pluck.array # "all", NEW i \in Rows', format # "table"
          PROVE  out'[i].columns = <<pluck.array>>
      <4>1. CASE i \in Rows /\ out'[i] = out[i]
        BY <2>1, <3>1, <4>1 DEF Fits, ChoiceFits
      <4>2. CASE Mine(w).kind # "text" /\ out'[i].columns = ColumnsOf(columns[w], Mine(w))
        BY <1>1, <2>1, <3>1, <4>2 DEF Fits, ChoiceFits, ColumnsOf
      <4> QED BY <1>6, <3>1, <4>1, <4>2
    <3> QED BY <1>1, <1>3, <1>4, <1>5, <2>1, <2>3, <3>1 DEF Fits, ChoiceFits
  <2> QED BY <2>2, <2>3
<1> QED BY <1>10, <1>11, <1>12 DEF Fits

LEMMA FitsPreserved == IInv /\ Fits /\ [Next]_vars => Fits'
<1> SUFFICES ASSUME IInv, Fits, [Next]_vars PROVE Fits'
  OBVIOUS
<1>1. CASE UNCHANGED vars
  <2>1. UNCHANGED <<options, response, pc, columns, pluck, sample, shown, raced>>
    BY <1>1 DEF vars
  <2>2. (Unchosen' <=> Unchosen) /\ \A v \in Workers : Mine(v)' = Mine(v)
    BY <2>1 DEF Unchosen, Choosing, Mine, options
  <2> QED BY <2>1, <2>2, FitsFrame DEF options
<1> QED BY <1>1, FitsTake, FitsCheck, FitsChoose, FitsStore, FitsFilter, FitsSample, FitsWrite
        DEF Next, Done

(* All rows fit the header: in a table always, in CSV as long as no worker  *)
(* looked at the columns while another one was choosing and unless all      *)
(* properties are shown, for any number of workers and any responses.       *)
THEOREM AllRowsFit == Spec => []RowsFitHeader
<1>1. Init => Fits
  BY DEF Init, Fits, TableFits, HeaderFits, ChoiceFits, Rows
<1>2. IInv /\ Fits => RowsFitHeader
  <2> SUFFICES ASSUME IInv, Fits PROVE RowsFitHeader
    OBVIOUS
  <2>1. TornOnlyInARace
    BY DEF IInv, Untorn, TornOnlyInARace, Rows
  <2>2. CASE format = "table"
    BY <2>1, <2>2 DEF Fits, TableFits, RowsFitHeader
  <2>3. CASE format # "table"
    <3>1. ~raced /\ pluck.array # "all" =>
            /\ \A i \in Rows : out[i].columns = <<pluck.array>>
            /\ header # None => header = <<pluck.array>>
      BY <2>3 DEF Fits, HeaderFits, ChoiceFits
    <3> QED BY <2>1, <2>3, <3>1 DEF RowsFitHeader
  <2> QED BY <2>2, <2>3
<1> QED BY <1>1, <1>2, Start, Preserved, FitsPreserved, PTL DEF Spec
-----------------------------------------------------------------------------
(* Every row once.                                                          *)

(* No two workers hold the same response, a response that nobody took has   *)
(* no lines, and one that is held lacks some: all of them until it is       *)
(* written, and also then if it is written as a whole.                      *)
Held ==
  /\ \A w, v \in Workers : w # v /\ pc[w] # "idle" /\ pc[v] # "idle" => response[w] # response[v]
  /\ \A w \in Workers : pc[w] # "idle" => response[w] \in 1 .. taken

Lacking ==
  \A w \in Workers :
    /\ pc[w] # "idle" /\ (pc[w] # "write" \/ Whole(w)) => LinesTo(out, response[w], Len(out)) = {}
    /\ pc[w] \in {"sample", "write"} =>
         Cardinality(LinesTo(out, response[w], Len(out))) < Expected(response[w])

Turns ==
  /\ Held /\ Lacking
  /\ \A i \in DOMAIN out : out[i].response \in 1 .. taken
  /\ RowsInOrder /\ Unbroken /\ NothingLeftOut

LEMMA FiniteLines ==
  ASSUME NEW lines, NEW r, NEW n \in Nat
  PROVE  IsFiniteSet(LinesTo(lines, r, n)) /\ Cardinality(LinesTo(lines, r, n)) \in Nat
<1>1. IsFiniteSet(1 .. n)
  BY FS_Interval
<1>2. LinesTo(lines, r, n) \in SUBSET (1 .. n)
  BY DEF LinesTo
<1> QED BY <1>1, <1>2, FS_Subset, FS_CardinalityType

(* What there is to write of the responses is a number.                     *)
LEMMA ExpectedType ==
  ASSUME IInv, NEW r \in 1 .. Len(batch)
  PROVE  Expected(r) \in Nat
<1>1. batch \in Seq([kind : Kinds \cup {"text"}, rows : Nat])
  BY Names DEF IInv, TypeOK
<1>2. batch[r] \in [kind : Kinds \cup {"text"}, rows : Nat]
  BY <1>1, Element
<1> QED BY <1>2 DEF Expected

LEMMA OutType == IInv => /\ Len(out) \in Nat /\ DOMAIN out = 1 .. Len(out)
                         /\ Len(batch) \in Nat /\ taken \in 0 .. Len(batch)
<1> SUFFICES ASSUME IInv PROVE /\ Len(out) \in Nat /\ DOMAIN out = 1 .. Len(out)
                               /\ Len(batch) \in Nat /\ taken \in 0 .. Len(batch)
  OBVIOUS
<1>1. batch \in Seq([kind : Kinds \cup {"text"}, rows : Nat])
  BY Names DEF IInv, TypeOK
<1>2. out \in Seq([response : 1 .. Len(batch), row : Nat, columns : Shown])
  BY DEF IInv, TypeOK
<1>3. Len(batch) \in Nat
  BY <1>1
<1>4. Len(out) \in Nat /\ DOMAIN out = 1 .. Len(out)
  BY <1>2
<1> QED BY <1>3, <1>4 DEF IInv, TypeOK

(* Steps of a worker before it writes.                                      *)
LEMMA TurnsFrame ==
  ASSUME IInv, Turns, NEW w \in Workers, pc[w] # "idle", pc[w] # "write",
         pc' = [pc EXCEPT ![w] = pc'[w]],
         UNCHANGED <<options, taken, response, out>>, crashed => crashed',
         pc'[w] \in {"sample", "write"} => Expected(response[w]) > 0,
         pc'[w] = "idle" => crashed' \/ Expected(response[w]) = 0
  PROVE  Turns'
<1>1. batch' = batch /\ format' = format
  BY DEF options
<1>2. \A v \in Workers : (v # w => pc'[v] = pc[v]) /\ (pc'[v] # "idle" => pc[v] # "idle")
  BY DEF IInv, TypeOK
<1>3. \A v \in Workers : Whole(v)' <=> Whole(v)
  BY <1>1 DEF Whole, Mine
<1>4. \A r, n : LinesTo(out', r, n) = LinesTo(out, r, n) /\ Expected(r)' = Expected(r)
  BY <1>1 DEF LinesTo, Expected
<1>5. Held'
  BY <1>2 DEF Turns, Held
<1>6. LinesTo(out, response[w], Len(out)) = {}
  BY DEF Turns, Lacking
<1>7. Cardinality(LinesTo(out, response[w], Len(out))) = 0
  BY <1>6, FS_EmptySet
<1>8. Lacking'
  <2> SUFFICES ASSUME NEW v \in Workers
               PROVE  /\ pc'[v] # "idle" /\ (pc'[v] # "write" \/ Whole(v)) =>
                           LinesTo(out, response[v], Len(out)) = {}
                      /\ pc'[v] \in {"sample", "write"} =>
                           Cardinality(LinesTo(out, response[v], Len(out))) < Expected(response[v])
    BY <1>3, <1>4 DEF Lacking
  <2>1. CASE v = w
    BY <1>6, <1>7, <2>1
  <2>2. CASE v # w
    BY <1>2, <2>2 DEF Turns, Lacking
  <2> QED BY <2>1, <2>2
<1>9. NothingLeftOut'
  <2> SUFFICES ASSUME NEW r \in 1 .. Len(batch)
               PROVE  /\ Cardinality(LinesTo(out, r, Len(out))) <= Expected(r)
                      /\ \/ Cardinality(LinesTo(out, r, Len(out))) = Expected(r)
                         \/ r > taken \/ crashed'
                         \/ \E v \in Workers : pc'[v] # "idle" /\ response[v] = r
    BY <1>1, <1>4 DEF NothingLeftOut
  <2>1. /\ Cardinality(LinesTo(out, r, Len(out))) <= Expected(r)
        /\ \/ Cardinality(LinesTo(out, r, Len(out))) = Expected(r)
           \/ r > taken \/ crashed
           \/ \E v \in Workers : pc[v] # "idle" /\ response[v] = r
    BY DEF Turns, NothingLeftOut
  <2>2. CASE response[w] = r /\ pc'[w] = "idle"
    BY <1>7, <2>1, <2>2
  <2>3. CASE ~(response[w] = r /\ pc'[w] = "idle")
    BY <1>2, <2>1, <2>3
  <2> QED BY <2>2, <2>3
<1>10. RowsInOrder' /\ Unbroken'
  BY <1>1, <1>4 DEF Turns, RowsInOrder, Unbroken
<1> QED BY <1>5, <1>8, <1>9, <1>10 DEF Turns

LEMMA TurnsEarly ==
  ASSUME IInv, Turns, NEW w \in Workers,
         \/ Check(w) \/ Choose(w) \/ Match(w)
         \/ \E field \in {"array", "length"} : Store(w, field)
  PROVE  Turns'
<1>1. /\ pc[w] \in {"check", "choose", "match", "store"}
      /\ pc' = [pc EXCEPT ![w] = pc'[w]]
      /\ pc'[w] \in {"choose", "match", "store", "filter"}
      /\ UNCHANGED <<options, taken, response, shown, crashed>>
  BY DEF Check, Choose, Match, Store, Step, At, GoTo, IInv, TypeOK
<1> QED BY <1>1, TurnsFrame DEF shown

LEMMA TurnsFilter ==
  ASSUME IInv, Turns, NEW w \in Workers, Filter(w) \/ Sample(w)
  PROVE  Turns'
<1>1. /\ pc[w] \in {"filter", "sample"} /\ pc' = [pc EXCEPT ![w] = pc'[w]]
      /\ UNCHANGED <<options, taken, response, shown>> /\ (crashed => crashed')
  BY DEF Filter, Sample, Step, At, GoTo, IInv, TypeOK
<1>2. /\ Mine(w).kind # "text" /\ Mine(w).rows \in Nat
  BY <1>1, MineType DEF IInv, Work, Steps
<1>3. Expected(response[w]) = Mine(w).rows
  BY <1>2 DEF Expected, Mine
<1>4. CASE Filter(w)
  <2>1. \/ pc'[w] = "idle" /\ (crashed' \/ Mine(w).rows = 0)
        \/ pc'[w] = "sample" /\ Mine(w).rows > 0
    BY <1>2, <1>4 DEF Filter, GoTo, IInv, TypeOK
  <2> QED BY <1>1, <1>3, <2>1, TurnsFrame DEF shown
<1>5. CASE Sample(w)
  <2>1. pc[w] = "sample" /\ pc'[w] = "write"
    BY <1>5 DEF Sample, Step, At, GoTo, IInv, TypeOK
  <2>2. Cardinality(LinesTo(out, response[w], Len(out))) < Expected(response[w])
    BY <2>1 DEF Turns, Lacking
  <2>3. Expected(response[w]) > 0
    BY <1>2, <1>3, <2>2, OutType, FiniteLines
  <2> QED BY <1>1, <2>1, <2>3, TurnsFrame DEF shown
<1> QED BY <1>4, <1>5

LEMMA TurnsTake ==
  ASSUME IInv, Turns, NEW w \in Workers, Take(w)
  PROVE  Turns'
<1>1. /\ pc[w] = "idle" /\ pc' = [pc EXCEPT ![w] = pc'[w]]
      /\ pc'[w] = (IF batch[taken + 1].kind = "text" THEN "write" ELSE "check")
      /\ taken < Len(batch) /\ taken' = taken + 1
      /\ response' = [response EXCEPT ![w] = taken + 1]
      /\ UNCHANGED <<options, shown, crashed>>
  BY DEF Take, Step, At, GoTo, IInv, TypeOK
<1>2. batch' = batch /\ format' = format /\ out' = out
  BY <1>1 DEF options, shown
<1>3. \A v \in Workers : v # w => pc'[v] = pc[v] /\ response'[v] = response[v]
  BY <1>1 DEF IInv, TypeOK
<1>4. response'[w] = taken + 1 /\ pc'[w] \in {"write", "check"}
  BY <1>1 DEF IInv, TypeOK
<1>5. \A r, n : LinesTo(out', r, n) = LinesTo(out, r, n) /\ Expected(r)' = Expected(r)
  BY <1>2 DEF LinesTo, Expected
<1>6. /\ Len(out) \in Nat /\ DOMAIN out = 1 .. Len(out)
      /\ taken \in Nat /\ Len(batch) \in Nat
  BY OutType
<1>7. LinesTo(out, taken + 1, Len(out)) = {}
  BY <1>6 DEF Turns, LinesTo
<1>8. Cardinality(LinesTo(out, taken + 1, Len(out))) = 0
  BY <1>7, FS_EmptySet
<1>9. Held'
  BY <1>1, <1>3, <1>4, <1>6 DEF Turns, Held
<1>10. Lacking'
  <2> SUFFICES ASSUME NEW v \in Workers
               PROVE  /\ pc'[v] # "idle" /\ (pc'[v] # "write" \/ Whole(v)') =>
                           LinesTo(out, response'[v], Len(out)) = {}
                      /\ pc'[v] \in {"sample", "write"} =>
                           Cardinality(LinesTo(out, response'[v], Len(out))) < Expected(response'[v])
    BY <1>2, <1>5 DEF Lacking
  <2>1. CASE v = w
    <3>1. pc'[w] = "write" => Expected(taken + 1) = 1
      BY <1>1 DEF Expected
    <3> QED BY <1>4, <1>7, <1>8, <2>1, <3>1
  <2>2. CASE v # w
    <3>1. Whole(v)' <=> Whole(v)
      BY <1>2, <1>3, <2>2 DEF Whole, Mine
    <3> QED BY <1>3, <2>2, <3>1 DEF Turns, Lacking
  <2> QED BY <2>1, <2>2
<1>11. \A i \in DOMAIN out : out[i].response \in 1 .. taken + 1
  BY <1>6 DEF Turns
<1>12. NothingLeftOut'
  <2> SUFFICES ASSUME NEW r \in 1 .. Len(batch)
               PROVE  /\ Cardinality(LinesTo(out, r, Len(out))) <= Expected(r)
                      /\ \/ Cardinality(LinesTo(out, r, Len(out))) = Expected(r)
                         \/ r > taken + 1 \/ crashed
                         \/ \E v \in Workers : pc'[v] # "idle" /\ response'[v] = r
    BY <1>1, <1>2, <1>5 DEF NothingLeftOut
  <2>1. /\ Cardinality(LinesTo(out, r, Len(out))) <= Expected(r)
        /\ \/ Cardinality(LinesTo(out, r, Len(out))) = Expected(r)
           \/ r > taken \/ crashed
           \/ \E v \in Workers : pc[v] # "idle" /\ response[v] = r
    BY DEF Turns, NothingLeftOut
  <2>2. CASE r = taken + 1
    BY <1>4, <2>1, <2>2
  <2>3. CASE r # taken + 1
    <3>1. r > taken => r > taken + 1
      BY <1>6, <2>3
    <3>2. \A v \in Workers : pc[v] # "idle" => v # w
      BY <1>1
    <3> QED BY <1>3, <2>1, <3>1, <3>2
  <2> QED BY <2>2, <2>3
<1>13. RowsInOrder' /\ Unbroken'
  BY <1>2, <1>5 DEF Turns, RowsInOrder, Unbroken
<1> QED BY <1>1, <1>2, <1>9, <1>10, <1>11, <1>12, <1>13 DEF Turns

(* What one write writes: rows that follow on those that were written, all  *)
(* of them if it is the only write.                                         *)
LEMMA LinesFollow ==
  ASSUME IInv, Turns, NEW w \in Workers, pc[w] = "write"
  PROVE  LET written == Cardinality(LinesTo(out, response[w], Len(out)))
             n == Len(LinesOf(w))
         IN /\ n \in Nat /\ n >= 1 /\ DOMAIN LinesOf(w) = 1 .. n
            /\ \A j \in 1 .. n : /\ LinesOf(w)[j].response = response[w]
                                 /\ LinesOf(w)[j].row = written + j
            /\ written + n <= Expected(response[w])
            /\ Whole(w) => written + n = Expected(response[w])
            /\ Last(LinesOf(w)).row = written + n
<1> DEFINE written == Cardinality(LinesTo(out, response[w], Len(out)))
           cols == IF format = "table" THEN tableColumns' ELSE ColumnsOf(columns[w], Mine(w))
<1>1. Len(out) \in Nat /\ RowsOut(w) = LinesTo(out, response[w], Len(out))
  BY OutType DEF RowsOut, LinesTo
<1>2. written \in Nat /\ Cardinality(RowsOut(w)) = written
  BY <1>1, FiniteLines
<1>3. written < Expected(response[w]) /\ Expected(response[w]) \in Nat
  BY ExpectedType DEF Turns, Lacking, IInv, Work
<1>4. Whole(w) => written = 0
  BY FS_EmptySet DEF Turns, Lacking
<1>5. CASE Mine(w).kind = "text"
  <2>1. LinesOf(w) = <<Line(w, 1, <<"text">>)>>
    BY <1>5 DEF LinesOf
  <2>2. Expected(response[w]) = 1 /\ written = 0
    BY <1>4, <1>5 DEF Expected, Mine, Whole
  <2>3. Line(w, 1, <<"text">>).response = response[w] /\ Line(w, 1, <<"text">>).row = 1
    BY DEF Line
  <2>4. /\ Len(LinesOf(w)) = 1 /\ DOMAIN LinesOf(w) = 1 .. 1
        /\ LinesOf(w)[1] = Line(w, 1, <<"text">>)
    BY <2>1
  <2>5. Last(LinesOf(w)) = LinesOf(w)[1]
    BY <2>4 DEF Last
  <2>6. \A j \in 1 .. 1 : j = 1
    OBVIOUS
  <2> HIDE DEF written
  <2> SUFFICES /\ 1 \in Nat /\ 1 >= 1
               /\ \A j \in 1 .. 1 : /\ LinesOf(w)[j].response = response[w]
                                    /\ LinesOf(w)[j].row = written + j
               /\ written + 1 = Expected(response[w]) /\ written + 1 <= Expected(response[w])
               /\ Last(LinesOf(w)).row = written + 1
    BY <2>4 DEF written
  <2> QED BY <2>2, <2>3, <2>4, <2>5, <2>6
<1>6. CASE Mine(w).kind # "text"
  <2>1. Expected(response[w]) = Mine(w).rows
    BY <1>6 DEF Expected, Mine
  <2> DEFINE last == IF Whole(w) THEN Mine(w).rows ELSE written + 1
             n == last - (written + 1) + 1
  <2>2. LinesOf(w) = [i \in 1 .. n |-> Line(w, written + 1 + i - 1, cols)]
    BY <1>2, <1>6 DEF LinesOf
  <2>3. /\ n \in Nat /\ n >= 1 /\ written + n <= Expected(response[w])
        /\ Whole(w) => written + n = Expected(response[w])
    BY <1>2, <1>3, <1>4, <2>1
  <2> HIDE DEF n, written, cols
  <2>4. DOMAIN LinesOf(w) = 1 .. n /\ Len(LinesOf(w)) = n
    BY <2>2, <2>3
  <2>5. \A j \in 1 .. n : LinesOf(w)[j].response = response[w] /\ LinesOf(w)[j].row = written + j
    <3> TAKE j \in 1 .. n
    <3>1. LinesOf(w)[j] = Line(w, written + 1 + j - 1, cols)
      BY <2>2
    <3>2. written + 1 + j - 1 = written + j
      BY <1>2
    <3> QED BY <3>1, <3>2 DEF Line
  <2>6. Last(LinesOf(w)).row = written + n
    BY <2>3, <2>4, <2>5 DEF Last
  <2> QED BY <2>3, <2>4, <2>5, <2>6 DEF written
<1> QED BY <1>5, <1>6

LEMMA Concatenation ==
  ASSUME NEW S, NEW s \in Seq(S), NEW t \in Seq(S)
  PROVE  /\ Len(s \o t) = Len(s) + Len(t) /\ DOMAIN (s \o t) = 1 .. Len(s) + Len(t)
         /\ \A i \in 1 .. Len(s) : (s \o t)[i] = s[i]
         /\ \A i \in Len(s) + 1 .. Len(s) + Len(t) : (s \o t)[i] = t[i - Len(s)]
  OBVIOUS

LEMMA GrownBy ==
  ASSUME NEW S, IsFiniteSet(S), NEW m \in Nat, NEW i \in Nat, m <= i, S \cap (m + 1 .. i) = {}
  PROVE  Cardinality(S \cup (m + 1 .. i)) = Cardinality(S) + (i - m)
<1>1. IsFiniteSet(m + 1 .. i) /\ Cardinality(m + 1 .. i) = IF m + 1 > i THEN 0 ELSE i - (m + 1) + 1
  BY FS_Interval
<1>2. Cardinality(m + 1 .. i) = i - m
  BY <1>1
<1>3. Cardinality(S \cup (m + 1 .. i)) = Cardinality(S) + Cardinality(m + 1 .. i) - Cardinality({})
  BY <1>1, FS_Union
<1>4. Cardinality(S) \in Nat /\ Cardinality({}) = 0
  BY FS_CardinalityType, FS_EmptySet
<1> QED BY <1>2, <1>3, <1>4

(* Lines at the end are counted with those of their response.               *)
LEMMA LinesCounted ==
  ASSUME NEW m \in Nat, NEW k \in Nat, m <= k, NEW before, NEW after, NEW r,
         \A i \in 1 .. m : after[i] = before[i],
         \A i \in m + 1 .. k : after[i].response = r
  PROVE  Cardinality(LinesTo(after, r, k)) = Cardinality(LinesTo(before, r, m)) + (k - m)
<1>1. LinesTo(after, r, k) = LinesTo(before, r, m) \cup (m + 1 .. k)
  <2>1. \A h \in 1 .. k : after[h].response = r <=>
          (h \in 1 .. m /\ before[h].response = r) \/ h \in m + 1 .. k
    OBVIOUS
  <2>2. 1 .. m \subseteq 1 .. k /\ m + 1 .. k \subseteq 1 .. k
    OBVIOUS
  <2> QED BY <2>1, <2>2 DEF LinesTo
<1>2. LinesTo(before, r, m) \cap (m + 1 .. k) = {}
  BY DEF LinesTo
<1>3. IsFiniteSet(LinesTo(before, r, m))
  BY FiniteLines
<1> QED BY <1>1, <1>2, <1>3, GrownBy

LEMMA TurnsWrite ==
  ASSUME IInv, Turns, NEW w \in Workers, Write(w)
  PROVE  Turns'
<1> SUFFICES ASSUME NEW r, r = response[w], NEW m, m = Len(out), NEW n, n = Len(LinesOf(w)),
                    NEW written, written = Cardinality(LinesTo(out, r, m))
             PROVE  Turns'
  OBVIOUS
<1>1. /\ pc[w] = "write" /\ pc' = [pc EXCEPT ![w] = pc'[w]]
      /\ pc'[w] = (IF Mine(w).kind = "text" \/ Last(LinesOf(w)).row = Mine(w).rows
                   THEN "idle" ELSE "write")
      /\ TableSet(w) /\ out' = out \o LinesOf(w)
      /\ UNCHANGED <<options, taken, response, crashed>>
  BY DEF Write, At, GoTo, IInv, TypeOK
<1>2. batch' = batch /\ format' = format
  BY <1>1 DEF options
<1>3. LinesOf(w) \in Seq([response : 1 .. Len(batch), row : Nat, columns : Shown])
  BY <1>1, LinesShown
<1>4. /\ n \in Nat /\ n >= 1 /\ DOMAIN LinesOf(w) = 1 .. n
      /\ \A j \in 1 .. n : LinesOf(w)[j].response = r /\ LinesOf(w)[j].row = written + j
      /\ written + n <= Expected(r)
      /\ Whole(w) => written + n = Expected(r)
      /\ Last(LinesOf(w)).row = written + n
  BY <1>1, LinesFollow
<1>5. /\ m \in Nat /\ DOMAIN out = 1 .. m /\ r \in 1 .. taken /\ r \in 1 .. Len(batch)
      /\ written \in Nat /\ Expected(r) \in Nat
  BY <1>1, OutType, FiniteLines, ExpectedType DEF Turns, Held
<1>6. /\ Len(out') = m + n /\ DOMAIN out' = 1 .. m + n
      /\ \A i \in 1 .. m : out'[i] = out[i]
      /\ \A i \in m + 1 .. m + n : out'[i].response = r /\ out'[i].row = written + (i - m)
  <2> DEFINE Printed == [response : 1 .. Len(batch), row : Nat, columns : Shown]
  <2>1. out \in Seq(Printed) /\ LinesOf(w) \in Seq(Printed)
    BY <1>3 DEF IInv, TypeOK
  <2> HIDE DEF Printed
  <2>2. /\ Len(out') = m + n /\ DOMAIN out' = 1 .. m + n
        /\ \A i \in 1 .. m : out'[i] = out[i]
        /\ \A i \in m + 1 .. m + n : out'[i] = LinesOf(w)[i - m]
    BY <1>1, <2>1, Concatenation
  <2>3. \A i \in m + 1 .. m + n : i - m \in 1 .. n
    BY <1>4, <1>5
  <2> QED BY <1>4, <2>2, <2>3
<1>7. /\ \A q : \A i \in 0 .. m : LinesTo(out', q, i) = LinesTo(out, q, i)
      /\ \A q : q # r => LinesTo(out', q, m + n) = LinesTo(out, q, m)
      /\ \A i \in m .. m + n : Cardinality(LinesTo(out', r, i)) = written + (i - m)
  <2>1. m \in Nat /\ m + n \in Nat /\ m <= m + n
    BY <1>4, <1>5
  <2>2. \A i \in 1 .. m : out'[i] = out[i]
    BY <1>6
  <2>3. \A i \in m + 1 .. m + n : out'[i].response = r
    BY <1>6
  <2>4. ASSUME NEW q, NEW i \in 0 .. m
        PROVE  LinesTo(out', q, i) = LinesTo(out, q, i)
    BY <2>1, <2>2 DEF LinesTo
  <2>5. ASSUME NEW q, q # r
        PROVE  LinesTo(out', q, m + n) = LinesTo(out, q, m)
    BY <2>1, <2>2, <2>3, <2>5 DEF LinesTo
  <2>6. ASSUME NEW i \in m .. m + n
        PROVE  Cardinality(LinesTo(out', r, i)) = written + (i - m)
    <3>1. i \in Nat /\ m <= i /\ \A h \in m + 1 .. i : h \in m + 1 .. m + n
      BY <2>1
    <3>2. \A h \in m + 1 .. i : out'[h].response = r
      BY <2>3, <3>1
    <3>3. Cardinality(LinesTo(out', r, i)) = Cardinality(LinesTo(out, r, m)) + (i - m)
      BY <2>1, <2>2, <3>1, <3>2, LinesCounted
    <3> QED BY <3>3
  <2> QED BY <2>4, <2>5, <2>6
<1>8. Cardinality(LinesTo(out', r, m + n)) = written + n
  <2>1. m + n \in m .. m + n /\ m + n - m = n
    BY <1>4, <1>5
  <2> QED BY <1>7, <2>1
<1>9. pc'[w] \in {"idle", "write"} /\ (pc'[w] = "idle" <=> written + n = Expected(r))
  <2>1. CASE Mine(w).kind = "text"
    <3>1. Whole(w)
      BY <2>1 DEF Whole
    <3> QED BY <1>1, <1>4, <2>1, <3>1
  <2>2. CASE Mine(w).kind # "text"
    <3>1. Expected(r) = Mine(w).rows
      BY <2>2 DEF Expected, Mine
    <3> QED BY <1>1, <1>4, <2>2, <3>1
  <2> QED BY <2>1, <2>2
<1>10. \A v \in Workers : v # w => pc'[v] = pc[v]
  BY <1>1 DEF IInv, TypeOK
<1>11. /\ \A q : Expected(q)' = Expected(q)
       /\ \A v \in Workers : Whole(v)' <=> Whole(v)
  BY <1>1, <1>2 DEF Expected, Whole, Mine
<1>12. Held'
  <2>1. \A v \in Workers : pc'[v] # "idle" => pc[v] # "idle"
    BY <1>1, <1>10
  <2> QED BY <1>1, <2>1 DEF Turns, Held
<1>13. Lacking'
  <2> SUFFICES ASSUME NEW v \in Workers
               PROVE  /\ pc'[v] # "idle" /\ (pc'[v] # "write" \/ Whole(v)) =>
                           LinesTo(out', response[v], m + n) = {}
                      /\ pc'[v] \in {"sample", "write"} =>
                           Cardinality(LinesTo(out', response[v], m + n)) < Expected(response[v])
    BY <1>1, <1>6, <1>11 DEF Lacking
  <2>1. CASE v = w
    <3>1. pc'[w] # "idle" => written + n # Expected(r)
      BY <1>9
    <3>2. written + n \in Nat /\ written + n <= Expected(r) /\ Expected(r) \in Nat
      BY <1>4, <1>5
    <3>3. written + n # Expected(r) => written + n < Expected(r)
      BY <3>2
    <3> QED BY <1>4, <1>8, <1>9, <2>1, <3>1, <3>3
  <2>2. CASE v # w /\ pc[v] # "idle"
    <3>1. response[v] # r
      BY <1>1, <2>2 DEF Turns, Held
    <3>2. LinesTo(out', response[v], m + n) = LinesTo(out, response[v], m)
      BY <1>7, <3>1
    <3> QED BY <1>10, <2>2, <3>2 DEF Turns, Lacking
  <2>3. CASE v # w /\ pc[v] = "idle"
    BY <1>10, <2>3
  <2> QED BY <2>1, <2>2, <2>3
<1>14. \A i \in 1 .. m + n : i \in 1 .. m \/ i \in m + 1 .. m + n
  BY <1>4, <1>5
<1>15. \A i \in DOMAIN out' : out'[i].response \in 1 .. taken
  <2> TAKE i \in DOMAIN out'
  <2>1. CASE i \in 1 .. m
    BY <1>5, <1>6, <2>1 DEF Turns
  <2>2. CASE i \in m + 1 .. m + n
    BY <1>5, <1>6, <2>2
  <2> QED BY <1>6, <1>14, <2>1, <2>2
<1>16. RowsInOrder'
  <2> SUFFICES ASSUME NEW i \in DOMAIN out'
               PROVE  out'[i].row = Cardinality(LinesTo(out', out'[i].response, i))
    BY DEF RowsInOrder
  <2>1. CASE i \in 1 .. m
    <3>1. out'[i] = out[i] /\ i \in DOMAIN out /\ i \in 0 .. m
      BY <1>5, <1>6, <2>1
    <3>2. LinesTo(out', out[i].response, i) = LinesTo(out, out[i].response, i)
      BY <1>7, <3>1
    <3> QED BY <3>1, <3>2 DEF Turns, RowsInOrder
  <2>2. CASE i \in m + 1 .. m + n
    <3>1. i \in m .. m + n
      BY <1>5, <2>2
    <3> QED BY <1>6, <1>7, <2>2, <3>1
  <2> QED BY <1>6, <1>14, <2>1, <2>2
<1>17. Unbroken'
  <2> SUFFICES ASSUME format \in {"csv", "csvheader"}, NEW i \in DOMAIN out', NEW k \in DOMAIN out',
                      out'[i].response = out'[k].response, NEW j \in i .. k
               PROVE  out'[j].response = out'[i].response
    BY <1>2 DEF Unbroken
  <2>1. LinesTo(out, r, m) = {}
    BY <1>1 DEF Turns, Lacking, Whole
  <2>2. \A h \in 1 .. m : out'[h].response # r
    BY <1>6, <2>1 DEF LinesTo
  <2>3. CASE k \in 1 .. m
    <3>1. i \in 1 .. m /\ j \in 1 .. m /\ i \in DOMAIN out /\ k \in DOMAIN out
      <4>1. i \in 1 .. m + n
        BY <1>6
      <4>2. i <= k \/ i > k
        BY <1>5, <2>3, <4>1
      <4>3. i <= j /\ j <= k /\ j \in Int
        BY <1>5, <2>3, <4>1
      <4> QED BY <1>4, <1>5, <2>3, <4>1, <4>3
    <3>2. out[i].response = out[k].response
      BY <1>6, <2>3, <3>1
    <3>3. out[j].response = out[i].response
      BY <3>1, <3>2 DEF Turns, Unbroken
    <3> QED BY <1>6, <3>1, <3>3
  <2>4. CASE k \in m + 1 .. m + n
    <3>1. i \in m + 1 .. m + n
      BY <1>6, <1>14, <2>2, <2>4
    <3>2. j \in m + 1 .. m + n
      BY <1>4, <1>5, <2>4, <3>1
    <3> QED BY <1>6, <3>1, <3>2
  <2> QED BY <1>6, <1>14, <2>3, <2>4
<1>18. NothingLeftOut'
  <2> SUFFICES ASSUME NEW q \in 1 .. Len(batch)
               PROVE  /\ Cardinality(LinesTo(out', q, m + n)) <= Expected(q)
                      /\ \/ Cardinality(LinesTo(out', q, m + n)) = Expected(q)
                         \/ q > taken \/ crashed
                         \/ \E v \in Workers : pc'[v] # "idle" /\ response[v] = q
    BY <1>1, <1>2, <1>6, <1>11 DEF NothingLeftOut
  <2>1. CASE q = r
    BY <1>4, <1>8, <1>9, <2>1
  <2>2. CASE q # r
    <3>1. LinesTo(out', q, m + n) = LinesTo(out, q, m)
      BY <1>7, <2>2
    <3>2. /\ Cardinality(LinesTo(out, q, m)) <= Expected(q)
          /\ \/ Cardinality(LinesTo(out, q, m)) = Expected(q)
             \/ q > taken \/ crashed
             \/ \E v \in Workers : pc[v] # "idle" /\ response[v] = q
      BY DEF Turns, NothingLeftOut
    <3>3. \A v \in Workers : response[v] = q => v # w
      BY <2>2
    <3> QED BY <1>10, <3>1, <3>2, <3>3
  <2> QED BY <2>1, <2>2
<1> QED BY <1>1, <1>12, <1>13, <1>15, <1>16, <1>17, <1>18 DEF Turns

LEMMA TurnsPreserved == IInv /\ Turns /\ [Next]_vars => Turns'
<1> SUFFICES ASSUME IInv, Turns, [Next]_vars PROVE Turns'
  OBVIOUS
<1>1. CASE UNCHANGED vars
  BY <1>1 DEF vars, options, shown, Turns, Held, Lacking, RowsInOrder, Unbroken, NothingLeftOut,
              LinesTo, Expected, Whole, Mine
<1> QED BY <1>1, TurnsTake, TurnsEarly, TurnsFilter, TurnsWrite DEF Next, Done

LEMMA TurnsStart == Init => Turns
<1> SUFFICES ASSUME Init PROVE Turns
  OBVIOUS
<1>1. IInv
  BY Start
<1>2. out = << >> /\ taken = 0 /\ \A w \in Workers : pc[w] = "idle"
  BY DEF Init
<1>3. DOMAIN out = {} /\ Len(out) = 0
  BY <1>2
<1>4. \A r : LinesTo(out, r, Len(out)) = {}
  BY <1>3 DEF LinesTo
<1>5. \A r \in 1 .. Len(batch) : Expected(r) \in Nat /\ r > taken
  BY <1>1, <1>2, ExpectedType
<1>6. NothingLeftOut
  BY <1>4, <1>5, FS_EmptySet DEF NothingLeftOut
<1> QED BY <1>2, <1>3, <1>6 DEF Turns, Held, Lacking, RowsInOrder, Unbroken

(* Every response that a worker took and is done with was written, each of  *)
(* its rows once and in order, and CSV without a break, for any number of   *)
(* workers and any responses: although the rows of a table are written one  *)
(* by one, and the columns may be chosen by two workers at once.            *)
THEOREM RowsAreWrittenOnce == Spec => []EveryRowOnce
<1>1. Turns => EveryRowOnce
  BY DEF Turns, EveryRowOnce
<1> QED BY TurnsStart, Start, Preserved, TurnsPreserved, <1>1, PTL DEF Spec
====
