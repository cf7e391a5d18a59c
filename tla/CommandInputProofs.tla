------------------------ MODULE CommandInputProofs ------------------------
(* Proofs about CommandInput, for every set of commands, flag values and     *)
(* piped lines.                                                              *)
EXTENDS CommandInput, TLAPS

-----------------------------------------------------------------------------
(* The inductive invariant. *)

(* A command that started passed all checks of its start. *)
Started ==
  source # "" =>
    /\ ~Refused /\ ~EndsEmpty /\ ~OptionsMissing /\ ~ItemMissing
    /\ source = "stdin" => PipeUsed
    /\ source = "flag" => ReaderOnPipe /\ FlagItems > 0
    /\ source = "once" => ~PipeUsed /\ ~(ReaderOnPipe /\ FlagItems > 0)

(* A command that did not start has done nothing. *)
Idle == source = "" => requests = << >> /\ drawn = 0 /\ failures = 0 /\ outcome # "eof"

Counted == Len(requests) + failures = drawn

WithinInput ==
  /\ source = "stdin" => drawn <= Len(stdin.lines)
  /\ source = "flag" => drawn <= FlagItems

AtEnd == outcome = "eof" => EndOfInput

(* Requests are for items that were drawn. *)
Drawn == \A i \in DOMAIN requests : requests[i].item \in 1 .. drawn

(* A text has one value. *)
FlagFits == Len(flag) > 1 => pipe.many

IInv ==
  /\ TypeOK /\ FlagFits /\ Started /\ Idle /\ Counted /\ WithinInput /\ AtEnd
  /\ Drawn /\ NoUnscopedRequest /\ RequestsMatchItems

-----------------------------------------------------------------------------
(* Values. *)

(* Arithmetic of the cycle through the flag's values. *)
LEMMA ModRange == ASSUME NEW a \in Nat, NEW b \in Nat \ {0} PROVE a % b \in 0 .. (b - 1)
  OBVIOUS
LEMMA NextNumber == ASSUME NEW a \in Nat PROVE a + 1 \in Nat \ {0} /\ a + 1 \in Nat /\ 0 <= a
  OBVIOUS
LEMMA CountMore ==
  ASSUME NEW a \in Nat, NEW b \in Nat
  PROVE  (a + 1) + b = (a + b) + 1 /\ a + (b + 1) = (a + b) + 1
  OBVIOUS
LEMMA Length == ASSUME NEW S, NEW s \in Seq(S) PROVE Len(s) \in Nat
  OBVIOUS
LEMMA ModSmall == ASSUME NEW a \in Nat, NEW b \in Nat, a < b PROVE a % b = a
  OBVIOUS

(* The state that never changes has the types of the constants. *)
LEMMA GivenTypes ==
  ASSUME TypeOK
  PROVE  /\ stdin.lines \in Seq(LineKinds) /\ stdin.terminated \in BOOLEAN
         /\ stdin.piped \in BOOLEAN
         /\ flag \in Seq(ItemKinds)
         /\ pipe.section \in Sections /\ pipe.reader \in Readers
         /\ pipe.many \in BOOLEAN /\ pipe.required \in BOOLEAN
         /\ ~stdin.terminated => stdin.lines # << >> /\ stdin.lines[Len(stdin.lines)] # "blank"
<1> DEFINE StdinTypes ==
             /\ stdin.lines \in Seq(LineKinds) /\ stdin.terminated \in BOOLEAN
             /\ stdin.piped \in BOOLEAN
             /\ ~stdin.terminated => stdin.lines # << >> /\ stdin.lines[Len(stdin.lines)] # "blank"
<1>1. ASSUME stdin \in [piped : {FALSE}, lines : {<< >>}, terminated : {TRUE}]
      PROVE  StdinTypes
  <2>1. stdin.lines = << >> /\ stdin.terminated = TRUE /\ stdin.piped = FALSE
    BY <1>1
  <2>2. stdin.lines \in Seq(LineKinds)
    BY <2>1
  <2>3. stdin.terminated \in BOOLEAN /\ stdin.piped \in BOOLEAN /\ stdin.terminated
    BY <2>1, Zenon
  <2> QED
    BY <2>2, <2>3
<1>2. ASSUME stdin \in [piped : {TRUE}, lines : Lines, terminated : BOOLEAN],
             ~stdin.terminated => stdin.lines # << >> /\ stdin.lines[Len(stdin.lines)] # "blank"
      PROVE  StdinTypes
  <2>1. stdin.lines \in Lines /\ stdin.terminated \in BOOLEAN /\ stdin.piped = TRUE
    BY <1>2
  <2>2. stdin.lines \in Seq(LineKinds)
    BY <2>1, InputAssumption
  <2> QED
    BY <2>1, <2>2, <1>2
<1>3. flag \in Seq(ItemKinds)
  BY InputAssumption DEF TypeOK
<1>4. /\ pipe.section \in Sections /\ pipe.reader \in Readers
      /\ pipe.many \in BOOLEAN /\ pipe.required \in BOOLEAN
  BY InputAssumption DEF TypeOK, pipe
<1>5. stdin \in Stdins
  BY DEF TypeOK
<1> QED
  BY <1>1, <1>2, <1>3, <1>4, <1>5 DEF Stdins

(* A value of the flag. *)
LEMMA FlagValueType ==
  ASSUME TypeOK, NEW n \in 1 .. Len(flag)
  PROVE  /\ FlagValue(n) \in Targets /\ FlagValue(n) # Empty
         /\ FlagValue(n).from = "flag" /\ FlagValue(n).at = n
<1>1. flag[n] \in ItemKinds
  BY GivenTypes
<1> QED
  BY <1>1 DEF FlagValue, Value, Targets, Empty, ItemKinds

LEMMA EmptyType == Empty \in Targets /\ Empty.from = "none" /\ Empty.kind = "empty"
  BY DEF Empty, Value, Targets

(* A value that is about the n-th item, if it is about a line. *)
AboutLine(value, n) ==
  value \in Targets /\ value.from \in {"none", "line"} /\ (value.from = "line" => value.at = n)

(* A line as text, which is empty only for a line without text. *)
LEMMA LineTextType ==
  ASSUME TypeOK, NEW n \in 1 .. Len(stdin.lines)
  PROVE  /\ AboutLine(LineText(n), n)
         /\ stdin.lines[n] \notin {"spaces", "blank"} => LineText(n) # Empty
<1>1. stdin.lines[n] \in LineKinds
  BY GivenTypes
<1> QED
  BY <1>1 DEF LineText, TextKind, AboutLine, Value, Targets, Empty, LineKinds, ItemKinds

(* PipeIterator.GetNext, one line of the input. *)
LEMMA PipeNextLine ==
  ASSUME TypeOK, NEW n \in 1 .. Len(stdin.lines)
  PROVE  /\ AboutLine(PipeNext(n).value, n) /\ PipeNext(n).eof \in BOOLEAN
         /\ PipeNext(n).eof =>
                EndsReading(n) /\ (stdin.lines[n] # "spaces" => PipeNext(n).value # Empty)
<1>1. Len(stdin.lines) \in Nat /\ n \in Nat /\ ~(n > Len(stdin.lines))
  BY GivenTypes
<1>2. AboutLine(LineText(n), n) /\ (stdin.lines[n] \notin {"spaces", "blank"} => LineText(n) # Empty)
  BY LineTextType
<1>3. AboutLine(Empty, n) /\ AboutLine(Value("known", "line", n), n)
  BY <1>1 DEF AboutLine, Empty, Value, Targets
<1>4. CASE EndsReading(n)
  <2>1. PipeNext(n) = Got(LineText(n), TRUE)
    BY <1>1, <1>4 DEF PipeNext
  <2>2. stdin.lines[n] # "blank"
    BY <1>4, GivenTypes DEF EndsReading
  <2> QED
    BY <2>1, <2>2, <1>2, <1>4 DEF Got
<1>5. CASE ~EndsReading(n)
  <2>1. PipeNext(n) = Got(Plucked(n), FALSE)
    BY <1>1, <1>5 DEF PipeNext
  <2> QED
    BY <2>1, <1>2, <1>3 DEF Got, Plucked
<1> QED
  BY <1>4, <1>5

LEMMA PipeNextEnd ==
  ASSUME TypeOK, NEW n \in Nat, n > Len(stdin.lines)
  PROVE  PipeNext(n) = Nothing
BY DEF PipeNext

(* A sequence and one more element. *)
LEMMA Appended ==
  ASSUME NEW S, NEW s \in Seq(S), NEW e \in S
  PROVE  /\ Append(s, e) \in Seq(S) /\ Len(Append(s, e)) = Len(s) + 1
         /\ DOMAIN Append(s, e) = DOMAIN s \cup {Len(s) + 1}
         /\ \A i, j \in DOMAIN Append(s, e) : i < j => i \in DOMAIN s
         /\ \A i \in DOMAIN s : Append(s, e)[i] = s[i] /\ i # Len(s) + 1 /\ i < Len(s) + 1
         /\ Append(s, e)[Len(s) + 1] = e
OBVIOUS

-----------------------------------------------------------------------------
(* Items. *)

(* A value for the n-th item: a line or a flag's value of its own. *)
AboutItem(value, n) ==
  /\ value \in Targets
  /\ value.from = "line" => value.at = n /\ source = "stdin"
  /\ value.from = "flag" /\ source = "flag" => value.at = n

(* The number of items of the source. *)
Limit == IF source = "stdin" THEN Len(stdin.lines) ELSE FlagItems

LEMMA EmptyAboutItem == ASSUME NEW n PROVE AboutItem(Empty, n)
BY EmptyType DEF AboutItem

LEMMA LimitType ==
  ASSUME TypeOK
  PROVE  Limit \in Nat /\ FlagItems \in Nat /\ Len(flag) \in Nat
         /\ (flag # << >> => FlagItems = Len(flag) /\ Len(flag) > 0)
BY GivenTypes DEF Limit, FlagItems

(* What the source gives: items up to its limit, and io.EOF without a value *)
(* beyond.                                                                   *)
LEMMA SourceItem ==
  ASSUME TypeOK, source \in {"stdin", "flag"}, NEW n \in Nat \ {0}
  PROVE  /\ n > Limit => SourceNext(n) = Nothing
         /\ n <= Limit => /\ AboutItem(SourceNext(n).value, n)
                          /\ SourceNext(n).eof =>
                                 /\ source = "stdin" /\ EndsReading(n)
                                 /\ stdin.lines[n] # "spaces" => SourceNext(n).value # Empty
<1>1. Limit \in Nat /\ Len(stdin.lines) \in Nat
  BY LimitType, GivenTypes
<1>2. CASE source = "stdin"
  <2>1. SourceNext(n) = PipeNext(n) /\ Limit = Len(stdin.lines)
    BY <1>2 DEF SourceNext, Limit
  <2>2. CASE n > Limit
    BY <1>1, <2>1, <2>2, PipeNextEnd
  <2>3. CASE n <= Limit
    <3>1. n \in 1 .. Len(stdin.lines)
      BY <1>1, <2>1, <2>3
    <3>2. /\ AboutLine(PipeNext(n).value, n)
          /\ PipeNext(n).eof =>
                 EndsReading(n) /\ (stdin.lines[n] # "spaces" => PipeNext(n).value # Empty)
      BY <3>1, PipeNextLine
    <3> QED
      BY <1>1, <1>2, <2>1, <2>3, <3>2 DEF AboutLine, AboutItem
  <2> QED
    BY <1>1, <2>2, <2>3
<1>3. CASE source = "flag"
  <2>1. SourceNext(n) = SliceNext(n) /\ Limit = FlagItems
    BY <1>3 DEF SourceNext, Limit
  <2>2. CASE n > Limit
    BY <1>1, <2>1, <2>2 DEF SliceNext
  <2>3. CASE n <= Limit
    <3>1. SliceNext(n) = Got(IF flag = << >> THEN Empty ELSE FlagValue(n), FALSE)
      <4>1. ~(n > FlagItems)
        BY <1>1, <2>1, <2>3
      <4> QED
        BY <4>1 DEF SliceNext
    <3>2. flag # << >> => n \in 1 .. Len(flag)
      BY <2>1, <2>3, LimitType
    <3>3. AboutItem(IF flag = << >> THEN Empty ELSE FlagValue(n), n)
      BY <3>2, FlagValueType, EmptyAboutItem DEF AboutItem
    <3> QED
      BY <1>1, <2>1, <2>3, <3>1, <3>3 DEF Got
  <2> QED
    BY <1>1, <2>2, <2>3
<1> QED
  BY <1>2, <1>3

(* The flag's value that replaces an item is the item's own, when the flag   *)
(* is the source.                                                            *)
LEMMA OverridingItem ==
  ASSUME TypeOK, NEW n \in Nat \ {0}, source = "flag" => n <= FlagItems
  PROVE  AboutItem(Overriding(n), n)
<1>1. CASE Overriding(n) = Empty
  BY <1>1, EmptyAboutItem
<1>2. CASE Overriding(n) # Empty
  <2> DEFINE at == ((n - 1) % Len(flag)) + 1
  <2>1. flag # << >> /\ Overriding(n) = FlagValue(at)
    BY <1>2 DEF Overriding
  <2>2. Len(flag) \in Nat \ {0} /\ n - 1 \in Nat
    BY <2>1, LimitType
  <2>3. at \in 1 .. Len(flag)
    <3>1. (n - 1) % Len(flag) \in 0 .. (Len(flag) - 1)
      BY <2>2, ModRange
    <3> QED
      BY <2>2, <3>1
  <2>4. source = "flag" => at = n
    <3> SUFFICES ASSUME source = "flag"
                 PROVE  at = n
      OBVIOUS
    <3>1. n <= Len(flag)
      BY <2>1, LimitType
    <3>2. (n - 1) % Len(flag) = n - 1
      BY <2>2, <3>1, ModSmall
    <3> QED
      BY <3>2
  <2> HIDE DEF at
  <2>5. FlagValue(at) \in Targets /\ FlagValue(at).from = "flag" /\ FlagValue(at).at = at
    BY <2>3, FlagValueType
  <2> QED
    BY <2>1, <2>4, <2>5 DEF AboutItem
<1> QED
  BY <1>1, <1>2

(* The item that is drawn next is within the input, and about itself. *)
LEMMA ItemDrawn ==
  ASSUME TypeOK, source \in {"stdin", "flag"}, NEW n \in Nat \ {0}, ~ItemNext(n).eof
  PROVE  n <= Limit /\ AboutItem(ItemNext(n).value, n)
<1>1. Limit \in Nat
  BY LimitType
<1>2. CASE pipe.reader \in Overrides
  <2>1. ItemNext(n) = OverrideNext(n)
    BY <1>2 DEF ItemNext
  <2>2. n <= Limit
    <3>1. SourceNext(n) # Nothing
      <4>1. OverrideNext(n).eof = (SourceNext(n).eof /\ SourceNext(n).value = Empty)
        BY DEF OverrideNext, Got
      <4>2. Nothing.eof = TRUE /\ Nothing.value = Empty
        BY DEF Got, Nothing
      <4> QED
        BY <2>1, <4>1, <4>2
    <3> QED
      BY <1>1, <3>1, SourceItem
  <2>3. AboutItem(SourceNext(n).value, n)
    BY <2>2, SourceItem
  <2>4. AboutItem(Overriding(n), n)
    BY <2>2, OverridingItem DEF Limit
  <2> QED
    BY <2>1, <2>2, <2>3, <2>4 DEF OverrideNext, Got
<1>3. CASE pipe.reader \notin Overrides
  <2>1. ItemNext(n) = SourceNext(n)
    BY <1>3 DEF ItemNext
  <2>2. n <= Limit
    <3>1. SourceNext(n) # Nothing
      BY <2>1 DEF Got, Nothing
    <3> QED
      BY <1>1, <3>1, SourceItem
  <2> QED
    BY <2>1, <2>2, SourceItem
<1> QED
  BY <1>2, <1>3

(* The iteration ends behind the last item, or at a line that ends it. *)
LEMMA ItemEnd ==
  ASSUME TypeOK, source = "stdin", NEW n \in Nat \ {0}, ItemNext(n).eof
  PROVE  n > Len(stdin.lines) \/ StopsAt(n)
<1>1. Limit = Len(stdin.lines) /\ Limit \in Nat
  BY LimitType DEF Limit
<1>2. CASE pipe.reader \in Overrides
  <2>1. SourceNext(n).eof /\ SourceNext(n).value = Empty
    BY <1>2 DEF ItemNext, OverrideNext, Got
  <2> QED
    BY <1>1, <2>1, SourceItem DEF StopsAt
<1>3. CASE pipe.reader \notin Overrides
  BY <1>1, <1>3, SourceItem DEF ItemNext, StopsAt
<1> QED
  BY <1>2, <1>3

-----------------------------------------------------------------------------
(* Requests. *)

(* What a request is about, for the item that is drawn next. *)
LEMMA TargetItem ==
  ASSUME IInv, Running, ~EndOfInput
  PROVE  /\ AboutItem(Target(Incoming.value), drawn + 1)
         /\ source # "once" => drawn + 1 <= Limit
<1>1. drawn \in Nat /\ drawn + 1 \in Nat \ {0} /\ TypeOK
      /\ source \in {"stdin", "flag", "once"}
  <2>1. TypeOK
    BY DEF IInv
  <2>2. drawn \in Nat /\ source \in {"", "stdin", "flag", "once"}
    BY <2>1 DEF TypeOK
  <2>3. drawn + 1 \in Nat \ {0}
    BY <2>2, NextNumber, Zenon
  <2>4. source \in {"stdin", "flag", "once"}
    BY <2>2 DEF Running
  <2> QED
    BY <2>1, <2>2, <2>3, <2>4, Zenon
<1>2. flag # << >> => FlagValue(1) \in Targets /\ FlagValue(1).from = "flag" /\ FlagValue(1).at = 1
  <2>1. flag # << >> => 1 \in 1 .. Len(flag)
    BY <1>1, LimitType
  <2> QED
    BY <1>1, <2>1, FlagValueType
<1>3. CASE source = "once"
  <2>1. Target(Incoming.value) = OnceTarget
    BY <1>3 DEF Target
  <2>2. Tenant \in Targets /\ Tenant.from = "tenant"
    BY DEF Tenant, Value, Targets
  <2> QED
    BY <1>2, <1>3, <2>1, <2>2, EmptyAboutItem DEF OnceTarget, AboutItem
<1>4. CASE source \in {"stdin", "flag"}
  <2>1. Incoming = ItemNext(drawn + 1) /\ ~ItemNext(drawn + 1).eof
    BY <1>4 DEF Incoming, EndOfInput
  <2>2. drawn + 1 <= Limit /\ AboutItem(Incoming.value, drawn + 1)
    BY <1>1, <1>4, <2>1, ItemDrawn
  <2>3. CASE pipe.section # "body"
    BY <1>4, <2>2, <2>3 DEF Target
  <2>4. CASE pipe.section = "body"
    <3>1. Target(Incoming.value) = BodyTarget(Incoming.value)
      BY <1>4, <2>4 DEF Target
    <3>2. CASE pipe.reader = "override" /\ flag # << >>
      <4>1. BodyTarget(Incoming.value) = FlagValue(1)
        BY <3>2 DEF BodyTarget
      <4>2. source = "flag" => drawn + 1 = 1
        <5>1. Len(flag) \in Nat /\ FlagItems = Len(flag)
          BY <1>1, <3>2, LimitType
        <5>2. ~pipe.many
          BY <1>1, <3>2, InputAssumption DEF TypeOK, pipe
        <5>3. ~(Len(flag) > 1)
          BY <5>2 DEF IInv, FlagFits
        <5> QED
          BY <1>1, <2>2, <5>1, <5>3 DEF Limit
      <4> QED
        BY <1>2, <2>2, <3>1, <3>2, <4>1, <4>2 DEF AboutItem
    <3>3. CASE ~(pipe.reader = "override" /\ flag # << >>)
      <4>1. BodyTarget(Incoming.value) \in {Empty, Incoming.value}
        BY <3>3 DEF BodyTarget
      <4> QED
        BY <2>2, <3>1, <4>1, EmptyAboutItem
    <3> QED
      BY <3>2, <3>3
  <2> QED
    BY <2>2, <2>3, <2>4
<1> QED
  BY <1>1, <1>3, <1>4

(* A request of a guarded command has its item: an item in the path is there *)
(* when the path is resolved, one in the body is asked for as required.       *)
LEMMA GuardedTarget ==
  ASSUME IInv, Running, CanSend(Incoming.value), Guarded
  PROVE  Target(Incoming.value) # Empty
<1>1. source # "" /\ source \in {"stdin", "flag", "once"} /\ Started /\ ReaderOnPipe /\ TypeOK
  BY DEF IInv, TypeOK, Running, Guarded
<1>2. CASE pipe.section = "path"
  <2>1. source # "once"
    <3> SUFFICES ASSUME source = "once"
                 PROVE  FALSE
      OBVIOUS
    <3>1. ~PipeUsed /\ ~(FlagItems > 0)
      BY <1>1 DEF Started
    <3>2. FlagItems = 0
      BY <1>1, <3>1, LimitType
    <3> QED
      BY <1>1, <1>2, <3>1, <3>2 DEF Started, ItemMissing
  <2>2. Target(Incoming.value) = Incoming.value
    BY <1>2, <2>1 DEF Target
  <2>3. Incoming.value.kind # "empty"
    BY <1>2, <2>1 DEF CanSend, MustBeUnresolved
  <2> QED
    BY <2>2, <2>3, EmptyType
<1>3. CASE pipe.section = "body" /\ HasBody /\ pipe.property \in command.requires
  BY <1>3 DEF CanSend, BodyComplete
<1> QED
  BY <1>2, <1>3 DEF Guarded

(* Before the first request. *)
LEMMA NoRequests == DOMAIN << >> = {} /\ Len(<< >>) = 0 /\ \A S : << >> \in Seq(S)
OBVIOUS

(* What no step changes. *)
LEMMA GivenStays ==
  ASSUME UNCHANGED given
  PROVE  /\ command' = command /\ settings' = settings /\ flag' = flag /\ stdin' = stdin
         /\ pipe' = pipe
BY DEF given, pipe

-----------------------------------------------------------------------------
LEMMA InitIInv == Init => IInv
<1> SUFFICES ASSUME Init
             PROVE  IInv
  OBVIOUS
<1>1. TypeOK
  <2>1. requests \in Seq([item : Nat, target : Targets])
    BY NoRequests, Zenon DEF Init
  <2>2. flag \in Flags
    BY DEF Init
  <2> QED
    BY <2>1, <2>2 DEF Init, TypeOK
<1>2. FlagFits
  BY DEF Init, FlagFits, pipe
<1>3. Started /\ Idle /\ Counted /\ WithinInput /\ AtEnd
  <2>1. source = "" /\ outcome = "" /\ requests = << >> /\ drawn = 0 /\ failures = 0
    BY DEF Init
  <2>2. Started
    BY <2>1, Zenon DEF Started
  <2>3. Idle /\ WithinInput
    BY <2>1 DEF Idle, WithinInput
  <2>4. Counted
    <3>1. Len(requests) = 0
      BY <2>1, NoRequests, Zenon
    <3>2. 0 + 0 = 0
      OBVIOUS
    <3> QED
      BY <2>1, <3>1, <3>2, Zenon DEF Counted
  <2>5. AtEnd
    BY <2>1 DEF AtEnd
  <2> QED
    BY <2>2, <2>3, <2>4, <2>5
<1>4. Drawn /\ NoUnscopedRequest /\ RequestsMatchItems
  <2>1. DOMAIN requests = {}
    BY NoRequests DEF Init
  <2> QED
    BY <2>1 DEF Drawn, NoUnscopedRequest, RequestsMatchItems
<1> QED
  BY <1>1, <1>2, <1>3, <1>4 DEF IInv

(* A command that does not start. *)
LEMMA RefuseStep ==
  ASSUME IInv, Refuse \/ SkipEmptyPipe \/ Reject
  PROVE  IInv'
<1>1. /\ UNCHANGED given /\ UNCHANGED <<source, drawn, requests, failures>>
      /\ source = "" /\ outcome' \in {"refused", "empty", "rejected"}
  BY DEF Refuse, SkipEmptyPipe, Reject, Proceeds
<1>2. /\ command' = command /\ settings' = settings /\ flag' = flag /\ stdin' = stdin
      /\ pipe' = pipe
  BY <1>1, GivenStays
<1>3. TypeOK' /\ FlagFits'
  BY <1>1, <1>2 DEF IInv, TypeOK, Stdins, FlagFits
<1>4. Started' /\ Idle' /\ Counted' /\ WithinInput' /\ AtEnd'
  BY <1>1 DEF IInv, Started, Idle, Counted, WithinInput, AtEnd
<1>5. Drawn' /\ NoUnscopedRequest' /\ RequestsMatchItems'
  <2>1. DOMAIN requests' = {}
    BY <1>1, NoRequests DEF IInv, Idle
  <2> QED
    BY <2>1 DEF Drawn, NoUnscopedRequest, RequestsMatchItems
<1> QED
  BY <1>3, <1>4, <1>5 DEF IInv

(* What the command was given is the same in the next state, and so is all   *)
(* that is derived from it and the source.                                    *)
LEMMA DerivedStays ==
  ASSUME UNCHANGED given, source' = source
  PROVE  /\ pipe' = pipe /\ Refused' = Refused /\ EndsEmpty' = EndsEmpty
         /\ OptionsMissing' = OptionsMissing /\ ItemMissing' = ItemMissing
         /\ PipeUsed' = PipeUsed /\ ReaderOnPipe' = ReaderOnPipe /\ FlagItems' = FlagItems
         /\ Guarded' = Guarded /\ Limit' = Limit
<1>1. /\ command' = command /\ settings' = settings /\ flag' = flag /\ stdin' = stdin
      /\ pipe' = pipe
  BY GivenStays
<1>2. ReaderOnPipe' = ReaderOnPipe /\ FlagItems' = FlagItems
  BY <1>1, Zenon DEF ReaderOnPipe, FlagItems
<1>3. Refused' = Refused /\ OptionsMissing' = OptionsMissing
  BY <1>1, Zenon DEF Refused, OptionsMissing
<1>4. PipeUsed' = PipeUsed /\ EndsEmpty' = EndsEmpty
  BY <1>1, <1>2, Zenon DEF PipeUsed, EndsEmpty, EmptyPipe
<1>5. ItemMissing' = ItemMissing
  BY <1>1, <1>2, <1>4, Zenon DEF ItemMissing
<1>6. Guarded' = Guarded
  BY <1>1, <1>2, Zenon DEF Guarded, HasBody
<1>7. Limit' = Limit
  BY <1>1, <1>2, Zenon DEF Limit
<1> QED
  BY <1>1, <1>2, <1>3, <1>4, <1>5, <1>6, <1>7, Zenon

(* The checks of the start go on to hold while the command runs. *)
LEMMA StartedStays ==
  ASSUME Started, UNCHANGED given, source' = source
  PROVE  Started'
BY DerivedStays, Zenon DEF Started

(* A command that starts. *)
LEMMA StartStep ==
  ASSUME IInv, Start
  PROVE  IInv'
<1>1. /\ UNCHANGED given /\ UNCHANGED <<drawn, requests, failures, outcome>>
      /\ source = "" /\ outcome = "" /\ requests = << >> /\ drawn = 0 /\ failures = 0
  BY DEF IInv, Idle, Start, Proceeds
<1>2. /\ command' = command /\ settings' = settings /\ flag' = flag /\ stdin' = stdin
      /\ pipe' = pipe
  BY <1>1, GivenStays
<1>3. source' \in {"stdin", "flag", "once"}
  BY DEF Start
<1>4. TypeOK' /\ FlagFits'
  BY <1>1, <1>2, <1>3 DEF IInv, TypeOK, Stdins, FlagFits
<1>5. Started'
  <2>1. /\ ReaderOnPipe' = ReaderOnPipe /\ FlagItems' = FlagItems
        /\ Refused' = Refused /\ OptionsMissing' = OptionsMissing
    BY <1>2, Zenon DEF ReaderOnPipe, FlagItems, Refused, OptionsMissing
  <2>2. PipeUsed' = PipeUsed /\ EndsEmpty' = EndsEmpty
    BY <1>2, <2>1, Zenon DEF PipeUsed, EndsEmpty, EmptyPipe
  <2>3. ItemMissing' = ItemMissing
    BY <1>2, <2>1, <2>2, Zenon DEF ItemMissing
  <2>4. ~Refused /\ ~EndsEmpty /\ ~OptionsMissing /\ ~ItemMissing
    BY DEF Start, Proceeds
  <2>5. /\ source' = "stdin" => PipeUsed
        /\ source' = "flag" => ReaderOnPipe /\ FlagItems > 0
        /\ source' = "once" => ~PipeUsed /\ ~(ReaderOnPipe /\ FlagItems > 0)
    <3>1. source' = IF PipeUsed THEN "stdin"
                    ELSE IF ReaderOnPipe /\ FlagItems > 0 THEN "flag" ELSE "once"
      BY DEF Start
    <3> QED
      BY <3>1
  <2> QED
    BY <2>1, <2>2, <2>3, <2>4, <2>5, Zenon DEF Started
<1>6. Idle' /\ AtEnd'
  BY <1>1, <1>3 DEF Idle, AtEnd
<1>7. Counted'
  BY <1>1 DEF IInv, Counted
<1>8. WithinInput'
  <2>1. Len(stdin'.lines) \in Nat /\ FlagItems' \in Nat
    <3>1. TypeOK
      BY DEF IInv
    <3>2. Len(stdin.lines) \in Nat /\ FlagItems \in Nat
      BY <3>1, GivenTypes, LimitType
    <3>3. FlagItems' = FlagItems
      BY <1>2, Zenon DEF FlagItems
    <3> QED
      BY <1>2, <3>2, <3>3, Zenon
  <2> QED
    BY <1>1, <2>1, NextNumber, Zenon DEF WithinInput
<1>9. Drawn' /\ NoUnscopedRequest' /\ RequestsMatchItems'
  <2>1. DOMAIN requests' = {}
    BY <1>1, NoRequests
  <2> QED
    BY <2>1 DEF Drawn, NoUnscopedRequest, RequestsMatchItems
<1> QED
  BY <1>4, <1>5, <1>6, <1>7, <1>8, <1>9 DEF IInv

(* The number of the item that is drawn stays within the input. *)
LEMMA WithinStays ==
  ASSUME TypeOK, UNCHANGED given, source' = source, drawn' = drawn + 1,
         source \in {"stdin", "flag", "once"}, source # "once" => drawn + 1 <= Limit
  PROVE  WithinInput'
<1>1. FlagItems' = FlagItems /\ stdin' = stdin
  BY DerivedStays, GivenStays
<1> QED
  BY <1>1 DEF WithinInput, Limit

(* An item that is drawn and skipped. *)
LEMMA SkipStep ==
  ASSUME IInv, Skip
  PROVE  IInv'
<1>1. /\ UNCHANGED given /\ UNCHANGED <<source, requests>> /\ drawn' = drawn + 1
      /\ failures' = failures + 1 /\ outcome' \in {"aborted", ""}
      /\ Running /\ ~EndOfInput
  BY DEF Skip, Running
<1>2. /\ command' = command /\ settings' = settings /\ flag' = flag /\ stdin' = stdin
      /\ pipe' = pipe
  BY <1>1, GivenStays
<1>3. TypeOK /\ drawn \in Nat /\ failures \in Nat /\ source \in {"stdin", "flag", "once"}
  BY <1>1 DEF IInv, TypeOK, Running
<1>4. TypeOK' /\ FlagFits'
  <2>1. drawn' \in Nat /\ failures' \in Nat
    BY <1>1, <1>3, NextNumber, Zenon
  <2>2. outcome' \in {"", "refused", "empty", "rejected", "aborted", "eof"}
    BY <1>1
  <2>3. TypeOK'
    BY <1>1, <1>2, <1>3, <2>1, <2>2 DEF TypeOK, Stdins
  <2> QED
    BY <1>2, <2>3 DEF IInv, FlagFits
<1>5. Started'
  BY <1>1, StartedStays DEF IInv
<1>6. Idle' /\ AtEnd'
  BY <1>1 DEF Running, Idle, AtEnd
<1>7. Counted'
  <2>1. Len(requests) \in Nat
    BY <1>3, Length, Zenon DEF TypeOK
  <2>2. Len(requests) + failures = drawn
    BY Zenon DEF IInv, Counted
  <2>3. Len(requests) + (failures + 1) = (Len(requests) + failures) + 1
    BY <1>3, <2>1, CountMore, Zenon
  <2> QED
    BY <1>1, <2>2, <2>3, Zenon DEF Counted
<1>8. WithinInput'
  BY <1>1, <1>3, TargetItem, WithinStays
<1>9. Drawn'
  <2>1. ASSUME NEW i \in DOMAIN requests
        PROVE  requests[i].item \in 1 .. (drawn + 1)
    BY <1>3, <2>1 DEF IInv, Drawn
  <2> QED
    BY <1>1, <2>1 DEF Drawn
<1>10. NoUnscopedRequest'
  BY <1>1, DerivedStays, Zenon DEF IInv, NoUnscopedRequest
<1>11. RequestsMatchItems'
  BY <1>1, Zenon DEF IInv, RequestsMatchItems
<1> QED
  BY <1>4, <1>5, <1>6, <1>7, <1>8, <1>9, <1>10, <1>11 DEF IInv

(* The same input gives the same item. *)
LEMMA SameInput ==
  ASSUME UNCHANGED given, UNCHANGED <<source, drawn>>
  PROVE  EndOfInput' = EndOfInput
<1>0. /\ command' = command /\ flag' = flag /\ stdin' = stdin /\ pipe' = pipe
      /\ source' = source /\ drawn' = drawn
  BY GivenStays
<1>1. ASSUME NEW n
      PROVE  SourceNext(n)' = SourceNext(n)
  <2>1. FlagValue(n)' = FlagValue(n) /\ FlagItems' = FlagItems
    BY <1>0, Zenon DEF FlagValue, FlagItems
  <2>2. SliceNext(n)' = SliceNext(n)
    BY <1>0, <2>1, Zenon DEF SliceNext
  <2>3. LineText(n)' = LineText(n) /\ EndsReading(n)' = EndsReading(n)
    BY <1>0, Zenon DEF LineText, EndsReading
  <2>4. PipeNext(n)' = PipeNext(n)
    BY <1>0, <2>3, Zenon DEF PipeNext, Plucked
  <2> QED
    BY <1>0, <2>2, <2>4, Zenon DEF SourceNext
<1>2. ASSUME NEW n
      PROVE  ItemNext(n)' = ItemNext(n)
  <2>1. Overriding(n)' = Overriding(n)
    BY <1>0, Zenon DEF Overriding, FlagValue
  <2>2. OverrideNext(n)' = OverrideNext(n)
    BY <1>1, <2>1, Zenon DEF OverrideNext
  <2> QED
    BY <1>0, <1>1, <2>2, Zenon DEF ItemNext
<1>3. ItemNext(drawn + 1)' = ItemNext(drawn + 1)
  BY <1>0, <1>2, Zenon
<1>4. EndOfInput' = EndOfInput
  BY <1>0, <1>3, Zenon DEF EndOfInput, Incoming
<1> QED
  BY <1>4

(* The end of the input. *)
LEMMA EndStep ==
  ASSUME IInv, End
  PROVE  IInv'
<1>1. /\ UNCHANGED given /\ UNCHANGED <<source, drawn, requests, failures>>
      /\ Running /\ EndOfInput /\ outcome' = "eof"
  BY DEF End
<1>2. /\ command' = command /\ settings' = settings /\ flag' = flag /\ stdin' = stdin
      /\ pipe' = pipe
  BY <1>1, GivenStays
<1>3. TypeOK' /\ FlagFits'
  BY <1>1, <1>2 DEF IInv, TypeOK, Stdins, FlagFits
<1>4. Started'
  BY <1>1, StartedStays DEF IInv
<1>5. Idle'
  BY <1>1 DEF Running, Idle
<1>6. Counted' /\ Drawn' /\ RequestsMatchItems'
  BY <1>1, Zenon DEF IInv, Counted, Drawn, RequestsMatchItems
<1>7. WithinInput' /\ NoUnscopedRequest'
  <2>1. FlagItems' = FlagItems /\ Guarded' = Guarded
    BY <1>1, DerivedStays
  <2>2. WithinInput'
    BY <1>1, <1>2, <2>1, Zenon DEF IInv, WithinInput
  <2>3. NoUnscopedRequest'
    BY <1>1, <2>1, Zenon DEF IInv, NoUnscopedRequest
  <2> QED
    BY <2>2, <2>3
<1>8. AtEnd'
  <2>1. EndOfInput' = EndOfInput
    BY <1>1, SameInput
  <2> QED
    BY <1>1, <2>1 DEF AtEnd
<1> QED
  BY <1>3, <1>4, <1>5, <1>6, <1>7, <1>8 DEF IInv

(* A request for the item that is drawn. *)
LEMMA SendStep ==
  ASSUME IInv, Send
  PROVE  IInv'
<1> DEFINE target == Target(Incoming.value)
           request == [item |-> drawn + 1, target |-> target]
<1>1. /\ UNCHANGED given /\ UNCHANGED <<source, failures, outcome>> /\ drawn' = drawn + 1
      /\ requests' = Append(requests, request)
      /\ Running /\ ~EndOfInput /\ CanSend(Incoming.value)
  BY DEF Send
<1>2. /\ command' = command /\ settings' = settings /\ flag' = flag /\ stdin' = stdin
      /\ pipe' = pipe
  BY <1>1, GivenStays
<1>3. /\ TypeOK /\ drawn \in Nat /\ failures \in Nat /\ source \in {"stdin", "flag", "once"}
      /\ requests \in Seq([item : Nat, target : Targets])
  BY <1>1 DEF IInv, TypeOK, Running
<1>4. AboutItem(target, drawn + 1) /\ (source # "once" => drawn + 1 <= Limit)
  BY <1>1, TargetItem
<1>5. request \in [item : Nat, target : Targets]
  <2>1. drawn + 1 \in Nat
    BY <1>3, NextNumber, Zenon
  <2>2. target \in Targets
    BY <1>4 DEF AboutItem
  <2> QED
    BY <2>1, <2>2
<1> DEFINE last == Len(requests) + 1
<1>6. /\ requests' \in Seq([item : Nat, target : Targets]) /\ Len(requests') = last
      /\ DOMAIN requests' = DOMAIN requests \cup {last}
      /\ \A i \in DOMAIN requests : requests'[i] = requests[i] /\ i # last /\ i < last
      /\ \A i, j \in DOMAIN requests' : i < j => i \in DOMAIN requests
      /\ requests'[last] = request
  BY <1>1, <1>3, <1>5, Appended
<1>7. request.item = drawn + 1 /\ request.target = target
  OBVIOUS
<1> HIDE DEF target, request
<1>8. TypeOK' /\ FlagFits'
  <2>1. drawn' \in Nat
    BY <1>1, <1>3, NextNumber, Zenon
  <2>2. TypeOK'
    BY <1>1, <1>2, <1>3, <1>6, <2>1 DEF TypeOK, Stdins
  <2> QED
    BY <1>2, <2>2 DEF IInv, FlagFits
<1>9. Started'
  BY <1>1, StartedStays DEF IInv
<1>10. Idle' /\ AtEnd'
  BY <1>1 DEF Running, Idle, AtEnd
<1>11. Counted'
  <2>1. Len(requests) \in Nat
    BY <1>3, Length, Zenon
  <2>2. Len(requests) + failures = drawn
    BY Zenon DEF IInv, Counted
  <2>3. (Len(requests) + 1) + failures = (Len(requests) + failures) + 1
    BY <1>3, <2>1, CountMore, Zenon
  <2> QED
    BY <1>1, <1>6, <2>2, <2>3, Zenon DEF Counted
<1>12. WithinInput'
  BY <1>1, <1>3, <1>4, WithinStays
<1>13. Drawn'
  <2>1. ASSUME NEW i \in DOMAIN requests
        PROVE  requests[i].item \in 1 .. (drawn + 1)
    BY <1>3, <2>1 DEF IInv, Drawn
  <2>2. drawn + 1 \in 1 .. (drawn + 1)
    BY <1>3
  <2> HIDE DEF last
  <2> QED
    BY <1>1, <1>6, <1>7, <2>1, <2>2, Zenon DEF Drawn
<1>14. NoUnscopedRequest'
  <2>1. Guarded' = Guarded
    BY <1>1, DerivedStays
  <2>2. Guarded => target # Empty
    BY <1>1, GuardedTarget DEF target
  <2>3. Guarded => \A i \in DOMAIN requests : requests[i].target # Empty
    BY DEF IInv, NoUnscopedRequest
  <2> HIDE DEF last
  <2> QED
    BY <1>6, <1>7, <2>1, <2>2, <2>3, Zenon DEF NoUnscopedRequest
<1>15. RequestsMatchItems'
  <2>1. \A i \in DOMAIN requests : requests[i].item < drawn + 1
    <3>1. ASSUME NEW i \in DOMAIN requests
          PROVE  requests[i].item < drawn + 1
      BY <1>3, <3>1 DEF IInv, Drawn
    <3> QED
      BY <3>1
  <2>2. ASSUME NEW i \in DOMAIN requests', NEW j \in DOMAIN requests', i < j
        PROVE  requests'[i].item < requests'[j].item
    <3>1. i \in DOMAIN requests
      BY <1>6, <2>2, Zenon
    <3>2. CASE j \in DOMAIN requests
      BY <1>6, <2>2, <3>1, <3>2, Zenon DEF IInv, RequestsMatchItems
    <3>3. CASE j = last
      BY <1>6, <1>7, <2>1, <3>1, <3>3, Zenon
    <3> QED
      BY <1>6, <3>2, <3>3
  <2>3. ASSUME NEW i \in DOMAIN requests'
        PROVE  /\ requests'[i].target.from = "line"
                    => requests'[i].target.at = requests'[i].item /\ source = "stdin"
               /\ requests'[i].target.from = "flag" /\ source = "flag"
                    => requests'[i].target.at = requests'[i].item
    <3>1. CASE i \in DOMAIN requests
      BY <1>6, <3>1, Zenon DEF IInv, RequestsMatchItems
    <3>2. CASE i = last
      BY <1>4, <1>6, <1>7, <3>2, Zenon DEF AboutItem
    <3> QED
      BY <1>6, <2>3, <3>1, <3>2
  <2> QED
    BY <1>1, <2>2, <2>3, Zenon DEF RequestsMatchItems
<1> QED
  BY <1>8, <1>9, <1>10, <1>11, <1>12, <1>13, <1>14, <1>15 DEF IInv

(* Nothing changes. *)
LEMMA StutterStep ==
  ASSUME IInv, UNCHANGED vars
  PROVE  IInv'
<1>1. /\ UNCHANGED <<command, settings, flag, stdin>> /\ UNCHANGED <<source, drawn>>
      /\ UNCHANGED <<requests, failures, outcome>> /\ pipe' = pipe /\ UNCHANGED given
  BY DEF vars, pipe, given
<1>2. EndOfInput' = EndOfInput
  BY <1>1, SameInput
<1>3. TypeOK' /\ FlagFits'
  BY <1>1 DEF IInv, TypeOK, Stdins, FlagFits
<1>4. FlagItems' = FlagItems /\ Guarded' = Guarded
  BY <1>1, DerivedStays
<1>5. Started'
  BY <1>1, StartedStays DEF IInv
<1>6. Idle' /\ Counted' /\ Drawn'
  BY <1>1, Zenon DEF IInv, Idle, Counted, Drawn
<1>7. WithinInput' /\ AtEnd'
  BY <1>1, <1>2, <1>4, Zenon DEF IInv, WithinInput, AtEnd
<1>8. NoUnscopedRequest' /\ RequestsMatchItems'
  BY <1>1, <1>4, Zenon DEF IInv, NoUnscopedRequest, RequestsMatchItems
<1> QED
  BY <1>3, <1>5, <1>6, <1>7, <1>8 DEF IInv

(* Every step preserves the invariant. *)
LEMMA NextIInv ==
  ASSUME IInv, [Next]_vars
  PROVE  IInv'
<1>1. CASE Refuse \/ SkipEmptyPipe \/ Reject
  BY <1>1, RefuseStep
<1>2. CASE Start
  BY <1>2, StartStep
<1>3. CASE Send
  BY <1>3, SendStep
<1>4. CASE Skip
  BY <1>4, SkipStep
<1>5. CASE End
  BY <1>5, EndStep
<1>6. CASE Done \/ UNCHANGED vars
  <2>1. UNCHANGED vars
    BY <1>6 DEF Done
  <2> QED
    BY <2>1, StutterStep
<1> QED
  BY <1>1, <1>2, <1>3, <1>4, <1>5, <1>6 DEF Next

(* The inductive invariant holds in every behaviour. *)
LEMMA Invariant == Spec => []IInv
<1>1. IInv /\ [Next]_vars => IInv'
  BY NextIInv
<1> QED
  BY InitIInv, <1>1, PTL DEF Spec

-----------------------------------------------------------------------------
(* The variables keep their types (the producer of Worker.runBatched). *)
THEOREM TypeCorrect == Spec => []TypeOK
<1>1. IInv => TypeOK
  BY DEF IInv
<1> QED
  BY Invariant, <1>1, PTL

(* No request of a command whose item is in the path or is a required        *)
(* property of the body goes out without it, for every input.                *)
THEOREM NeverUnscoped == Spec => []NoUnscopedRequest
<1>1. IInv => NoUnscopedRequest
  BY DEF IInv
<1> QED
  BY Invariant, <1>1, PTL

(* Requests are in the order of the input and about their own items, for     *)
(* every number of lines and flag values (the iterators and their overrides).*)
THEOREM ItemsMatch == Spec => []RequestsMatchItems
<1>1. IInv => RequestsMatchItems
  BY DEF IInv
<1> QED
  BY Invariant, <1>1, PTL

(* An empty pipe sends nothing, unless it is allowed (NewFlagWithPipeIterator *)
(* and ErrEmptyPipeInput).                                                    *)
THEOREM EmptyPipeIsQuiet == Spec => []EmptyPipeSendsNothing
<1>1. IInv => EmptyPipeSendsNothing
  <2> SUFFICES ASSUME IInv, requests # << >>, EmptyPipe, ~settings.allowEmptyPipe
               PROVE  FALSE
    BY DEF EmptyPipeSendsNothing, EmptyPipe
  <2>1. source # ""
    BY DEF IInv, Idle
  <2> QED
    BY <2>1 DEF IInv, Started, EndsEmpty
<1> QED
  BY Invariant, <1>1, PTL

(* Every item that was drawn is a request or a counted error, and the end of  *)
(* the input is the end of the lines, or a line that ends the reading         *)
(* (Worker.runBatched).                                                       *)
THEOREM ItemsAreAccountedFor == Spec => []ItemsAccountedFor
<1>1. IInv => ItemsAccountedFor
  <2> SUFFICES ASSUME IInv
               PROVE  ItemsAccountedFor
    OBVIOUS
  <2>1. Len(requests) + failures = drawn
    BY Zenon DEF IInv, Counted
  <2>2. ASSUME source = "stdin", outcome = "eof"
        PROVE  drawn = Len(stdin.lines) \/ StopsAt(drawn + 1)
    <3>1. TypeOK /\ drawn <= Len(stdin.lines) /\ EndOfInput
      BY <2>2 DEF IInv, WithinInput, AtEnd
    <3>2. drawn \in Nat /\ Len(stdin.lines) \in Nat
      <4>1. drawn \in Nat
        BY <3>1 DEF TypeOK
      <4>2. Len(stdin.lines) \in Nat
        BY <3>1, GivenTypes, Length, Zenon
      <4> QED
        BY <4>1, <4>2
    <3>3. drawn + 1 \in Nat \ {0}
      BY <3>2, NextNumber, Zenon
    <3>4. ItemNext(drawn + 1).eof
      BY <2>2, <3>1 DEF EndOfInput, Incoming
    <3>5. drawn + 1 > Len(stdin.lines) \/ StopsAt(drawn + 1)
      BY <2>2, <3>1, <3>3, <3>4, ItemEnd
    <3>6. drawn + 1 > Len(stdin.lines) => drawn = Len(stdin.lines)
      <4>1. ASSUME NEW d \in Nat, NEW l \in Nat, d <= l, d + 1 > l
            PROVE  d = l
        BY <4>1
      <4> QED
        BY <3>1, <3>2, <4>1, Zenon
    <3> QED
      BY <3>5, <3>6, Zenon
  <2> QED
    BY <2>1, <2>2, Zenon DEF ItemsAccountedFor
<1> QED
  BY Invariant, <1>1, PTL

(* If every command that writes has the gate of its method, as the rows of    *)
(* the catalogue have, the modes of the session bound what is sent            *)
(* (ValidateCreateMode and its siblings).                                     *)
GatesFollowMethods ==
  \A c \in Commands :
    /\ c.method = "POST" => c.gate = "Create"
    /\ c.method = "PUT" => c.gate = "Update"
    /\ c.method = "DELETE" => c.gate = "Delete"

THEOREM ModesAreRespected ==
  ASSUME GatesFollowMethods
  PROVE  Spec => []ModesRespected
<1>1. IInv => ModesRespected
  <2> SUFFICES ASSUME IInv, requests # << >>
               PROVE  /\ command.method = "POST" => "Create" \in settings.modes
                      /\ command.method = "PUT" => "Update" \in settings.modes
                      /\ command.method = "DELETE" => "Delete" \in settings.modes
    BY DEF ModesRespected
  <2>1. ~Refused
    <3>1. source # ""
      BY DEF IInv, Idle
    <3> QED
      BY <3>1 DEF IInv, Started
  <2>2. command \in Commands
    BY DEF IInv, TypeOK
  <2> QED
    BY <2>1, <2>2 DEF Refused, Modes, GatesFollowMethods
<1> QED
  BY Invariant, <1>1, PTL

-----------------------------------------------------------------------------
(* Progress. *)

(* A single request is drawn once. *)
OnceDrawn == source = "once" => drawn <= 1

LEMMA OnceInvariant == Spec => []OnceDrawn
<1>1. Init => OnceDrawn
  <2>1. ASSUME Init PROVE source # "once"
    BY <2>1, Zenon DEF Init
  <2> QED
    BY <2>1 DEF OnceDrawn
<1>2. IInv /\ OnceDrawn /\ [Next]_vars => OnceDrawn'
  <2> SUFFICES ASSUME IInv, OnceDrawn, [Next]_vars PROVE OnceDrawn'
    OBVIOUS
  <2>1. CASE Send \/ Skip
    <3>1. source' = source /\ drawn' = drawn + 1 /\ ~EndOfInput
      BY <2>1, Zenon DEF Send, Skip
    <3>2. source = "once" => ~(drawn > 0)
      BY <3>1 DEF EndOfInput, Incoming, Got
    <3>3. drawn \in Nat
      BY Zenon DEF IInv, TypeOK
    <3> QED
      BY <3>1, <3>2, <3>3 DEF OnceDrawn
  <2>2. CASE Start
    <3>1. drawn' = drawn /\ drawn = 0
      BY <2>2, Zenon DEF Start, Proceeds, IInv, Idle
    <3> QED
      BY <3>1 DEF OnceDrawn
  <2>3. CASE Refuse \/ SkipEmptyPipe \/ Reject \/ End \/ Done \/ UNCHANGED vars
    <3>1. source' = source /\ drawn' = drawn
      BY <2>3, Zenon DEF Refuse, SkipEmptyPipe, Reject, End, Done, vars
    <3> QED
      BY <3>1 DEF OnceDrawn
  <2> QED
    BY <2>1, <2>2, <2>3 DEF Next
<1> QED
  BY <1>1, <1>2, Invariant, PTL DEF Spec

LEMMA ProgressType ==
  ASSUME TypeOK
  PROVE  drawn \in Nat /\ started \in {0, 1} /\ ended \in {0, 1}
BY Zenon DEF TypeOK, started, ended

(* Every step draws an item, starts the iteration or ends the command: the    *)
(* producer runs in no circle (Worker.runBatched and the iterators).          *)
THEOREM InputMovesForward == Spec => InputForward
<1>1. IInv /\ [Next]_vars => [inputProgress < inputProgress']_vars
  <2> SUFFICES ASSUME IInv, Next, ~UNCHANGED vars PROVE inputProgress < inputProgress'
    BY Zenon
  <2>1. drawn \in Nat /\ started \in {0, 1} /\ ended \in {0, 1}
    BY ProgressType, Zenon DEF IInv
  <2>2. ended' \in {0, 1}
    BY Zenon DEF ended
  <2>3. CASE Send \/ Skip
    <3>1. drawn' = drawn + 1 /\ started' = started /\ ended = 0
      BY <2>3, Zenon DEF Send, Skip, Running, started, ended
    <3>2. \A d \in Nat, s, e \in {0, 1} : d + s + 0 < (d + 1) + s + e
      OBVIOUS
    <3> QED
      BY <2>1, <2>2, <3>1, <3>2 DEF inputProgress
  <2>4. CASE Start
    <3>1. drawn' = drawn /\ started = 0 /\ started' = 1 /\ ended' = ended
      <4>1. source' \in {"stdin", "flag", "once"}
        BY <2>4, Zenon DEF Start
      <4>2. started' = 1
        BY <4>1, Zenon DEF started
      <4>3. drawn' = drawn /\ source = "" /\ outcome' = outcome
        BY <2>4, Zenon DEF Start, Proceeds
      <4> QED
        BY <4>2, <4>3, Zenon DEF started, ended
    <3> QED
      BY <2>1, <3>1 DEF inputProgress
  <2>5. CASE Refuse \/ SkipEmptyPipe \/ Reject \/ End
    <3>1. drawn' = drawn /\ started' = started /\ ended = 0 /\ ended' = 1
      <4>1. outcome' \in {"refused", "empty", "rejected", "eof"}
        BY <2>5, Zenon DEF Refuse, SkipEmptyPipe, Reject, End
      <4> QED
        BY <2>5, <4>1, Zenon DEF Refuse, SkipEmptyPipe, Reject, End, Proceeds, Running,
                                 started, ended
    <3> QED
      BY <2>1, <3>1 DEF inputProgress
  <2>6. ~Done
    BY Zenon DEF Done
  <2> QED
    BY <2>3, <2>4, <2>5, <2>6, Zenon DEF Next
<1> QED
  BY <1>1, Invariant, PTL DEF Spec, InputForward

(* It is bounded by the items of its source, and stands still at none of them: *)
(* with InputMovesForward a command ends, whatever it is given.                *)
THEOREM InputIsBounded == Spec => []InputBounded
<1>1. IInv /\ OnceDrawn => InputBounded
  <2> SUFFICES ASSUME IInv, OnceDrawn PROVE InputBounded
    OBVIOUS
  <2>1. drawn \in Nat /\ started \in {0, 1} /\ ended \in {0, 1}
    BY ProgressType, Zenon DEF IInv
  <2>2. Len(stdin.lines) \in Nat /\ FlagItems \in Nat
    <3>1. TypeOK
      BY Zenon DEF IInv
    <3> QED
      BY <3>1, GivenTypes, LimitType, Length, Zenon
  <2>3. drawn <= SourceItems /\ SourceItems \in Nat
    <3>1. CASE source = "stdin"
      BY <2>2, <3>1 DEF SourceItems, IInv, WithinInput
    <3>2. CASE source = "flag"
      BY <2>2, <3>2 DEF SourceItems, IInv, WithinInput
    <3>3. CASE source = "once"
      BY <3>3 DEF SourceItems, OnceDrawn
    <3>4. CASE source \notin {"stdin", "flag", "once"}
      <4>1. drawn = 0
        BY <3>4, Zenon DEF IInv, TypeOK, Idle
      <4>2. SourceItems = 1
        BY <3>4 DEF SourceItems
      <4> QED
        BY <4>1, <4>2
    <3> QED
      BY <3>1, <3>2, <3>3, <3>4
  <2>4. inputProgress <= SourceItems + 2
    BY <2>1, <2>3 DEF inputProgress
  <2>5. CanSend(Incoming.value) \/ CanFail(Incoming.value)
    BY DEF CanSend, CanFail, MustBeUnresolved, MayBeUnresolved
  <2> QED
    BY <2>4, <2>5, Zenon DEF InputBounded, ItemGoesOn
<1> QED
  BY <1>1, Invariant, OnceInvariant, PTL
====
