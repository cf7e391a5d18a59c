---------------------------- MODULE CommandInput ----------------------------
(* How one c8y command turns its input into REST requests: the mode gate,   *)
(* the choice between piped lines and flag values, the reading of one item  *)
(* after the other, the lookup of names, and the request that is built from *)
(* an item or the error that takes its place.  The requests and errors are  *)
(* what the producer of module BatchWorker hands out.                       *)
EXTENDS Naturals, Sequences, FiniteSets

CONSTANTS
  Commands,        \* rows of module Catalog
  Flags,           \* values given for the flag that takes piped input: sequences of ItemKinds
  Lines,           \* piped lines: sequences of LineKinds
  Settings,        \* [modes, allowEmptyPipe, optionsGiven]
  AbortOnErrors    \* batchOptions.AbortOnErrorCount

ItemKinds == {"known", "unknown"}    \* an id or a name that exists, or one that does not
LineKinds == ItemKinds \cup
  {"object",    \* a JSON object that has one of the properties the command looks for
   "bare",      \* a JSON object without them
   "array",     \* starts like JSON, but is no object
   "spaces",    \* nothing but spaces
   "blank"}     \* nothing
Modes == {"Create", "Update", "Delete"}
Sections == {"none", "path", "query", "body"}
Readers == {"none", "ids", "entity", "self", "string", "preset", "override", "default", "slice"}

ASSUME InputAssumption ==
  /\ \A c \in Commands :
       /\ c.gate \in Modes \cup {"Read"}
       /\ c.pipe.section \in Sections /\ c.pipe.reader \in Readers
       /\ c.pipe.many \in BOOLEAN /\ c.pipe.required \in BOOLEAN
       /\ c.pipe.reader = "override" => ~c.pipe.many      \* WithOverrideValue takes a text
  /\ Flags \subseteq Seq(ItemKinds)
  /\ Lines \subseteq Seq(LineKinds)
  /\ \A s \in Settings :
       s.modes \subseteq Modes /\ s.allowEmptyPipe \in BOOLEAN /\ s.optionsGiven \in BOOLEAN
  /\ AbortOnErrors \in Nat

VARIABLES
  command,     \* the command that runs
  settings,    \* the session's modes and settings, and whether the other flags are given
  flag,        \* values of the flag that takes piped input; << >>: none
  stdin,       \* [piped, lines, terminated]: terminated says that the last line ends with \n
  source,      \* "stdin", "flag" or "once": what drives the iteration; "": not started
  drawn,       \* items that were drawn from the source
  requests,    \* requests handed out: [item, target]
  failures,    \* jobInputErrors: items that were skipped with an error
  outcome      \* why no more requests come: "": the command runs

vars == <<command, settings, flag, stdin, source, drawn, requests, failures, outcome>>
given == <<command, settings, flag, stdin>>

pipe == command.pipe

(***************************************************************************)
(* Values: a kind and the position, on the command line or on stdin, they  *)
(* come from.  "raw" is JSON text that was not plucked.                     *)
(***************************************************************************)
Value(kind, from, at) == [kind |-> kind, from |-> from, at |-> at]
Empty == Value("empty", "none", 0)
Tenant == Value("known", "tenant", 0)     \* client.TenantName, the default of some flags

(* What an iterator gives: a value, and io.EOF beside it or not. *)
Got(value, eof) == [value |-> value, eof |-> eof]
Nothing == Got(Empty, TRUE)

FlagValue(n) == Value(flag[n], "flag", n)

(* A line as text: not plucked, JSON remains JSON. *)
TextKind == [known |-> "known", unknown |-> "unknown", object |-> "raw", bare |-> "raw",
             array |-> "list", spaces |-> "empty", blank |-> "empty"]
LineText(n) == IF stdin.lines[n] \in {"spaces", "blank"} THEN Empty
               ELSE Value(TextKind[stdin.lines[n]], "line", n)

(* Lines that come with io.EOF, before any treatment: the last one without  *)
(* a newline, JSON that is no object, and an object that lacks the property *)
(* of a required item.                                                      *)
EndsReading(n) ==
  \/ n = Len(stdin.lines) /\ ~stdin.terminated
  \/ stdin.lines[n] = "array"
  \/ stdin.lines[n] = "bare" /\ pipe.required

(* The value that is plucked from an object, or the line itself. *)
Plucked(n) == IF stdin.lines[n] = "object" THEN Value("known", "line", n)
              ELSE IF stdin.lines[n] = "bare" THEN Empty
              ELSE LineText(n)

(* PipeIterator.GetNext. *)
PipeNext(n) == IF n > Len(stdin.lines) THEN Nothing
               ELSE IF EndsReading(n) THEN Got(LineText(n), TRUE)
               ELSE Got(Plucked(n), FALSE)

(* GetFlagStringValues with the default of the flag: [""] of a list, and no *)
(* item of a text.                                                          *)
FlagItems == IF flag # << >> THEN Len(flag) ELSE IF pipe.many THEN 1 ELSE 0

(* Mutant: the values of the flag are repeated for ever. *)
SliceNextRepeated(n) == Got(IF flag = << >> THEN Empty ELSE FlagValue(((n - 1) % Len(flag)) + 1), FALSE)

SliceNext(n) == IF n > FlagItems THEN Nothing
                ELSE Got(IF flag = << >> THEN Empty ELSE FlagValue(n), FALSE)

SourceNext(n) == IF source = "stdin" THEN PipeNext(n) ELSE SliceNext(n)

(* Mutant: the cycle through the flag's values starts one too late. *)
OverridingShifted(n) == IF flag = << >> THEN Empty ELSE FlagValue((n % Len(flag)) + 1)

(* The flag's value that replaces the item: WithIDSlice and                 *)
(* WithReferenceByName cycle through the values, WithSelfReferenceByName    *)
(* uses each of them once.                                                  *)
Overriding(n) ==
  IF flag = << >> \/ (pipe.reader = "self" /\ n > Len(flag)) THEN Empty
  ELSE FlagValue(((n - 1) % Len(flag)) + 1)

(* Mutant: io.EOF ends the iteration also when a value came with it. *)
OverrideNextStrict(n) ==
  LET got == SourceNext(n) IN
  Got(IF Overriding(n) # Empty THEN Overriding(n) ELSE got.value, got.eof)

(* OverrideIterator.GetNext and the first half of EntityIterator.GetNext:   *)
(* io.EOF beside a value is dropped.                                        *)
OverrideNext(n) ==
  LET got == SourceNext(n) IN
  Got(IF Overriding(n) # Empty THEN Overriding(n) ELSE got.value,
      got.eof /\ got.value = Empty)

Overrides == {"ids", "entity", "self"}    \* readers that use OverrideNext
LooksUp == {"entity", "self"}             \* readers that ask the server for a name
ReadsPipe == Overrides \cup {"string", "preset", "override"}

(* The n-th item of the command, before it is looked up. *)
ItemNext(n) == IF pipe.reader \in Overrides THEN OverrideNext(n) ELSE SourceNext(n)

(* EntityIterator.GetNext: cmderrors.ErrNoMatchesFound. *)
NoMatch(value) ==
  /\ pipe.reader \in LooksUp
  /\ IF value = Empty THEN pipe.required ELSE value.kind # "known"

(***************************************************************************)
(* The request built from an item (RequestIterator.GetNext).                *)
(***************************************************************************)
(* A single request, when nothing is iterated over. *)
OnceTarget ==
  IF pipe.reader \notin {"default", "slice"} THEN Empty
  ELSE IF flag # << >> THEN FlagValue(1)
  ELSE Tenant

(* MapBuilder.MarshalJSON: errors of the iterator other than io.EOF are     *)
(* dropped, a value that the body has already is kept, JSON is not set.     *)
BodyTarget(value) ==
  IF pipe.reader = "override" /\ flag # << >> THEN FlagValue(1)
  ELSE IF NoMatch(value) \/ value.kind \in {"raw", "list"} THEN Empty
  ELSE value

Target(value) == IF source = "once" THEN OnceTarget
                 ELSE IF pipe.section = "body" THEN BodyTarget(value)
                 ELSE value

HasBody == command.method \in {"POST", "PUT"}

(* validateRequiredKeysBytes. *)
BodyComplete(target) ==
  \A property \in command.requires :
     IF pipe.section = "body" /\ property = pipe.property THEN target # Empty
     ELSE settings.optionsGiven

(* Mutant: an empty value replaces the variable of the path. *)
MustBeUnresolvedFilled(value) == pipe.section = "path" /\ value.kind = "raw"

(* The path still has its {variable}, or JSON text with braces in its place *)
(* (hasUnresolvedVariables); other JSON text may or may not have braces.    *)
MustBeUnresolved(value) == pipe.section = "path" /\ value.kind \in {"empty", "raw"}
MayBeUnresolved(value) == pipe.section = "path" /\ value.kind \in {"empty", "raw", "list"}

Lookup(value) == pipe.section # "body" /\ NoMatch(value)

CanFail(value) ==
  \/ source # "once" /\ (Lookup(value) \/ MayBeUnresolved(value))
  \/ HasBody /\ ~BodyComplete(Target(value))
CanSend(value) ==
  /\ source # "once" => ~Lookup(value) /\ ~MustBeUnresolved(value)
  /\ HasBody => BodyComplete(Target(value))

(* The item that is drawn next; a single request has an empty one. *)
Incoming == IF source = "once" THEN Got(Empty, drawn > 0) ELSE ItemNext(drawn + 1)
EndOfInput == Incoming.eof

(***************************************************************************)
(* Start of a command.                                                      *)
(***************************************************************************)
Stdins ==
  [piped : {FALSE}, lines : {<< >>}, terminated : {TRUE}] \cup
  {s \in [piped : {TRUE}, lines : Lines, terminated : BOOLEAN] :
     ~s.terminated => s.lines # << >> /\ s.lines[Len(s.lines)] # "blank"}

Init ==
  /\ command \in Commands
  /\ settings \in Settings
  \* a flag with a default value is never without one
  /\ flag \in {f \in Flags : (Len(f) > 1 => command.pipe.many)
                             /\ (f = << >> => command.pipe.reader # "preset")}
  /\ stdin \in Stdins
  /\ source = "" /\ drawn = 0 /\ requests = << >> /\ failures = 0 /\ outcome = ""

Refused == command.gate \in Modes \ settings.modes

(* PreRunE: the mode of the command is not enabled. *)
Refuse ==
  /\ source = "" /\ outcome = "" /\ Refused
  /\ outcome' = "refused"
  /\ UNCHANGED <<given, source, drawn, requests, failures>>

OptionsMissing == command.needs # {} /\ ~settings.optionsGiven

ReaderOnPipe == pipe.reader \in ReadsPipe
(* NewJSONPipeIterator: ErrEmptyPipeInput, and ErrNoPipeInput for a stdin   *)
(* that is no pipe, is disabled, or starts with an empty line.              *)
EmptyPipe == ReaderOnPipe /\ stdin.piped /\ stdin.lines = << >>
PipeUsed == ReaderOnPipe /\ stdin.piped /\ stdin.lines # << >> /\ stdin.lines[1] # "blank"

(* Mutant: the setting is asked the wrong way round. *)
EndsEmptyInverted == EmptyPipe /\ settings.allowEmptyPipe
(* cmd.go and NewFlagWithPipeIterator: an empty pipe ends the command. *)
EndsEmpty == EmptyPipe /\ ~settings.allowEmptyPipe

(* The piped flag without an item: an error for a required item, which      *)
(* With...FirstMatch drops with the empty name, and a variable of the path  *)
(* that is missing (StringTemplate.CheckRequired).                          *)
ItemMissing ==
  /\ ~PipeUsed
  /\ \/ /\ ReaderOnPipe /\ FlagItems = 0
        /\ pipe.section = "path" \/ (pipe.required /\ pipe.reader \notin LooksUp)
     \/ pipe.reader = "slice" /\ flag = << >>

Proceeds == source = "" /\ outcome = "" /\ ~Refused

(* The command that meets an empty pipe ends without an error. *)
SkipEmptyPipe ==
  /\ Proceeds /\ EndsEmpty
  /\ outcome' = "empty"
  /\ UNCHANGED <<given, source, drawn, requests, failures>>

(* A required flag or path variable is missing. *)
Reject ==
  /\ Proceeds
  /\ OptionsMissing \/ (~EndsEmpty /\ ItemMissing)
  /\ outcome' = "rejected"
  /\ UNCHANGED <<given, source, drawn, requests, failures>>

(* RunE up to RunWithWorkers, and the path iterator of                      *)
(* Worker.ProcessRequestAndResponse.                                        *)
Start ==
  /\ Proceeds /\ ~EndsEmpty /\ ~OptionsMissing /\ ~ItemMissing
  /\ source' = IF PipeUsed THEN "stdin"
                ELSE IF ReaderOnPipe /\ FlagItems > 0 THEN "flag"
                ELSE "once"
  /\ UNCHANGED <<given, drawn, requests, failures, outcome>>

(***************************************************************************)
(* The producer's loop (Worker.runBatched).                                 *)
(***************************************************************************)
Running == source # "" /\ outcome = ""

(* The request for the item goes to the jobs. *)
Send ==
  /\ Running /\ ~EndOfInput /\ CanSend(Incoming.value)
  /\ drawn' = drawn + 1
  /\ requests' = Append(requests, [item |-> drawn + 1, target |-> Target(Incoming.value)])
  /\ UNCHANGED <<given, source, failures, outcome>>

(* No request for the item: it is logged, counted and sent to the results. *)
Skip ==
  /\ Running /\ ~EndOfInput /\ CanFail(Incoming.value)
  /\ drawn' = drawn + 1
  /\ failures' = failures + 1
  /\ outcome' = IF failures' >= AbortOnErrors THEN "aborted" ELSE outcome
  /\ UNCHANGED <<given, source, requests>>

(* Mutant: the loop goes on at the end of the input. *)
EndContinues == Running /\ EndOfInput /\ UNCHANGED vars

(* io.EOF: no more items. *)
End ==
  /\ Running /\ EndOfInput
  /\ outcome' = "eof"
  /\ UNCHANGED <<given, source, drawn, requests, failures>>

Done == outcome # "" /\ UNCHANGED vars

Next == Refuse \/ SkipEmptyPipe \/ Reject \/ Start \/ Send \/ Skip \/ End \/ Done

(* One goroutine runs the command and its producer: it goes on.  This takes *)
(* for granted that the lines come to an end and that the server answers    *)
(* the lookup of a name, which has no deadline.                             *)
Fairness == WF_vars(Refuse \/ SkipEmptyPipe \/ Reject \/ Start \/ Send \/ Skip \/ End)
Spec == Init /\ [][Next]_vars /\ Fairness

-----------------------------------------------------------------------------
Targets ==
  [kind : {"empty", "known", "unknown", "raw", "list"},
   from : {"none", "line", "flag", "tenant"}, at : Nat]

(* Types of the state. *)
TypeOK ==
  /\ command \in Commands /\ settings \in Settings /\ flag \in Flags /\ stdin \in Stdins
  /\ source \in {"", "stdin", "flag", "once"}
  /\ drawn \in Nat /\ failures \in Nat
  /\ requests \in Seq([item : Nat, target : Targets])
  /\ outcome \in {"", "refused", "empty", "rejected", "aborted", "eof"}

(* The item is in the path, or the body must have it. *)
Guarded ==
  /\ ReaderOnPipe
  /\ \/ pipe.section = "path"
     \/ pipe.section = "body" /\ HasBody /\ pipe.property \in command.requires

(* No line, however it looks, and no missing flag makes a command whose     *)
(* item is part of the path or a required property send a request without   *)
(* it: the checks for the variables of the path, the names and the required *)
(* properties together leave no way around.                                 *)
NoUnscopedRequest == Guarded => \A i \in DOMAIN requests : requests[i].target # Empty

(* An empty pipe, such as a search that found nothing, sends nothing unless *)
(* the user allowed it: it is not taken for a command without input, which  *)
(* for deleteCollection would mean everything.                              *)
EmptyPipeSendsNothing ==
  ReaderOnPipe /\ stdin.piped /\ stdin.lines = << >> /\ ~settings.allowEmptyPipe
    => requests = << >>

(* Requests are in the order of the input, at most one for each item, and   *)
(* the line or flag value one is about is its own item: no value is taken   *)
(* twice, moved to a neighbour or mixed with another one, but for the       *)
(* values that the flag gives to all lines.                                 *)
RequestsMatchItems ==
  /\ \A i, j \in DOMAIN requests : i < j => requests[i].item < requests[j].item
  /\ \A i \in DOMAIN requests :
       LET target == requests[i].target IN
       /\ target.from = "line" => target.at = requests[i].item /\ source = "stdin"
       /\ target.from = "flag" /\ source = "flag" => target.at = requests[i].item

(* A line that ends the reading: for a reader that takes a value beside      *)
(* io.EOF, only an unterminated last line without one.                      *)
StopsAt(n) == EndsReading(n) /\ (pipe.reader \in Overrides => stdin.lines[n] = "spaces")

(* Every item that was drawn became one request or one counted error, and   *)
(* when the producer comes to the end, all lines were drawn, unless a       *)
(* reader of plain text met a line that ends it; an unterminated last line  *)
(* of spaces is none.                                                       *)
ItemsAccountedFor ==
  /\ Len(requests) + failures = drawn
  /\ source = "stdin" /\ outcome = "eof" =>
       \/ drawn = Len(stdin.lines)
       \/ StopsAt(drawn + 1)

(* A session in which creating, updating or deleting is not enabled sends   *)
(* no such request, whichever command is called.                            *)
ModesRespected ==
  requests # << >> =>
    /\ command.method = "POST" => "Create" \in settings.modes
    /\ command.method = "PUT" => "Update" \in settings.modes
    /\ command.method = "DELETE" => "Delete" \in settings.modes

(* How far the command has come, and how many items its source has. *)
started == IF source = "" THEN 0 ELSE 1
ended == IF outcome = "" THEN 0 ELSE 1
inputProgress == drawn + started + ended
SourceItems == CASE source = "stdin" -> Len(stdin.lines)
                 [] source = "flag" -> FlagItems
                 [] OTHER -> 1

(* Every item has a way on: it is the end of the input, becomes a request   *)
(* or an error.                                                             *)
ItemGoesOn == EndOfInput \/ CanSend(Incoming.value) \/ CanFail(Incoming.value)

(* Whatever lines and flag values are combined, a command draws no more     *)
(* items than its source has and never meets one that is neither sent nor   *)
(* refused: the iterators that cycle through the flag or repeat the path    *)
(* for ever do not drive the loop (iterator.go, requestiterator.go).        *)
InputBounded == inputProgress <= SourceItems + 2 /\ (Running => ItemGoesOn)

(* Every step brings the command forward. *)
InputForward == [][inputProgress < inputProgress']_vars

(* Every command ends: the iterator that repeats the path for ever and the  *)
(* flag values that cycle never drive the iteration.                        *)
Termination == <>(outcome # "")
====
