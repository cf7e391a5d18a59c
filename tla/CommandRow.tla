----------------------------- MODULE CommandRow -----------------------------
(* A command of c8y that sends REST requests, reduced to what the           *)
(* producer of requests (module CommandInput) and the mode gate read of it: *)
(*   method   the HTTP method of the request options                        *)
(*   gate     the mode its PreRunE asks for ("Read": no PreRunE)            *)
(*   needs    path variables without a default value, other than the piped  *)
(*            one, and flags marked as required                             *)
(*   pipe     the flag that takes piped input (WithExtendedPipelineSupport):*)
(*            its place in the request, the option that reads it, the       *)
(*            property it fills, whether the flag is a list, and whether it *)
(*            is required                                                   *)
(*   requires body properties of WithRequiredProperties that no template of *)
(*            the command supplies                                          *)
EXTENDS Naturals

List == TRUE
Text == FALSE
Required == TRUE
Optional == FALSE

Pipe(section, reader, property, many, required) ==
  [section |-> section, reader |-> reader, property |-> property,
   many |-> many, required |-> required]

InPath(reader, property, many, required) == Pipe("path", reader, property, many, required)
InQuery(reader, property, many, required) == Pipe("query", reader, property, many, required)
InBody(reader, property, many, required) == Pipe("body", reader, property, many, required)
NoPipe == Pipe("none", "none", "", Text, Optional)

Command(method, gate, needs, pipe, requires) ==
  [method |-> method, gate |-> gate, needs |-> needs, pipe |-> pipe, requires |-> requires]
====
