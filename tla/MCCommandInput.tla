-------------------------- MODULE MCCommandInput --------------------------
(* The commands of the catalogue with up to MaxLines lines and two flag      *)
(* values.                                                                   *)
EXTENDS CommandInput, Catalog

CONSTANT MaxLines

MCLines == UNION {[1 .. n -> LineKinds] : n \in 0 .. MaxLines}
MCFlags == {<< >>, <<"unknown">>, <<"known", "unknown">>}
Setting(modes, allowEmptyPipe, optionsGiven) ==
  [modes |-> modes, allowEmptyPipe |-> allowEmptyPipe, optionsGiven |-> optionsGiven]
MCSettings == {Setting(Modes, FALSE, TRUE), Setting(Modes, TRUE, FALSE), Setting({}, FALSE, TRUE)}
====
