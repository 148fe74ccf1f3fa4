------------------------------- MODULE Options -------------------------------
(***************************************************************************)
(* What the options of `jz` settle before anything is read                 *)
(* (internal/cli/convert.go, flags.go, run.go): which combinations are     *)
(* refused, and what is to be read and how in those that are not.          *)
(*                                                                         *)
(* An option not given is None, {} or FALSE; standard input is <<"-">>.  A *)
(* definition is as much of one as the options ask of it.                  *)
(***************************************************************************)
EXTENDS Naturals, FiniteSets, Formats, KeyFilters

CONSTANTS
  Registry, \* the definitions registered
  Defines,  \* the definitions given with --define that load, by name
  Guesses   \* the command and the variant a path may name, in order, by path

StandardInput == <<"-">>

Definition(command, variant, type) ==
  [command |-> command, variant |-> variant, type |-> type, none |-> FALSE, columns |-> <<>>, fields |-> {},
   expected |-> {}, known |-> {}, open |-> FALSE, year |-> FALSE, zone |-> FALSE, fits |-> {}, shape |-> FALSE]

\* A definition of one object has no streaming form.
StreamsDefinition(def) == def.type # "object"

TabularDefinition(format, header) == [Definition("csv", format, "csv") EXCEPT !.none = ~header]

Lookup(parser, variant) == {def \in Registry : def.command = parser /\ def.variant = variant}
Candidates(parser, variant) ==
  {def \in Registry : parser \in {None, def.command} /\ variant \in {None, def.variant}}

----------------------------------------------------------------------------
(* The rules, one for each function that holds them. *)

NamesDefinition(o) == o.parser # None \/ o.variant # None \/ o.define # None

\* The data format there is, None for none.
Format(o) ==
  IF o.format # None THEN o.format
  ELSE IF o.file # StandardInput /\ ~NamesDefinition(o) THEN FromPath(o.file).format ELSE None
Compression(o) == IF o.file = StandardInput THEN None ELSE FromPath(o.file).compression
IsTabular(o) == Tabular(Format(o))

\* Mutant: an assumption about timestamps passes for a data format.
dataFormatUndated(o) ==
  \/ o.format # None /\ (~Known(o.format) \/ NamesDefinition(o))
  \/ /\ Format(o) # None
     /\ \/ o.stream /\ ~IsTabular(o) /\ ~Streams(Format(o))
        \/ (o.columns # <<>> \/ o.types # <<>>) /\ ~IsTabular(o)
        \/ o.raw /\ o.types = <<>>

dataFormatRefuses(o) ==
  \/ o.format # None /\ (~Known(o.format) \/ NamesDefinition(o))
  \/ /\ Format(o) # None
     /\ \/ o.stream /\ ~IsTabular(o) /\ ~Streams(Format(o))
        \/ (o.columns # <<>> \/ o.types # <<>>) /\ ~IsTabular(o)
        \/ o.raw /\ o.types = <<>>
        \/ o.year # None \/ o.zones # {}

Repeats(names) == Cardinality(ToSet(names)) < Len(names)

selectCheckRefuses(o) ==
  \/ o.define # None /\ (o.parser # None \/ o.variant # None)
  \/ o.variant # None /\ o.parser = None
  \/ o.columns # <<>> /\ o.define = None /\ o.variant = None /\ ~IsTabular(o)
  \/ <<>> \in ToSet(o.columns)
  \/ o.types # <<>> /\ (o.define # None \/ (o.variant = None /\ ~IsTabular(o)) \/ Repeats(o.types))

\* A year has four digits; a zone has one offset.
assumptionsRefuse(o) ==
  \/ o.year \notin {None, "now", "2024"}
  \/ \E x, y \in o.zones : x.name = y.name /\ x.offset # y.offset

outputCheckRefuses(o) == (o.pretty /\ o.stream) \/ assumptionsRefuse(o) \/ (o.extract # {} /\ o.exclude # {})

checkReadingRefuses(o) == o.raw /\ (o.types # <<>> \/ o.year # None \/ o.zones # {})

filterOf(o) ==
  IF o.extract # {} THEN NewFilter(o.extract, TRUE) ELSE IF o.exclude # {} THEN NewFilter(o.exclude, FALSE) ELSE NoFilter

\* A definition with the columns --type and --columns give it, if it takes them.
WithTypes(def, types) ==
  IF def.type # "csv" \/ ToSet(types) \intersect def.fields # {} THEN {}
  ELSE {[def EXCEPT !.fields = @ \union ToSet(types), !.expected = @ \union ToSet(types)]}

WithColumns(def, names) ==
  IF def.type # "csv" \/ ~def.none \/ def.columns # <<>> \/ Repeats(names) \/ ~(def.fields \subseteq ToSet(names)) THEN {}
  ELSE {[def EXCEPT !.columns = names]}

nameColumns(o, target) ==
  LET typed == IF o.types = <<>> THEN {target} ELSE WithTypes(target, o.types)
  IN  IF o.columns = <<>> THEN typed
      ELSE IF ~(ToSet(o.types) \subseteq ToSet(o.columns)) THEN {}
      ELSE UNION {WithColumns(def, o.columns) : def \in typed}

\* What every definition that could read the input is asked.  An assumption none
\* of them has a use for is refused, where design.md:361 has it pass.
refuseBefore(o, defs) ==
  /\ defs # {}
  /\ \/ o.stream /\ ~\E def \in defs : StreamsDefinition(def)
     \/ knowBefore(filterOf(o), defs)
     \/ o.year # None /\ ~\E def \in defs : def.year
     \/ o.zones # {} /\ ~\E def \in defs : def.zone

----------------------------------------------------------------------------
(* Everything in its order. *)

\* What is to be read: data of a format, text by a definition that is given, or
\* text by one of those in scope; named is the variant changed, if one was.
Reads(kind, format, def, named) == [ok |-> TRUE, kind |-> kind, format |-> format, def |-> def, named |-> named]
Nothing == Definition(None, None, None)
Refused(code) == [ok |-> FALSE, code |-> code]

\* The definition named, as it is read.
reading(settled, def) == IF def = settled.named THEN settled.def ELSE def

Inline(o) == IF IsTabular(o) THEN TabularDefinition(Format(o), o.columns = <<>>) ELSE Defines[o.define]

IsGiven(o) == o.define # None \/ IsTabular(o)

\* The definition changed, which is the one of changed if it could be.
Changed(kind, changed, named) ==
  IF changed = {} THEN Refused("usage") ELSE Reads(kind, None, CHOOSE def \in changed : TRUE, named)
ChangedIn(o, targets) ==
  IF targets = {} THEN Refused("select")
  ELSE LET target == CHOOSE def \in targets : TRUE IN Changed("scope", nameColumns(o, target), target)

Unchanged(o) == IF IsGiven(o) THEN Reads("given", None, Inline(o), Nothing) ELSE Reads("scope", None, Nothing, Nothing)

settleColumns(o) ==
  IF o.columns = <<>> /\ o.types = <<>> THEN Unchanged(o)
  ELSE IF IsGiven(o) THEN Changed("given", nameColumns(o, Inline(o)), Nothing)
  ELSE ChangedIn(o, Lookup(o.parser, o.variant))

InScope(o, settled) ==
  IF settled.kind = "given" THEN {settled.def}
  ELSE {reading(settled, def) : def \in {d \in Candidates(o.parser, o.variant) : o.parser # None}}

openInput(o) ==
  IF o.file = StandardInput THEN None
  ELSE IF o.file \notin DOMAIN Files THEN "error"
  ELSE IF Compression(o) = "gzip" /\ Files[o.file].packed # "gzip" THEN "parse"
  ELSE None

Opened(o, settled) ==
  IF ~settled.ok THEN settled
  ELSE IF settled.kind # "data" /\ refuseBefore(o, InScope(o, settled)) THEN Refused("usage")
  ELSE IF openInput(o) # None THEN Refused(openInput(o))
  ELSE settled

settle(o) ==
  IF dataFormatRefuses(o) \/ selectCheckRefuses(o) \/ outputCheckRefuses(o) \/ checkReadingRefuses(o) THEN Refused("usage")
  ELSE IF o.define # None /\ o.define \notin DOMAIN Defines THEN Refused("registry")
  ELSE Opened(o, IF Format(o) # None /\ ~IsTabular(o) THEN Reads("data", Format(o), Nothing, Nothing) ELSE settleColumns(o))

\* The definition a file's path names, whose text the definition itself can
\* tell: one for a mere shape never is.
parserFromPath(path) ==
  LET names == IF path \in DOMAIN Guesses THEN Guesses[path] ELSE <<>>
      found(i) == {def \in Lookup(names[i][1], names[i][2]) : ~def.shape}
      hits == {i \in DOMAIN names : found(i) # {}}
  IN  IF hits = {} THEN {} ELSE found(Min(hits))
=============================================================================
