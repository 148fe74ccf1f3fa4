------------------------------- MODULE Settling -------------------------------
(***************************************************************************)
(* `jz` and `jz new` up to their first read (internal/cli/convert.go,      *)
(* internal/jsonbuild Parse): the options are given, and what is read, and *)
(* by what, is settled from them; the arguments of `jz new` come one by    *)
(* one, and each is planned next to those before it.  Either is refused    *)
(* when it cannot be had.  DataCommands goes on from there.                *)
(***************************************************************************)
EXTENDS Options, Planning

CONSTANTS
  Commands,  \* the commands there are: the options, the arguments to choose from,
             \* and the letters that may come, up to a size
  Placements \* what an argument of jz new may place in an object, and in an array,
             \* or how it may be refused (Placements[FALSE], Placements[TRUE])

VARIABLES
  cmd,     \* the command
  settled, \* what is read, as the options have it, or how the command was refused
  places,  \* what the arguments planned so far place
  plan     \* the nodes they planned

o == cmd.options
IsNew == cmd.name = "new"
IsSettled == settled # Refused(None)

SettlingInit ==
  /\ cmd \in Commands /\ settled = Refused(None)
  /\ places = <<>>
  /\ plan = Root(IsNew /\ o.array)

Settles == ~IsNew /\ ~IsSettled /\ settled' = settle(o) /\ UNCHANGED <<cmd, places, plan>>

\* The next argument; the one that cannot be had is the last.
Plans(placement, planned) ==
  IF planned.ok THEN places' = Append(places, placement) /\ plan' = planned.plan /\ settled' = settled
  ELSE settled' = Refused(planned.code) /\ UNCHANGED <<places, plan>>

\* Documents are indented or one to a line.
EachRefuses == o.each /\ o.pretty

Gives(placement) ==
  /\ IsNew /\ ~IsSettled /\ ~EachRefuses
  /\ Plans(placement, IF placement.ok THEN place(plan, placement, Len(places) + 1) ELSE placement)
  /\ UNCHANGED cmd

\* All arguments are given, and their plan is what is settled.
AllGiven ==
  /\ IsNew /\ ~IsSettled
  /\ settled' = IF EachRefuses \/ ~oneStdin(places) THEN Refused("usage") ELSE Reads("plan", None, Nothing, Nothing)
  /\ UNCHANGED <<cmd, places, plan>>

SettlingNext ==
  \/ Settles
  \/ IsNew /\ \E placement \in Placements[o.array] : Gives(placement)
  \/ AllGiven

SettlingSpec == SettlingInit /\ [][SettlingNext]_<<cmd, settled, places, plan>>

-----------------------------------------------------------------------------

\* What reads the input, as far as the options reach it.
Heard(options, def) ==
  [def |-> def, raw |-> options.raw /\ ~IsTabular(options),
   year |-> IF def.year /\ ~options.raw THEN options.year ELSE None,
   zones |-> IF def.zone /\ ~options.raw THEN options.zones ELSE {}]

Readers(options, s) ==
  CASE s.kind = "data" -> {}
    [] s.kind = "scope" -> {Heard(options, reading(s, def)) : def \in Candidates(options.parser, options.variant)}
    [] s.kind = "given" -> {Heard(options, s.def)}

\* With no definition in scope the reading fails, and says why.
EffectAs(options, s, readers) ==
  IF s.kind # "data" /\ readers = {} THEN [ok |-> FALSE]
  ELSE [ok |-> TRUE, format |-> s.format, readers |-> readers, filter |-> filterOf(options),
        stream |-> options.stream, pretty |-> options.pretty]

EffectOf(options, s) == IF s.ok THEN EffectAs(options, s, Readers(options, s)) ELSE [ok |-> FALSE]
Effect(options) == EffectOf(options, settle(options))

Unset == [columns |-> <<>>, types |-> <<>>, pretty |-> FALSE, stream |-> FALSE, raw |-> FALSE,
          year |-> None, zones |-> {}, extract |-> {}, exclude |-> {}]

\* The options and the definitions are records; the registry keeps one definition of a
\* command and variant (registry.go index); some definition of it reads a year and some
\* a zone, as some of those built in do.
ASSUME SettlingAssumption ==
  /\ \A options \in {command.options : command \in {c \in Commands : c.name # "new"}} :
       /\ {"file", "format", "parser", "variant", "define"} \union DOMAIN Unset \subseteq DOMAIN options
       /\ options = [option \in DOMAIN options |-> options[option]]
       /\ options.types \in Seq(ToSet(options.types)) /\ options.raw \in BOOLEAN
  /\ \A def \in Registry \union {Defines[name] : name \in DOMAIN Defines} :
       /\ {"columns", "fields", "expected"} \subseteq DOMAIN def
       /\ def = [part \in DOMAIN def |-> def[part]]
  /\ \A def, other \in Registry : def.command = other.command /\ def.variant = other.variant => def = other
  /\ (\E def \in Registry : def.year) /\ (\E def \in Registry : def.zone)

\* A location has steps, each a key or the end of an array.
ASSUME PlacementsAssumption ==
  /\ \A command \in Commands : command.name = "new" => command.options.array \in BOOLEAN
  /\ \A array \in BOOLEAN : \A placement \in Placements[array] :
       placement.ok => placement.loc \in Seq([name : Seq(STRING), appends : BOOLEAN]) /\ placement.loc # <<>>

\* An option of an accepted command does something: taken away, the command is
\* another or is refused.  No combination of where the input is named, what reads
\* it and how it is written lets one pass for nothing (cli/convert.go dataFormat:
\* "an option that does nothing is refused").  The documents do not agree on this:
\* website/content/design.md:361-364 has "an assumption that no field in the
\* chosen format asks for is not an error", for the caller who writes one command
\* line for several formats; run.go:630 (refuseBefore) and usage.md:809 have it
\* refused.  The code does the latter, and so does this property, for a format
\* that is named; of one that is found from the text it asks that some
\* definition that may be chosen has a use for the assumption.
OptionsAreHeard ==
  ~IsNew /\ IsSettled =>
    LET now == EffectOf(o, settled)
    IN  now.ok => \A option \in DOMAIN Unset :
          o[option] # Unset[option] => Effect([o EXCEPT ![option] = Unset[option]]) # now

\* The plan is what the arguments say together, and an argument is taken when its
\* place can be had next to those of the arguments before it, and refused when
\* not, whatever containers are entered, made or appended to on the way
\* (internal/jsonbuild place).
PlanIsWhatIsSaid ==
  IsNew /\ ~IsSettled =>
    LET paths == AllSaid(o.array, places)
    IN  /\ IsPlanOf(plan, o.array, paths)
        /\ \A placement \in Placements[o.array] :
             placement.ok => (place(plan, placement, Len(places) + 1).ok <=> IsSayable(o.array, paths, placement.loc))
=============================================================================
