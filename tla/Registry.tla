------------------------------- MODULE Registry -------------------------------
(***************************************************************************)
(* Loading the layered registry: pkg/registry Load, and loadRegistryFor of *)
(* internal/cli/sources.go, which reads only what answers to the names on  *)
(* the command line when there is nothing but the built-in registry.       *)
(*                                                                         *)
(* A registry is its manifest's disable list and the files under parsers/, *)
(* each at the place its command and its variant give it.  What a          *)
(* definition says beyond its names is left out.                           *)
(***************************************************************************)
EXTENDS Integers, Sequences, FiniteSets

CONSTANTS Names, VariantNames, \* names of commands and of variants
          Registries,          \* what a source may be
          Layers,              \* how many sources; the last one is built in
          Workers,             \* the goroutines of decodeAll
          NamesAsked           \* the names loadRegistryFor may be given

Ids == Names \X VariantNames

\* holds: a definition that is of the place it is at, one that is refused,
\* or text that does not decode, of which aliases is what it mentions.
Files == [at : Ids, holds : {"definition", "refused", "garbage"}, aliases : SUBSET Names]

\* disable: a command and a variant of it, or "" for all of them.
Rules == Names \X (VariantNames \union {""})

Sources == [is : {"absent", "refused", "there"}, files : SUBSET Files, off : SUBSET Rules]

ASSUME SourceAssumption ==
  /\ Registries \subseteq Sources /\ Layers \in Nat \ {0}
  /\ \A r \in Registries : IsFiniteSet(r.files) /\ \A f, g \in r.files : f.at = g.at => f = g
  /\ \A r \in Registries : r.is = "absent" => r.files = {} /\ r.off = {}
  /\ "" \notin VariantNames /\ NamesAsked \subseteq Seq(Names)

VARIABLES
  sources,  \* the layering, most preferred first
  asked,    \* the names on the command line
  load,     \* which load it is: "scoped" or "full"
  stage,    \* "open", "decode", "take", "done" or "failed"
  src,      \* the source that is read, by its position
  list,     \* its files as the walk found them
  next,     \* decodeAll: how many files the workers have claimed
  work,     \* the file each worker is at, 0 for none
  decoded,  \* the files decoded, by their position in the list
  pos,      \* how many of them were taken
  entries,  \* the definitions, with their source and those they hide
  rules,    \* the disable rules of the sources read before
  matched,  \* those of them that named something
  disabled, \* per source, how many definitions were switched off
  problems  \* the files that are no definition, with their source

loaderVars == <<list, next, work, decoded, pos>>
indexVars == <<entries, rules, matched, disabled, problems>>
vars == <<sources, asked, load, stage, src, loaderVars, indexVars>>

Last == sources[Layers]

Command(f) == f.at[1]
Variant(f) == f.at[2]

-----------------------------------------------------------------------------
(* What is found in a registry.                                            *)

Covers(rule, f) == rule[1] = Command(f) /\ rule[2] \in {"", Variant(f)}

AnswersTo(e, name) == name = Command(e.def) \/ name \in e.def.aliases

\* byCommand
VariantsOf(E, name) == {e \in E : AnswersTo(e, name)}

\* Lookup: the definition of that name, or one it is an alias of.  Of
\* several only the sorting says which is first.
LookupIn(E, name, v) ==
  LET own == {e \in E : e.def.at = <<name, v>>}
  IN IF own # {} THEN own ELSE {e \in VariantsOf(E, name) : Variant(e.def) = v}

-----------------------------------------------------------------------------
(* Reading only what is asked for.                                         *)

\* The directory of the file is one of the names; also a mutant: a name is
\* only looked for there.
AnsweringOwn(f) == \E i \in 1..Len(asked) : asked[i] = Command(f)

\* namedDefinitions, aliasedTo: the files that are kept.
Answering(f) == \E i \in 1..Len(asked) : asked[i] = Command(f) \/ asked[i] \in f.aliases

\* One of them answers to the first name, as far as that can be read; where
\* the directory answers, aliases are not asked for.
FirstAnswered ==
  \E f \in Last.files :
    \/ asked[1] = Command(f)
    \/ ~AnsweringOwn(f) /\ asked[1] \in f.aliases /\ f.holds # "garbage"

OnlyLast == \A i \in 1..(Layers - 1) : sources[i].is = "absent"

\* Mutant: the user's registries do not matter to a named definition.
ScopesAnyhow == asked # <<>> /\ Last.is = "there" /\ FirstAnswered

Scopes == asked # <<>> /\ OnlyLast /\ Last.is = "there" /\ FirstAnswered

\* The files of a source this load sees.
Seen(i) == IF load = "scoped" /\ i = Layers THEN {f \in Last.files : Answering(f)} ELSE sources[i].files

-----------------------------------------------------------------------------

AtRest == [w \in Workers |-> 0]

NoneOff == [i \in 1..Layers |-> 0]

Init ==
  /\ sources \in [1..Layers -> Registries]
  /\ asked \in NamesAsked
  /\ src = 1 /\ list = <<>> /\ next = 0 /\ work = AtRest /\ decoded = {} /\ pos = 0
  /\ entries = {} /\ rules = {} /\ matched = {} /\ disabled = NoneOff /\ problems = {}
  /\ stage = "open" /\ load = IF Scopes THEN "scoped" ELSE "full"

\* A load that is scoped and comes to nothing is followed by a full one.
Reload ==
  /\ src' = 1 /\ list' = <<>> /\ next' = 0 /\ work' = AtRest /\ decoded' = {} /\ pos' = 0
  /\ entries' = {} /\ rules' = {} /\ matched' = {} /\ disabled' = NoneOff /\ problems' = {}
  /\ stage' = "open" /\ load' = "full"

\* The walk finds the files in some order.
Walk(F) ==
  \E order \in [1..Cardinality(F) -> F] :
    /\ \A i, j \in 1..Cardinality(F) : order[i] = order[j] => i = j
    /\ list' = order

OpenSource ==
  /\ stage = "open" /\ src <= Layers /\ sources[src].is = "there"
  /\ Walk(Seen(src)) /\ next' = 0 /\ decoded' = {} /\ pos' = 0
  /\ work' = AtRest /\ stage' = "decode"
  /\ UNCHANGED <<sources, asked, load, src, indexVars>>

SkipSource ==
  /\ stage = "open" /\ src <= Layers /\ sources[src].is = "absent"
  /\ src' = src + 1
  /\ UNCHANGED <<sources, asked, load, stage, loaderVars, indexVars>>

\* A registry that is not the one that was meant is refused whole.
RefuseSource ==
  /\ stage = "open" /\ src <= Layers /\ sources[src].is = "refused"
  /\ stage' = "failed"
  /\ UNCHANGED <<sources, asked, load, src, loaderVars, indexVars>>

-----------------------------------------------------------------------------
(* decodeAll.                                                              *)

\* Mutant: the counter is read and then advanced.
ClaimsLoose(w) ==
  /\ stage = "decode" /\ work[w] = 0 /\ next < Len(list)
  /\ \E n \in {next, next + 1} : work' = [work EXCEPT ![w] = n] /\ n \in 1..Len(list)
  /\ next' = next + 1
  /\ UNCHANGED <<sources, asked, load, stage, src, list, decoded, pos, indexVars>>

Claims(w) ==
  /\ stage = "decode" /\ work[w] = 0 /\ next < Len(list)
  /\ next' = next + 1 /\ work' = [work EXCEPT ![w] = next + 1]
  /\ UNCHANGED <<sources, asked, load, stage, src, list, decoded, pos, indexVars>>

Decodes(w) ==
  /\ stage = "decode" /\ work[w] # 0
  /\ decoded' = decoded \union {work[w]} /\ work' = [work EXCEPT ![w] = 0]
  /\ UNCHANGED <<sources, asked, load, stage, src, list, next, pos, indexVars>>

\* Every worker has found nothing more to claim.
AllDecode ==
  /\ stage = "decode" /\ next >= Len(list) /\ \A w \in Workers : work[w] = 0
  /\ stage' = "take"
  /\ UNCHANGED <<sources, asked, load, src, loaderVars, indexVars>>

-----------------------------------------------------------------------------
(* The files, in the order of the walk.                                    *)

File == list[pos + 1]

Definition == File.holds = "definition"

\* Mutant: a registry's own list is about its own files as well.
HitsOwn == {r \in rules \union {[source |-> src, rule |-> o] : o \in sources[src].off} : Covers(r.rule, File)}

Hits == {r \in rules : Covers(r.rule, File)}

SwitchedOff ==
  /\ Definition /\ Hits # {}
  /\ matched' = matched \union Hits
  /\ disabled' = [disabled EXCEPT ![src] = @ + 1]
  /\ UNCHANGED <<entries, rules, problems>>

There == {e \in entries : e.def.at = File.at}

\* add: a definition that is there already only notes that it hides one.
Adds ==
  /\ Definition /\ Hits = {}
  /\ entries' = IF There = {} THEN entries \union {[def |-> File, precedence |-> src, shadowed |-> {}]}
                ELSE (entries \ There) \union {[e EXCEPT !.shadowed = @ \union {src}] : e \in There}
  /\ UNCHANGED <<rules, matched, disabled, problems>>

IsProblem ==
  /\ ~Definition
  /\ problems' = problems \union {<<src, File.at>>}
  /\ UNCHANGED <<entries, rules, matched, disabled>>

Take ==
  /\ stage = "take" /\ pos < Len(list)
  /\ IsProblem \/ SwitchedOff \/ Adds
  /\ pos' = pos + 1
  /\ UNCHANGED <<sources, asked, load, stage, src, list, next, work, decoded>>

\* What a registry disables holds for the ones that come after it.
CloseSource ==
  /\ stage = "take" /\ pos = Len(list)
  /\ rules' = rules \union {[source |-> src, rule |-> r] : r \in sources[src].off}
  /\ src' = src + 1 /\ stage' = "open"
  /\ UNCHANGED <<sources, asked, load, loaderVars, entries, matched, disabled, problems>>

Loaded ==
  /\ stage = "open" /\ src = Layers + 1
  /\ IF load = "scoped" /\ VariantsOf(entries, asked[1]) = {}
     THEN Reload /\ UNCHANGED <<sources, asked>>
     ELSE stage' = "done" /\ UNCHANGED <<sources, asked, load, src, loaderVars, indexVars>>

Returned == stage \in {"done", "failed"} /\ UNCHANGED vars

Next ==
  \/ OpenSource \/ SkipSource \/ RefuseSource
  \/ (\E w \in Workers : Claims(w) \/ Decodes(w)) \/ AllDecode
  \/ Take \/ CloseSource \/ Loaded \/ Returned

Spec == Init /\ [][Next]_vars

Warnings == rules \ matched

-----------------------------------------------------------------------------
(* What loading in layers means, said of all the sources at once.          *)

SaidBy(i) == {f \in sources[i].files : f.holds = "definition"}

OffAt(i, f) == \E j \in 1..(i - 1) : \E r \in sources[j].off : Covers(r, f)

Stands(i) == {f \in SaidBy(i) : ~OffAt(i, f)}

Layered ==
  UNION {{[def |-> f, precedence |-> i,
           shadowed |-> {j \in (i + 1)..Layers : \E g \in Stands(j) : g.at = f.at}] :
             f \in {g \in Stands(i) : \A j \in 1..(i - 1) : \A h \in Stands(j) : h.at # g.at}} : i \in 1..Layers}

NeedlessRules ==
  UNION {{[source |-> i, rule |-> r] :
            r \in {o \in sources[i].off : \A j \in (i + 1)..Layers : \A f \in SaidBy(j) : ~Covers(o, f)}} : i \in 1..Layers}

-----------------------------------------------------------------------------

(* No file is taken before a worker has decoded it, and none is passed     *)
(* over (decodeAll).                                                       *)
AllDecoded == stage = "take" => decoded = 1..Len(list)

(* A full load holds each definition no registry before it switches off,   *)
(* of several of one name the most preferred, which knows of the others;   *)
(* the registry's own list does not count.  It counts what was switched    *)
(* off and names every file that is no definition; and no registry that    *)
(* was refused was passed over (Load, addSource, add, disable).            *)
LoadedAsLayered ==
  stage = "done" /\ load = "full" =>
    /\ entries = Layered
    /\ disabled = [i \in 1..Layers |-> Cardinality(SaidBy(i) \ Stands(i))]
    /\ problems = UNION {{<<i, f.at>> : f \in sources[i].files \ SaidBy(i)} : i \in 1..Layers}
    /\ \A i \in 1..Layers : sources[i].is # "refused"

(* Whatever was read of it, the registry answers to the names on the       *)
(* command line as if all of it had been (loadRegistryFor).                *)
NamedAgrees ==
  stage = "done" =>
    \A i \in 1..Len(asked) :
      /\ VariantsOf(entries, asked[i]) = VariantsOf(Layered, asked[i])
      /\ \A v \in VariantNames : LookupIn(entries, asked[i], v) = LookupIn(Layered, asked[i], v)

(* What is said of the disable lists is said of the registries as they     *)
(* are, however much of them was read: a rule is reported when it names    *)
(* nothing below it and only then (Load, onlyLast).                        *)
WarnedRightly == stage = "done" => Warnings = NeedlessRules
=============================================================================
