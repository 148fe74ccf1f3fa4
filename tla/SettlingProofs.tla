---------------------------- MODULE SettlingProofs ----------------------------
(***************************************************************************)
(* Two properties of Settling that the run checks over a handful of        *)
(* definitions and locations, proved for all of them.                      *)
(*                                                                         *)
(* No option of an accepted command passes for nothing, whatever the       *)
(* registry, the inline definition and the file (OptionsAlwaysHeard).  How *)
(* the output is written, and the keys named, are part of the effect as    *)
(* they were given.  The other options reach what reads the input, and are *)
(* refused unless there is such a reader: --raw and the assumptions have   *)
(* no data format to go to (NoneForData), the assumptions a definition     *)
(* that has use for them (YearHeard, ZonesHeard), and columns and types    *)
(* the one definition named, which they change (ShapeHeard).               *)
(*                                                                         *)
(* The plan of `jz new` is what the arguments say together, and the next   *)
(* one is taken when its place can be had and refused when not, for every  *)
(* list of locations of any depth (PlanAlwaysSaid).  A location goes by a  *)
(* walk of places (Walks).  Those on the way to what was said before come  *)
(* first, up to an edge e, and the rest are new (EdgeIs).  Each step of    *)
(* the code goes on along that walk, entering what is there and making     *)
(* what is not (MoveLeads); so the plan grows by the nodes past the edge,  *)
(* and an argument is refused at the first step that cannot be gone        *)
(* (PlaceIs).  That the grown plan is again the plan of what is said needs *)
(* more than the property states (PlanInv): that no place said is on the   *)
(* way to another, that the elements of an array are numbered from zero    *)
(* without a gap, and that the root keeps the kind it was made with.  The  *)
(* numbering is what makes the size of an array the index of its next      *)
(* element, for the code and for the places said alike.                    *)
(***************************************************************************)
EXTENDS Settling, TLAPS, FiniteSetTheorems, SequenceTheorems, WellFoundedInduction

\* The options with one of them taken away, and what options are.
Without(g, option) == [g EXCEPT ![option] = Unset[option]]

IsOptions(g) ==
  /\ {"file", "format", "parser", "variant", "define"} \union DOMAIN Unset \subseteq DOMAIN g
  /\ g = [option \in DOMAIN g |-> g[option]]
  /\ g.types \in Seq(ToSet(g.types)) /\ g.raw \in BOOLEAN

\* The options there are to take away.
LEMMA UnsetIs ==
  /\ DOMAIN Unset = {"columns", "types", "pretty", "stream", "raw", "year", "zones", "extract", "exclude"}
  /\ Unset["columns"] = <<>> /\ Unset["types"] = <<>> /\ Unset["raw"] = FALSE
  /\ Unset["year"] = None /\ Unset["zones"] = {} /\ Unset["extract"] = {} /\ Unset["exclude"] = {}
  BY DEF Unset

\* An option taken away leaves the others.
LEMMA Others ==
  ASSUME NEW g, IsOptions(g), NEW option \in DOMAIN Unset
  PROVE  /\ \A other \in DOMAIN g : Without(g, option)[other] = IF other = option THEN Unset[option] ELSE g[other]
         /\ DOMAIN Without(g, option) = DOMAIN g
  BY DEF IsOptions, Without

\* A command whose effect is known was settled, and not refused.
LEMMA Accepted ==
  ASSUME NEW g, Effect(g).ok
  PROVE  /\ ~dataFormatRefuses(g) /\ ~selectCheckRefuses(g) /\ ~outputCheckRefuses(g) /\ ~checkReadingRefuses(g)
         /\ settle(g).ok
         /\ Effect(g) = EffectAs(g, settle(g), Readers(g, settle(g)))
<1>1. settle(g).ok
  BY DEF Effect, EffectOf
<1>2. Effect(g) = EffectAs(g, settle(g), Readers(g, settle(g)))
  BY <1>1 DEF Effect, EffectOf
<1>3. ~dataFormatRefuses(g) /\ ~selectCheckRefuses(g) /\ ~outputCheckRefuses(g) /\ ~checkReadingRefuses(g)
  <2> SUFFICES ASSUME dataFormatRefuses(g) \/ selectCheckRefuses(g) \/ outputCheckRefuses(g) \/ checkReadingRefuses(g)
               PROVE  FALSE
    OBVIOUS
  <2>1. settle(g) = Refused("usage")
    BY DEF settle
  <2> QED BY <1>1, <2>1 DEF Refused
<1> QED BY <1>1, <1>2, <1>3

\* Two effects that are the same have the same readers, filter and way to write.
LEMMA SameEffect ==
  ASSUME NEW g, NEW h, Effect(g).ok, Effect(h) = Effect(g)
  PROVE  /\ Effect(h).ok
         /\ Readers(g, settle(g)) = Readers(h, settle(h))
         /\ filterOf(g) = filterOf(h) /\ g.stream = h.stream /\ g.pretty = h.pretty
         /\ settle(g).kind # "data" => Readers(g, settle(g)) # {}
<1>1. Effect(h).ok
  OBVIOUS
<1>2. EffectAs(g, settle(g), Readers(g, settle(g))) = EffectAs(h, settle(h), Readers(h, settle(h)))
  BY <1>1, Accepted
<1>3. EffectAs(g, settle(g), Readers(g, settle(g))).ok /\ EffectAs(h, settle(h), Readers(h, settle(h))).ok
  BY <1>1, Accepted
<1> DEFINE sg == settle(g)
           sh == settle(h)
           rg == Readers(g, settle(g))
           rh == Readers(h, settle(h))
<1>4. ~(sg.kind # "data" /\ rg = {}) /\ ~(sh.kind # "data" /\ rh = {})
  BY <1>3 DEF EffectAs
<1> HIDE DEF sg, sh, rg, rh
<1>5. /\ EffectAs(g, sg, rg) = [ok |-> TRUE, format |-> sg.format, readers |-> rg, filter |-> filterOf(g), stream |-> g.stream, pretty |-> g.pretty]
      /\ EffectAs(h, sh, rh) = [ok |-> TRUE, format |-> sh.format, readers |-> rh, filter |-> filterOf(h), stream |-> h.stream, pretty |-> h.pretty]
  BY <1>4 DEF EffectAs
<1>6. EffectAs(g, sg, rg) = EffectAs(h, sh, rh)
  BY <1>2 DEF sg, sh, rg, rh
<1>7. rg = rh /\ filterOf(g) = filterOf(h) /\ g.stream = h.stream /\ g.pretty = h.pretty
  BY <1>5, <1>6
<1> QED BY <1>1, <1>4, <1>7 DEF sg, sh, rg, rh

\* How the documents are written is part of the effect.
LEMMA WrittenHeard ==
  ASSUME NEW g, IsOptions(g), Effect(g).ok, NEW option \in {"pretty", "stream"}, g[option] # Unset[option]
  PROVE  Effect(Without(g, option)) # Effect(g)
<1> SUFFICES ASSUME Effect(Without(g, option)) = Effect(g) PROVE FALSE
  OBVIOUS
<1>1. g.stream = Without(g, option).stream /\ g.pretty = Without(g, option).pretty
  BY SameEffect
<1>2. option \in DOMAIN Unset /\ {"pretty", "stream"} \subseteq DOMAIN g
  BY UnsetIs DEF IsOptions
<1>3. Without(g, option)[option] = Unset[option]
  BY <1>2, Others
<1> QED BY <1>1, <1>3

\* So are the keys named.
LEMMA KeysHeard ==
  ASSUME NEW g, IsOptions(g), Effect(g).ok, NEW option \in {"extract", "exclude"}, g[option] # Unset[option]
  PROVE  Effect(Without(g, option)) # Effect(g)
<1> SUFFICES ASSUME Effect(Without(g, option)) = Effect(g) PROVE FALSE
  OBVIOUS
<1>1. filterOf(g) = filterOf(Without(g, option))
  BY SameEffect
<1>2. ~(g.extract # {} /\ g.exclude # {})
  BY Accepted DEF outputCheckRefuses
<1>3. option \in DOMAIN Unset /\ {"extract", "exclude"} \subseteq DOMAIN g /\ Unset[option] = {}
  BY UnsetIs DEF IsOptions
<1>4. Without(g, option).extract = {} /\ Without(g, option).exclude = {}
  BY <1>2, <1>3, Others
<1>5. filterOf(Without(g, option)).on = FALSE
  BY <1>4 DEF filterOf, NoFilter, NewFilter
<1>6. filterOf(g).on = TRUE
  BY <1>3 DEF filterOf, NewFilter
<1> QED BY <1>1, <1>5, <1>6

-----------------------------------------------------------------------------
(* What reads the input. *)

\* What is said of an answer.
LEMMA AnswerIs ==
  /\ \A c : ~Refused(c).ok
  /\ \A k, f, d, n : /\ Reads(k, f, d, n).ok /\ Reads(k, f, d, n).kind = k /\ Reads(k, f, d, n).format = f
                     /\ Reads(k, f, d, n).def = d /\ Reads(k, f, d, n).named = n
  BY DEF Refused, Reads

\* A definition that could be changed is the one changed.
LEMMA ChangedIs ==
  ASSUME NEW kind, NEW changed, NEW named, Changed(kind, changed, named).ok
  PROVE  \E def \in changed : Changed(kind, changed, named) = Reads(kind, None, def, named)
<1>1. changed # {}
  BY AnswerIs, Zenon DEF Changed
<1>2. (CHOOSE def \in changed : TRUE) \in changed
  BY <1>1
<1> QED BY <1>1, <1>2 DEF Changed

\* The input is data, by its format or its name.
HasData(g) == Format(g) # None /\ ~IsTabular(g)

\* What is settled of an accepted command, before a file is opened.
LEMMA SettledIs ==
  ASSUME NEW g, Effect(g).ok
  PROVE  /\ settle(g) = IF HasData(g) THEN Reads("data", Format(g), Nothing, Nothing) ELSE settleColumns(g)
         /\ settle(g).ok
         /\ settle(g).kind # "data" => ~refuseBefore(g, InScope(g, settle(g)))
         /\ g.define # None => g.define \in DOMAIN Defines
<1> DEFINE x == IF HasData(g) THEN Reads("data", Format(g), Nothing, Nothing) ELSE settleColumns(g)
<1>1. settle(g).ok /\ ~(dataFormatRefuses(g) \/ selectCheckRefuses(g) \/ outputCheckRefuses(g) \/ checkReadingRefuses(g))
  BY Accepted
<1>2. ~(g.define # None /\ g.define \notin DOMAIN Defines)
  <2> SUFFICES ASSUME g.define # None /\ g.define \notin DOMAIN Defines PROVE FALSE
    OBVIOUS
  <2>1. settle(g) = Refused("registry")
    BY <1>1 DEF settle
  <2> QED BY <1>1, <2>1, AnswerIs, Zenon
<1>3. settle(g) = Opened(g, x)
  BY <1>1, <1>2 DEF settle, HasData
<1> HIDE DEF x
<1>4. x.ok
  BY <1>1, <1>3 DEF Opened
<1>5. ~(x.kind # "data" /\ refuseBefore(g, InScope(g, x)))
  <2> SUFFICES ASSUME x.kind # "data" /\ refuseBefore(g, InScope(g, x)) PROVE FALSE
    OBVIOUS
  <2>1. settle(g) = Refused("usage")
    BY <1>3, <1>4 DEF Opened
  <2> QED BY <1>1, <2>1, AnswerIs, Zenon
<1>6. settle(g) = x
  <2> SUFFICES ASSUME openInput(g) # None PROVE FALSE
    BY <1>3, <1>4, <1>5 DEF Opened
  <2>1. settle(g) = Refused(openInput(g))
    BY <1>3, <1>4, <1>5 DEF Opened
  <2> QED BY <1>1, <2>1, AnswerIs, Zenon
<1> QED BY <1>1, <1>2, <1>5, <1>6 DEF x

\* An accepted command reads data, or text with one definition or with those in scope.
LEMMA KindIs ==
  ASSUME NEW g, Effect(g).ok
  PROVE  /\ HasData(g) => settle(g).kind = "data"
         /\ ~HasData(g) /\ IsGiven(g) => settle(g).kind = "given"
         /\ ~HasData(g) /\ ~IsGiven(g) => settle(g).kind = "scope"
<1>1. HasData(g) => settle(g).kind = "data"
  <2> SUFFICES ASSUME HasData(g) PROVE settle(g).kind = "data"
    OBVIOUS
  <2>1. settle(g) = Reads("data", Format(g), Nothing, Nothing)
    BY SettledIs
  <2> QED BY <2>1 DEF Reads
<1>2. ASSUME ~HasData(g) PROVE (IsGiven(g) => settle(g).kind = "given") /\ (~IsGiven(g) => settle(g).kind = "scope")
  <2>0. settle(g) = settleColumns(g)
    BY <1>2, SettledIs
  <2>1. settleColumns(g).ok
    BY <2>0, SettledIs, Zenon
  <2>2. CASE g.columns = <<>> /\ g.types = <<>>
    <3>1. settleColumns(g) = IF IsGiven(g) THEN Reads("given", None, Inline(g), Nothing) ELSE Reads("scope", None, Nothing, Nothing)
      BY <2>2 DEF settleColumns, Unchanged
    <3>2. CASE IsGiven(g)
      <4>1. settle(g) = Reads("given", None, Inline(g), Nothing)
        BY <2>0, <3>1, <3>2
      <4>2. settle(g).kind = "given"
        BY <4>1 DEF Reads
      <4> QED BY <3>2, <4>2, Zenon
    <3>3. CASE ~IsGiven(g)
      <4>1. settle(g) = Reads("scope", None, Nothing, Nothing)
        BY <2>0, <3>1, <3>3
      <4>2. settle(g).kind = "scope"
        BY <4>1 DEF Reads
      <4> QED BY <3>3, <4>2, Zenon
    <3> QED BY <3>2, <3>3
  <2>3. CASE ~(g.columns = <<>> /\ g.types = <<>>) /\ IsGiven(g)
    <3>1. settleColumns(g) = Changed("given", nameColumns(g, Inline(g)), Nothing)
      BY <2>3 DEF settleColumns
    <3>2. PICK def : settleColumns(g) = Reads("given", None, def, Nothing)
      BY <2>1, <3>1, ChangedIs
    <3>3. settle(g).kind = "given"
      BY <2>0, <3>2 DEF Reads
    <3> QED BY <2>3, <3>3, Zenon
  <2>4. CASE ~(g.columns = <<>> /\ g.types = <<>>) /\ ~IsGiven(g)
    <3>1. settleColumns(g) = ChangedIn(g, Lookup(g.parser, g.variant))
      BY <2>4 DEF settleColumns
    <3> DEFINE target == CHOOSE def \in Lookup(g.parser, g.variant) : TRUE
    <3>2. settleColumns(g) = Changed("scope", nameColumns(g, target), target)
      BY <2>1, <3>1, AnswerIs, Zenon DEF ChangedIn
    <3> HIDE DEF target
    <3>3. PICK def : settleColumns(g) = Reads("scope", None, def, target)
      BY <2>1, <3>2, ChangedIs
    <3>4. settle(g).kind = "scope"
      BY <2>0, <3>3 DEF Reads
    <3> QED BY <2>4, <3>4, Zenon
  <2> QED BY <2>2, <2>3, <2>4
<1> QED BY <1>1, <1>2

\* Whatever reads text hears the options.
LEMMA ReaderIs ==
  ASSUME NEW g, Effect(g).ok, NEW r \in Readers(g, settle(g))
  PROVE  \E def : r = Heard(g, def)
<1>1. CASE settle(g).kind = "data"
  BY <1>1 DEF Readers
<1>2. CASE settle(g).kind = "given"
  BY <1>2 DEF Readers
<1>3. CASE settle(g).kind = "scope"
  BY <1>3 DEF Readers
<1> QED BY <1>1, <1>2, <1>3, KindIs

\* Options for a definition have no data format to go to.
LEMMA NoneForData ==
  ASSUME NEW g, IsOptions(g), Effect(g).ok,
         g.raw \/ g.year # None \/ g.zones # {} \/ g.columns # <<>> \/ g.types # <<>>
  PROVE  ~HasData(g) /\ (g.raw => ~IsTabular(g)) /\ (g.year # None \/ g.zones # {} => ~g.raw)
<1>1. ~dataFormatRefuses(g) /\ ~checkReadingRefuses(g)
  BY Accepted
<1>2. ~HasData(g)
  BY <1>1 DEF dataFormatRefuses, checkReadingRefuses, HasData
<1>3. g.raw => ~IsTabular(g)
  <2>1. ~Tabular(None)
    BY Zenon DEF Tabular, None
  <2> QED BY <1>1, <2>1 DEF dataFormatRefuses, checkReadingRefuses, IsTabular
<1>4. g.year # None \/ g.zones # {} => ~g.raw
  BY <1>1 DEF checkReadingRefuses
<1> QED BY <1>2, <1>3, <1>4

\* The text as it is is not the values it stands for.
LEMMA RawHeard ==
  ASSUME NEW g, IsOptions(g), Effect(g).ok, g.raw # FALSE
  PROVE  Effect(Without(g, "raw")) # Effect(g)
<1> DEFINE h == Without(g, "raw")
<1> SUFFICES ASSUME Effect(h) = Effect(g) PROVE FALSE
  OBVIOUS
<1>1. g.raw /\ "raw" \in DOMAIN Unset /\ "raw" \in DOMAIN g
  BY UnsetIs DEF IsOptions
<1>2. h.raw = FALSE
  <2>1. h["raw"] = Unset["raw"]
    BY <1>1, Others
  <2> QED BY <2>1, UnsetIs
<1> HIDE DEF h
<1>3. Effect(h).ok /\ Readers(g, settle(g)) = Readers(h, settle(h)) /\ (settle(g).kind # "data" => Readers(g, settle(g)) # {})
  BY SameEffect
<1>4. ~HasData(g) /\ ~IsTabular(g)
  BY <1>1, NoneForData
<1>5. PICK r \in Readers(g, settle(g)) : TRUE
  BY <1>3, <1>4, KindIs
<1>6. PICK def : r = Heard(g, def)
  BY <1>5, ReaderIs
<1>7. PICK other : r = Heard(h, other)
  BY <1>3, <1>5, ReaderIs
<1>8. r.raw = TRUE
  BY <1>1, <1>4, <1>6 DEF Heard
<1>9. r.raw = FALSE
  BY <1>2, <1>7 DEF Heard
<1> QED BY <1>8, <1>9

-----------------------------------------------------------------------------
(* Assumptions about timestamps. *)

\* Definitions in scope when none is named are all there are, as they are.
LEMMA AllInScope ==
  ASSUME NEW g, IsOptions(g), Effect(g).ok, ~HasData(g), ~IsGiven(g), g.parser = None, NEW def \in Registry
  PROVE  Heard(g, def) \in Readers(g, settle(g))
<1>1. g.variant = None /\ g.columns = <<>> /\ g.types = <<>>
  BY Accepted DEF selectCheckRefuses, IsGiven
<1>2. settle(g) = Reads("scope", None, Nothing, Nothing)
  BY <1>1, SettledIs DEF settleColumns, Unchanged
<1>3. reading(settle(g), def) = def
  BY <1>2 DEF reading, Reads
<1>4. def \in Candidates(g.parser, g.variant)
  BY <1>1 DEF Candidates
<1>5. settle(g).kind = "scope"
  BY <1>2 DEF Reads
<1> QED BY <1>3, <1>4, <1>5 DEF Readers

\* What an accepted assumption is asked of is among what reads the input.
LEMMA ScopeReads ==
  ASSUME NEW g, Effect(g).ok, ~HasData(g), IsGiven(g) \/ g.parser # None,
         NEW def \in InScope(g, settle(g))
  PROVE  Heard(g, def) \in Readers(g, settle(g))
<1>1. CASE IsGiven(g)
  <2>1. settle(g).kind = "given"
    BY <1>1, KindIs
  <2> QED BY <2>1 DEF InScope, Readers
<1>2. CASE ~IsGiven(g)
  <2>1. settle(g).kind = "scope"
    BY <1>2, KindIs
  <2>2. PICK d \in Candidates(g.parser, g.variant) : def = reading(settle(g), d)
    BY <2>1 DEF InScope
  <2> QED BY <2>1, <2>2 DEF Readers
<1> QED BY <1>1, <1>2

\* There is a definition in scope.
LEMMA SomeInScope ==
  ASSUME NEW g, Effect(g).ok, ~HasData(g), IsGiven(g) \/ g.parser # None
  PROVE  InScope(g, settle(g)) # {} /\ ~refuseBefore(g, InScope(g, settle(g)))
<1>1. Readers(g, settle(g)) # {} /\ settle(g).kind # "data"
  BY SameEffect, KindIs
<1>2. ~refuseBefore(g, InScope(g, settle(g)))
  BY <1>1, SettledIs, Zenon
<1>3. InScope(g, settle(g)) # {}
  <2>1. CASE IsGiven(g)
    BY <2>1, KindIs DEF InScope
  <2>2. CASE ~IsGiven(g)
    <3>1. settle(g).kind = "scope"
      BY <2>2, KindIs
    <3>2. PICK d \in Candidates(g.parser, g.variant) : TRUE
      BY <1>1, <3>1 DEF Readers
    <3> QED BY <2>2, <3>1, <3>2 DEF InScope
  <2> QED BY <2>1, <2>2
<1> QED BY <1>2, <1>3

\* A year is for some definition that reads one.
LEMMA YearHeard ==
  ASSUME NEW g, IsOptions(g), Effect(g).ok, g.year # None, \E def \in Registry : def.year
  PROVE  Effect(Without(g, "year")) # Effect(g)
<1> DEFINE h == Without(g, "year")
<1> SUFFICES ASSUME Effect(h) = Effect(g) PROVE FALSE
  OBVIOUS
<1>1. h["year"] = Unset["year"]
  BY Others, UnsetIs DEF IsOptions
<1>2. h.year = None
  BY <1>1, UnsetIs
<1> HIDE DEF h
<1>3. Effect(h).ok /\ Readers(g, settle(g)) = Readers(h, settle(h))
  BY SameEffect
<1>4. ~HasData(g) /\ ~g.raw
  BY NoneForData
<1>5. \E def : def.year /\ Heard(g, def) \in Readers(g, settle(g))
  <2>1. CASE IsGiven(g) \/ g.parser # None
    <3>1. \E def \in InScope(g, settle(g)) : def.year
      BY <1>4, <2>1, SomeInScope DEF refuseBefore
    <3> QED BY <1>4, <2>1, <3>1, ScopeReads
  <2>2. CASE ~IsGiven(g) /\ g.parser = None
    <3>1. PICK def \in Registry : def.year
      OBVIOUS
    <3> QED BY <1>4, <2>2, <3>1, AllInScope
  <2> QED BY <2>1, <2>2
<1>6. PICK def : def.year /\ Heard(g, def) \in Readers(g, settle(g))
  BY <1>5
<1>7. PICK other : Heard(g, def) = Heard(h, other)
  BY <1>3, <1>6, ReaderIs
<1>8. Heard(g, def).year = g.year
  BY <1>4, <1>6 DEF Heard
<1>9. Heard(h, other).year = None
  BY <1>2 DEF Heard
<1> QED BY <1>7, <1>8, <1>9

\* An offset is for some definition that reads a zone.
LEMMA ZonesHeard ==
  ASSUME NEW g, IsOptions(g), Effect(g).ok, g.zones # {}, \E def \in Registry : def.zone
  PROVE  Effect(Without(g, "zones")) # Effect(g)
<1> DEFINE h == Without(g, "zones")
<1> SUFFICES ASSUME Effect(h) = Effect(g) PROVE FALSE
  OBVIOUS
<1>1. h["zones"] = Unset["zones"]
  BY Others, UnsetIs DEF IsOptions
<1>2. h.zones = {}
  BY <1>1, UnsetIs
<1> HIDE DEF h
<1>3. Effect(h).ok /\ Readers(g, settle(g)) = Readers(h, settle(h))
  BY SameEffect
<1>4. ~HasData(g) /\ ~g.raw
  BY NoneForData
<1>5. \E def : def.zone /\ Heard(g, def) \in Readers(g, settle(g))
  <2>1. CASE IsGiven(g) \/ g.parser # None
    <3>1. \E def \in InScope(g, settle(g)) : def.zone
      BY <1>4, <2>1, SomeInScope DEF refuseBefore
    <3> QED BY <1>4, <2>1, <3>1, ScopeReads
  <2>2. CASE ~IsGiven(g) /\ g.parser = None
    <3>1. PICK def \in Registry : def.zone
      OBVIOUS
    <3> QED BY <1>4, <2>2, <3>1, AllInScope
  <2> QED BY <2>1, <2>2
<1>6. PICK def : def.zone /\ Heard(g, def) \in Readers(g, settle(g))
  BY <1>5
<1>7. PICK other : Heard(g, def) = Heard(h, other)
  BY <1>3, <1>6, ReaderIs
<1>8. Heard(g, def).zones = g.zones
  BY <1>4, <1>6 DEF Heard
<1>9. Heard(h, other).zones = {}
  BY <1>2 DEF Heard
<1> QED BY <1>7, <1>8, <1>9

-----------------------------------------------------------------------------
(* Columns and types. *)

\* What a definition has, as far as columns and types need it.
IsDefinition(def) ==
  {"columns", "fields", "expected"} \subseteq DOMAIN def /\ def = [part \in DOMAIN def |-> def[part]]

\* The registry, as far as columns and types need it.
IsRegistry ==
  /\ \A def \in Registry \union {Defines[name] : name \in DOMAIN Defines} : IsDefinition(def)
  /\ \A def, other \in Registry : def.command = other.command /\ def.variant = other.variant => def = other

\* The definition that columns and types are given to.
Target(g) == IF IsGiven(g) THEN Inline(g) ELSE CHOOSE def \in Lookup(g.parser, g.variant) : TRUE

\* What columns and types make of a definition.
LEMMA TypedIs ==
  ASSUME NEW target, IsDefinition(target), NEW types, NEW def \in WithTypes(target, types)
  PROVE  /\ IsDefinition(def) /\ def.columns = target.columns
         /\ def.fields = target.fields \union ToSet(types) /\ ToSet(types) \intersect target.fields = {}
<1>1. ToSet(types) \intersect target.fields = {} /\ def = [target EXCEPT !.fields = @ \union ToSet(types), !.expected = @ \union ToSet(types)]
  BY DEF WithTypes
<1> QED BY <1>1 DEF IsDefinition

\* Columns name those of a definition that has none.
LEMMA NamedIs ==
  ASSUME NEW target, IsDefinition(target), NEW names, NEW def \in WithColumns(target, names)
  PROVE  def.columns = names /\ target.columns = <<>> /\ def.fields = target.fields
<1>1. target.columns = <<>> /\ def = [target EXCEPT !.columns = names]
  BY DEF WithColumns
<1> QED BY <1>1 DEF IsDefinition

\* The two together.
LEMMA ChangeIs ==
  ASSUME NEW g, NEW target, IsDefinition(target), NEW def \in nameColumns(g, target)
  PROVE  /\ IF g.columns = <<>> THEN def.columns = target.columns ELSE def.columns = g.columns /\ target.columns = <<>>
         /\ IF g.types = <<>> THEN def.fields = target.fields
            ELSE def.fields = target.fields \union ToSet(g.types) /\ ToSet(g.types) \intersect target.fields = {}
<1> DEFINE typed == IF g.types = <<>> THEN {target} ELSE WithTypes(target, g.types)
<1>1. ASSUME NEW d \in typed
      PROVE  /\ IsDefinition(d) /\ d.columns = target.columns
             /\ IF g.types = <<>> THEN d.fields = target.fields
                ELSE d.fields = target.fields \union ToSet(g.types) /\ ToSet(g.types) \intersect target.fields = {}
  BY <1>1, TypedIs
<1> HIDE DEF typed
<1>2. CASE g.columns = <<>>
  <2>1. def \in typed
    BY <1>2 DEF nameColumns, typed
  <2> QED BY <1>1, <1>2, <2>1
<1>3. CASE g.columns # <<>>
  <2>1. PICK d \in typed : def \in WithColumns(d, g.columns)
    BY <1>3 DEF nameColumns, typed
  <2>2. IsDefinition(d)
    BY <1>1
  <2>3. def.columns = g.columns /\ d.columns = <<>> /\ def.fields = d.fields
    BY <2>1, <2>2, NamedIs
  <2> QED BY <1>1, <1>3, <2>3
<1> QED BY <1>2, <1>3

\* With a definition given or named by its variant, one definition reads the input,
\* as columns and types have made it.
LEMMA OneReader ==
  ASSUME NEW g, Effect(g).ok, ~HasData(g), IsGiven(g) \/ g.variant # None, IsRegistry
  PROVE  /\ IsDefinition(Target(g))
         /\ \E def \in nameColumns(g, Target(g)) : Readers(g, settle(g)) = {Heard(g, def)}
<1>0. /\ settle(g) = settleColumns(g) /\ Readers(g, settle(g)) # {}
      /\ g.define # None => g.define \in DOMAIN Defines
  BY SettledIs, SameEffect, KindIs
<1>1. settleColumns(g).ok
  BY <1>0, SettledIs, Zenon
<1>2. g.columns = <<>> /\ g.types = <<>> => \A target : nameColumns(g, target) = {target}
  BY DEF nameColumns
<1>3. CASE IsGiven(g)
  <2>1. Target(g) = Inline(g)
    BY <1>3 DEF Target
  <2>2. IsDefinition(Inline(g))
    <3>1. CASE IsTabular(g)
      BY <3>1 DEF Inline, TabularDefinition, Definition, IsDefinition
    <3>2. CASE ~IsTabular(g)
      <4>1. g.define \in DOMAIN Defines
        BY <1>0, <1>3, <3>2 DEF IsGiven
      <4> QED BY <3>2, <4>1 DEF Inline, IsRegistry
    <3> QED BY <3>1, <3>2
  <2>3. \E def \in nameColumns(g, Inline(g)) : settle(g) = Reads("given", None, def, Nothing)
    <3>1. CASE g.columns = <<>> /\ g.types = <<>>
      <4>1. settle(g) = Reads("given", None, Inline(g), Nothing)
        BY <1>0, <1>3, <3>1 DEF settleColumns, Unchanged
      <4> QED BY <1>2, <3>1, <4>1
    <3>2. CASE ~(g.columns = <<>> /\ g.types = <<>>)
      <4>1. settleColumns(g) = Changed("given", nameColumns(g, Inline(g)), Nothing)
        BY <1>3, <3>2 DEF settleColumns
      <4> QED BY <1>0, <1>1, <4>1, ChangedIs
    <3> QED BY <3>1, <3>2
  <2>4. PICK def \in nameColumns(g, Inline(g)) : settle(g) = Reads("given", None, def, Nothing)
    BY <2>3
  <2>5. Readers(g, settle(g)) = {Heard(g, def)}
    BY <2>4 DEF Readers, Reads
  <2> QED BY <2>1, <2>2, <2>4, <2>5
<1>4. CASE ~IsGiven(g)
  <2> DEFINE target == CHOOSE def \in Lookup(g.parser, g.variant) : TRUE
  <2>1. g.variant # None /\ g.parser # None
    BY <1>4, Accepted DEF selectCheckRefuses
  <2>2. Candidates(g.parser, g.variant) = Lookup(g.parser, g.variant)
    BY <2>1 DEF Candidates, Lookup
  <2>3. settle(g).kind = "scope"
    BY <1>4, KindIs
  <2>4. Lookup(g.parser, g.variant) # {}
    BY <1>0, <2>2, <2>3 DEF Readers
  <2>5. target \in Lookup(g.parser, g.variant)
    BY <2>4
  <2>6. Target(g) = target
    BY <1>4 DEF Target
  <2> HIDE DEF target
  <2>7. Candidates(g.parser, g.variant) = {target} /\ IsDefinition(target)
    BY <2>2, <2>5 DEF Lookup, IsRegistry
  <2>8. Readers(g, settle(g)) = {Heard(g, reading(settle(g), target))}
    BY <2>3, <2>7 DEF Readers
  <2>9. reading(settle(g), target) \in nameColumns(g, target)
    <3>1. CASE g.columns = <<>> /\ g.types = <<>>
      <4>1. settle(g) = Reads("scope", None, Nothing, Nothing)
        BY <1>0, <1>4, <3>1 DEF settleColumns, Unchanged
      <4>2. reading(settle(g), target) = target
        BY <4>1 DEF reading, Reads
      <4> QED BY <1>2, <3>1, <4>2
    <3>2. CASE ~(g.columns = <<>> /\ g.types = <<>>)
      <4>1. settleColumns(g) = Changed("scope", nameColumns(g, target), target)
        BY <1>4, <2>4, <3>2 DEF settleColumns, ChangedIn, target
      <4>2. PICK def \in nameColumns(g, target) : settle(g) = Reads("scope", None, def, target)
        BY <1>0, <1>1, <4>1, ChangedIs
      <4>3. reading(settle(g), target) = def
        BY <4>2 DEF reading, Reads
      <4> QED BY <4>2, <4>3
    <3> QED BY <3>1, <3>2
  <2> QED BY <2>6, <2>7, <2>8, <2>9
<1> QED BY <1>3, <1>4

\* Without its columns or its types a command reads the same input, and gives them to
\* the same definition.
LEMMA SameInput ==
  ASSUME NEW g, IsOptions(g), NEW option \in {"columns", "types"}
  PROVE  LET h == Without(g, option)
         IN  /\ HasData(h) = HasData(g) /\ IsTabular(h) = IsTabular(g) /\ Format(h) = Format(g) /\ IsGiven(h) = IsGiven(g)
             /\ h.parser = g.parser /\ h.variant = g.variant /\ h.define = g.define
             /\ h[option] = <<>> /\ \A other \in {"columns", "types"} : other # option => h[other] = g[other]
<1> DEFINE h == Without(g, option)
<1>1. /\ h.file = g.file /\ h.format = g.format /\ h.parser = g.parser /\ h.variant = g.variant /\ h.define = g.define
      /\ h[option] = Unset[option] /\ \A other \in {"columns", "types"} : other # option => h[other] = g[other]
  BY Others, UnsetIs DEF IsOptions
<1>2. h[option] = <<>>
  BY <1>1, UnsetIs
<1> HIDE DEF h
<1>3. Format(h) = Format(g)
  BY <1>1 DEF Format, NamesDefinition
<1>4. IsTabular(h) = IsTabular(g)
  BY <1>3 DEF IsTabular
<1>5. HasData(h) = HasData(g) /\ IsGiven(h) = IsGiven(g)
  BY <1>1, <1>3, <1>4 DEF HasData, IsGiven
<1> QED BY <1>1, <1>2, <1>3, <1>4, <1>5 DEF h

\* That definition has the same fields, and no columns where columns could be given.
LEMMA SameTarget ==
  ASSUME NEW g, IsOptions(g), NEW option \in {"columns", "types"}
  PROVE  LET h == Without(g, option)
         IN  Target(h).fields = Target(g).fields /\ (g.columns # <<>> /\ Target(g).columns = <<>> => Target(h).columns = <<>>)
<1> DEFINE h == Without(g, option)
<1>1. /\ IsTabular(h) = IsTabular(g) /\ Format(h) = Format(g) /\ IsGiven(h) = IsGiven(g)
      /\ h.parser = g.parser /\ h.variant = g.variant /\ h.define = g.define
  BY SameInput
<1> HIDE DEF h
<1>2. CASE IsGiven(g) /\ IsTabular(g)
  <2>1. Target(h).fields = {} /\ Target(h).columns = <<>>
    BY <1>1, <1>2 DEF Target, Inline, TabularDefinition, Definition
  <2>2. Target(g).fields = {}
    BY <1>2 DEF Target, Inline, TabularDefinition, Definition
  <2>3. Target(h).fields = Target(g).fields /\ (g.columns # <<>> /\ Target(g).columns = <<>> => Target(h).columns = <<>>)
    BY <2>1, <2>2
  <2> QED BY <2>3 DEF h
<1>3. CASE ~(IsGiven(g) /\ IsTabular(g))
  <2>1. Target(h) = Target(g)
    BY <1>1, <1>3 DEF Target, Inline
  <2>2. Target(h).fields = Target(g).fields /\ (g.columns # <<>> /\ Target(g).columns = <<>> => Target(h).columns = <<>>)
    BY <2>1
  <2> QED BY <2>2 DEF h
<1> QED BY <1>2, <1>3

\* Columns and types are part of the definition that reads the input.
LEMMA ShapeHeard ==
  ASSUME NEW g, IsOptions(g), Effect(g).ok, NEW option \in {"columns", "types"}, g[option] # <<>>, IsRegistry
  PROVE  Effect(Without(g, option)) # Effect(g)
<1> DEFINE h == Without(g, option)
<1> SUFFICES ASSUME Effect(h) = Effect(g) PROVE FALSE
  OBVIOUS
<1>1. /\ HasData(h) = HasData(g) /\ IsGiven(h) = IsGiven(g) /\ h.variant = g.variant
      /\ h[option] = <<>> /\ \A other \in {"columns", "types"} : other # option => h[other] = g[other]
  BY SameInput
<1>2. Target(h).fields = Target(g).fields /\ (g.columns # <<>> /\ Target(g).columns = <<>> => Target(h).columns = <<>>)
  BY SameTarget
<1> HIDE DEF h
<1>3. Effect(h).ok /\ Readers(g, settle(g)) = Readers(h, settle(h))
  BY SameEffect
<1>4. ~HasData(g) /\ (IsGiven(g) \/ g.variant # None)
  <2>1. ~HasData(g)
    BY NoneForData
  <2>2. IsGiven(g) \/ g.variant # None
    BY Accepted DEF selectCheckRefuses, IsGiven
  <2> QED BY <2>1, <2>2
<1>5. PICK def \in nameColumns(g, Target(g)) : Readers(g, settle(g)) = {Heard(g, def)} /\ IsDefinition(Target(g))
  BY <1>4, OneReader
<1>6. PICK other \in nameColumns(h, Target(h)) : Readers(h, settle(h)) = {Heard(h, other)} /\ IsDefinition(Target(h))
  BY <1>1, <1>3, <1>4, OneReader
<1>7. def = other
  <2>1. Heard(g, def) = Heard(h, other)
    BY <1>3, <1>5, <1>6
  <2> QED BY <2>1 DEF Heard
<1>8. /\ IF g.columns = <<>> THEN def.columns = Target(g).columns ELSE def.columns = g.columns /\ Target(g).columns = <<>>
      /\ IF g.types = <<>> THEN def.fields = Target(g).fields
         ELSE def.fields = Target(g).fields \union ToSet(g.types) /\ ToSet(g.types) \intersect Target(g).fields = {}
  BY <1>5, ChangeIs
<1>9. /\ IF h.columns = <<>> THEN other.columns = Target(h).columns ELSE other.columns = h.columns /\ Target(h).columns = <<>>
      /\ IF h.types = <<>> THEN other.fields = Target(h).fields
         ELSE other.fields = Target(h).fields \union ToSet(h.types) /\ ToSet(h.types) \intersect Target(h).fields = {}
  BY <1>6, ChangeIs
<1>10. CASE option = "columns"
  <2>1. g.columns # <<>> /\ h.columns = <<>>
    BY <1>1, <1>10
  <2>2. def.columns = g.columns /\ other.columns = <<>>
    BY <1>2, <1>8, <1>9, <2>1
  <2> QED BY <1>7, <2>1, <2>2
<1>11. CASE option = "types"
  <2>1. g.types # <<>> /\ h.types = <<>>
    BY <1>1, <1>11
  <2>2. ToSet(g.types) # {}
    <3>1. 1 \in DOMAIN g.types
      BY <2>1 DEF IsOptions
    <3> QED BY <3>1 DEF ToSet
  <2>3. def.fields = Target(g).fields \union ToSet(g.types) /\ ToSet(g.types) \intersect Target(g).fields = {}
    BY <1>8, <2>1
  <2>4. other.fields = Target(g).fields
    BY <1>2, <1>9, <2>1
  <2> QED BY <1>7, <2>2, <2>3, <2>4
<1> QED BY <1>10, <1>11

-----------------------------------------------------------------------------
(* All of them. *)

\* What is settled of a data command is what the options given come to.
Settled == cmd \in Commands /\ (IsSettled /\ ~IsNew => settled = settle(o))

\* The inductive invariant: once settled, it stays what settle made of the options.
LEMMA SettledAlways == SettlingSpec => []Settled
<1> DEFINE vars == <<cmd, settled, places, plan>>
<1>1. SettlingInit => Settled
  BY DEF SettlingInit, Settled, IsSettled
<1>2. Settled /\ [SettlingNext]_vars => Settled'
  <2> SUFFICES ASSUME Settled, [SettlingNext]_vars PROVE Settled'
    OBVIOUS
  <2>1. CASE Settles
    BY <2>1 DEF Settled, Settles, IsSettled, IsNew, o
  <2>2. CASE IsNew /\ \E placement \in Placements[o.array] : Gives(placement)
    <3>1. cmd' = cmd /\ IsNew
      BY <2>2 DEF Gives
    <3> QED BY <3>1 DEF Settled, IsNew
  <2>3. CASE AllGiven
    <3>1. cmd' = cmd /\ IsNew
      BY <2>3 DEF AllGiven
    <3> QED BY <3>1 DEF Settled, IsNew
  <2>4. CASE UNCHANGED vars
    BY <2>4 DEF Settled, IsSettled, IsNew, o
  <2> QED BY <2>1, <2>2, <2>3, <2>4 DEF SettlingNext
<1> QED BY <1>1, <1>2, PTL DEF SettlingSpec

\* No option of an accepted command passes for nothing: taken away, the command is
\* another or is refused, for every registry, inline definition and file.
THEOREM OptionsAlwaysHeard == SettlingSpec => []OptionsAreHeard
<1>1. Settled => OptionsAreHeard
  <2> SUFFICES ASSUME Settled, ~IsNew, IsSettled, EffectOf(o, settled).ok, NEW option \in DOMAIN Unset, o[option] # Unset[option]
               PROVE  Effect(Without(o, option)) # EffectOf(o, settled)
    BY DEF OptionsAreHeard, Without
  <2>1. settled.ok
    BY DEF EffectOf
  <2>2. settled = settle(o)
    BY DEF Settled
  <2>3. EffectOf(o, settled) = Effect(o)
    BY <2>2 DEF Effect
  <2>4. Effect(o).ok
    BY <2>3
  <2>5. IsOptions(o) /\ IsRegistry /\ (\E def \in Registry : def.year) /\ (\E def \in Registry : def.zone)
    BY SettlingAssumption DEF Settled, IsNew, o, IsOptions, IsRegistry, IsDefinition
  <2>6. Effect(Without(o, option)) # Effect(o)
    <3>1. CASE option \in {"columns", "types"}
      BY <2>4, <2>5, <3>1, ShapeHeard, UnsetIs
    <3>2. CASE option \in {"pretty", "stream"}
      BY <2>4, <2>5, <3>2, WrittenHeard
    <3>3. CASE option \in {"extract", "exclude"}
      BY <2>4, <2>5, <3>3, KeysHeard
    <3>4. CASE option = "raw"
      BY <2>4, <2>5, <3>4, RawHeard, UnsetIs
    <3>5. CASE option = "year"
      BY <2>4, <2>5, <3>5, YearHeard, UnsetIs
    <3>6. CASE option = "zones"
      BY <2>4, <2>5, <3>6, ZonesHeard, UnsetIs
    <3> QED BY <3>1, <3>2, <3>3, <3>4, <3>5, <3>6, UnsetIs
  <2> QED BY <2>3, <2>6
<1> QED BY <1>1, SettledAlways, PTL

-----------------------------------------------------------------------------
(* Paths, and the places on the way to what is said. *)

\* A step of a location as it is given, a step of a path, and the paths.
LocStep == [name : Seq(STRING), appends : BOOLEAN]
Steps == {Index(i) : i \in Nat} \union {Key(name) : name \in Seq(STRING)}
Path == Seq(Steps)

\* The places on the way to those said, the root included.
OnTheWay(paths) == {<<>>} \union UNION {{SubSeq(p, 1, k) : k \in DOMAIN p} : p \in ToSet(paths)}

\* A prefix is what a path begins with.
LEMMA PrefixBegins ==
  ASSUME NEW p \in Path, NEW q \in Path
  PROVE  /\ IsPrefix(p, q) <=> Len(p) <= Len(q) /\ p = SubSeq(q, 1, Len(p))
         /\ IsPrefix(p, q) <=> Len(p) <= Len(q) /\ \A i \in 1 .. Len(p) : p[i] = q[i]
<1>1. SubSeq(p, 1, Len(p)) = p
  BY DEF Path
<1>2. Len(p) <= Len(q) => /\ SubSeq(q, 1, Len(p)) \in Path /\ Len(SubSeq(q, 1, Len(p))) = Len(p)
                          /\ \A i \in 1 .. Len(p) : SubSeq(q, 1, Len(p))[i] = q[i]
  BY DEF Path
<1>3. ASSUME Len(p) <= Len(q), \A i \in 1 .. Len(p) : p[i] = q[i] PROVE p = SubSeq(q, 1, Len(p))
  BY <1>2, <1>3, SeqEqual DEF Path
<1> QED BY <1>1, <1>2, <1>3 DEF IsPrefix

\* The first k steps of a path are a path that it begins with.
LEMMA BeginningIs ==
  ASSUME NEW q \in Path, NEW k \in 0 .. Len(q)
  PROVE  /\ SubSeq(q, 1, k) \in Path /\ Len(SubSeq(q, 1, k)) = k
         /\ \A i \in 1 .. k : SubSeq(q, 1, k)[i] = q[i]
         /\ IsPrefix(SubSeq(q, 1, k), q)
<1>1. /\ SubSeq(q, 1, k) \in Path /\ Len(SubSeq(q, 1, k)) = k
      /\ \A i \in 1 .. k : SubSeq(q, 1, k)[i] = q[i]
  BY DEF Path
<1>2. Len(q) \in Nat
  BY DEF Path
<1> DEFINE s == SubSeq(q, 1, k)
<1>3. s \in Path /\ Len(s) <= Len(q) /\ \A i \in 1 .. Len(s) : s[i] = q[i]
  BY <1>1, <1>2
<1> HIDE DEF s
<1>4. IsPrefix(s, q)
  BY <1>3, PrefixBegins
<1> QED BY <1>1, <1>4 DEF s

\* A beginning of a beginning is a beginning.
LEMMA PrefixOfPrefix ==
  ASSUME NEW p \in Path, NEW q \in Path, NEW r \in Path, IsPrefix(p, q), IsPrefix(q, r)
  PROVE  IsPrefix(p, r)
<1>1. Len(p) \in Nat /\ Len(q) \in Nat /\ Len(r) \in Nat
  BY DEF Path
<1>2. Len(p) <= Len(q) /\ \A i \in 1 .. Len(p) : p[i] = q[i]
  BY PrefixBegins
<1>3. Len(q) <= Len(r) /\ \A i \in 1 .. Len(q) : q[i] = r[i]
  BY PrefixBegins
<1>4. Len(p) <= Len(r) /\ \A i \in 1 .. Len(p) : p[i] = r[i]
  BY <1>1, <1>2, <1>3
<1> QED BY <1>4, PrefixBegins

\* Two beginnings of a path are one of the other.
LEMMA PrefixesCompare ==
  ASSUME NEW p \in Path, NEW q \in Path, NEW r \in Path, IsPrefix(p, r), IsPrefix(q, r), Len(p) <= Len(q)
  PROVE  IsPrefix(p, q)
<1>1. Len(p) \in Nat /\ Len(q) \in Nat /\ Len(r) \in Nat
  BY DEF Path
<1>2. \A i \in 1 .. Len(p) : p[i] = r[i]
  BY PrefixBegins
<1>3. \A i \in 1 .. Len(q) : q[i] = r[i]
  BY PrefixBegins
<1>4. \A i \in 1 .. Len(p) : p[i] = q[i]
  BY <1>1, <1>2, <1>3
<1> QED BY <1>4, PrefixBegins

\* A step further.
LEMMA Further ==
  ASSUME NEW at \in Path, NEW c \in Steps
  PROVE  /\ Append(at, c) \in Path /\ Len(Append(at, c)) = Len(at) + 1
         /\ \A i \in 1 .. Len(at) : Append(at, c)[i] = at[i]
         /\ Append(at, c)[Len(at) + 1] = c
         /\ IsPrefix(at, Append(at, c)) /\ Append(at, c) # <<>> /\ Last(Append(at, c)) = c
<1>1. /\ Append(at, c) \in Path /\ Len(Append(at, c)) = Len(at) + 1
      /\ \A i \in 1 .. Len(at) : Append(at, c)[i] = at[i]
      /\ Append(at, c)[Len(at) + 1] = c
      /\ Len(at) \in Nat
  BY DEF Path
<1> DEFINE s == Append(at, c)
<1>4. s \in Path /\ Len(at) <= Len(s) /\ \A i \in 1 .. Len(at) : at[i] = s[i]
  BY <1>1
<1> HIDE DEF s
<1>5. IsPrefix(at, s)
  BY <1>4, PrefixBegins
<1>2. IsPrefix(at, Append(at, c))
  BY <1>5 DEF s
<1>3. Append(at, c) # <<>>
  BY <1>1
<1> QED BY <1>1, <1>2, <1>3 DEF Last

\* A path one longer goes a step further.
LEMMA IsFurther ==
  ASSUME NEW at \in Path, NEW q \in Path, Len(q) > Len(at), IsPrefix(at, q)
  PROVE  /\ q[Len(at) + 1] \in Steps
         /\ SubSeq(q, 1, Len(at) + 1) = Append(at, q[Len(at) + 1])
         /\ IsPrefix(Append(at, q[Len(at) + 1]), q)
<1> DEFINE c == q[Len(at) + 1]
           n == Len(at) + 1
<1>1. Len(at) \in Nat /\ Len(q) \in Nat /\ n \in 0 .. Len(q) /\ c \in Steps
  BY DEF Path
<1>2. \A i \in 1 .. Len(at) : at[i] = q[i]
  BY PrefixBegins
<1>3. /\ SubSeq(q, 1, n) \in Path /\ Len(SubSeq(q, 1, n)) = n /\ IsPrefix(SubSeq(q, 1, n), q)
      /\ \A i \in 1 .. n : SubSeq(q, 1, n)[i] = q[i]
  BY <1>1, BeginningIs
<1>4. /\ Append(at, c) \in Path /\ Len(Append(at, c)) = n /\ Append(at, c)[n] = c
      /\ \A i \in 1 .. Len(at) : Append(at, c)[i] = at[i]
  BY <1>1, Further
<1>5. \A i \in 1 .. n : Append(at, c)[i] = SubSeq(q, 1, n)[i]
  BY <1>1, <1>2, <1>3, <1>4
<1>6. Append(at, c) = SubSeq(q, 1, n)
  BY <1>3, <1>4, <1>5, SeqEqual DEF Path
<1> QED BY <1>1, <1>3, <1>6

\* What is on the way is the root and what the places said begin with.
LEMMA WayIs ==
  ASSUME NEW paths \in Seq(Path)
  PROVE  /\ OnTheWay(paths) \subseteq Path
         /\ \A at \in Path : at \in OnTheWay(paths) <=> at = <<>> \/ \E p \in ToSet(paths) : IsPrefix(at, p)
<1>1. ToSet(paths) \subseteq Path
  BY DEF ToSet
<1>2. \A p \in ToSet(paths) : Len(p) \in Nat /\ DOMAIN p = 1 .. Len(p)
  BY <1>1 DEF Path
<1>3. <<>> \in Path
  BY DEF Path
<1>4. OnTheWay(paths) \subseteq Path
  <2>1. ASSUME NEW p \in ToSet(paths), NEW k \in DOMAIN p PROVE SubSeq(p, 1, k) \in Path
    BY <1>1, <1>2, BeginningIs
  <2> SUFFICES ASSUME NEW at \in OnTheWay(paths), at # <<>> PROVE at \in Path
    BY <1>3
  <2>2. PICK p \in ToSet(paths) : \E k \in DOMAIN p : at = SubSeq(p, 1, k)
    BY DEF OnTheWay
  <2> QED BY <2>1, <2>2
<1>5. ASSUME NEW at \in Path, NEW p \in ToSet(paths), IsPrefix(at, p) PROVE at \in OnTheWay(paths)
  <2>1. at = SubSeq(p, 1, Len(at)) /\ Len(at) <= Len(p) /\ Len(at) \in Nat
    BY <1>1, <1>5, PrefixBegins DEF Path
  <2>2. CASE Len(at) = 0
    BY <2>2 DEF Path, OnTheWay
  <2>3. CASE Len(at) \in DOMAIN p
    BY <2>1, <2>3 DEF OnTheWay
  <2> QED BY <1>2, <2>1, <2>2, <2>3
<1>6. ASSUME NEW at \in OnTheWay(paths), at # <<>> PROVE \E p \in ToSet(paths) : IsPrefix(at, p)
  <2>1. PICK p \in ToSet(paths) : \E k \in DOMAIN p : at = SubSeq(p, 1, k)
    BY <1>6 DEF OnTheWay
  <2> QED BY <2>1, <1>1, <1>2, BeginningIs
<1>7. <<>> \in OnTheWay(paths)
  BY DEF OnTheWay
<1> QED BY <1>4, <1>5, <1>6, <1>7

\* What is before something on the way is on it.
LEMMA WayBefore ==
  ASSUME NEW paths \in Seq(Path), NEW p \in Path, NEW q \in OnTheWay(paths), IsPrefix(p, q)
  PROVE  p \in OnTheWay(paths)
<1>1. q \in Path /\ ToSet(paths) \subseteq Path
  BY WayIs DEF ToSet
<1>2. CASE q = <<>>
  <2>1. Len(p) <= Len(q)
    BY <1>1, PrefixBegins
  <2>3. Len(p) \in Nat /\ Len(q) = 0
    BY <1>2 DEF Path
  <2>2. p = <<>>
    BY <2>1, <2>3 DEF Path
  <2> QED BY <2>2, WayIs
<1>3. CASE q # <<>>
  <2>1. PICK r \in ToSet(paths) : IsPrefix(q, r)
    BY <1>1, <1>3, WayIs
  <2>2. IsPrefix(p, r)
    BY <1>1, <2>1, PrefixOfPrefix
  <2> QED BY <2>2, WayIs
<1> QED BY <1>2, <1>3

\* The children of a place are the steps that stay on the way.
LEMMA ChildIs ==
  ASSUME NEW paths \in Seq(Path), NEW at \in Path
  PROVE  ChildrenAt(paths, at) = {c \in Steps : Append(at, c) \in OnTheWay(paths)}
<1>1. ToSet(paths) \subseteq Path
  BY DEF ToSet
<1>2. ASSUME NEW c \in ChildrenAt(paths, at) PROVE c \in Steps /\ Append(at, c) \in OnTheWay(paths)
  <2>1. PICK p \in ToSet(paths) : Len(p) > Len(at) /\ IsPrefix(at, p) /\ c = p[Len(at) + 1]
    BY <1>2 DEF ChildrenAt
  <2>2. c \in Steps /\ IsPrefix(Append(at, c), p)
    BY <1>1, <2>1, IsFurther
  <2>3. Append(at, c) \in Path
    BY <2>2, Further
  <2> QED BY <2>2, <2>3, WayIs
<1>3. ASSUME NEW c \in Steps, Append(at, c) \in OnTheWay(paths) PROVE c \in ChildrenAt(paths, at)
  <2>1. Append(at, c) \in Path /\ Append(at, c) # <<>> /\ Len(Append(at, c)) = Len(at) + 1 /\ Append(at, c)[Len(at) + 1] = c /\ Len(at) \in Nat
        /\ IsPrefix(at, Append(at, c))
    BY Further DEF Path
  <2>2. PICK p \in ToSet(paths) : IsPrefix(Append(at, c), p)
    BY <1>3, <2>1, WayIs
  <2>3. p \in Path /\ Len(p) \in Nat
    BY <1>1 DEF Path
  <2>4. Len(at) + 1 <= Len(p) /\ Append(at, c)[Len(at) + 1] = p[Len(at) + 1]
    <3>1. Len(Append(at, c)) <= Len(p) /\ \A i \in 1 .. Len(Append(at, c)) : Append(at, c)[i] = p[i]
      BY <2>1, <2>2, <2>3, PrefixBegins
    <3> QED BY <2>1, <3>1
  <2>5. IsPrefix(at, p)
    BY <2>1, <2>2, <2>3, PrefixOfPrefix
  <2>6. p[Len(at) + 1] = c /\ Len(p) > Len(at)
    BY <2>1, <2>3, <2>4
  <2> QED BY <2>5, <2>6 DEF ChildrenAt
<1> QED BY <1>2, <1>3

-----------------------------------------------------------------------------
(* Folds: numbers, and the place a location says. *)

\* A set of numbers that has one has a least one.
LEMMA Least ==
  ASSUME NEW T \in SUBSET Nat, T # {}
  PROVE  \E n \in T : \A m \in T : n <= m
<1> DEFINE R == {ss \in Nat \X Nat : ss[1] < ss[2]}
<1>1. IsWellFoundedOn(R, Nat)
  BY NatLessThanWellFounded, Zenon DEF OpToRel
<1>2. PICK x \in T : \A y \in T : ~ (<<y, x>> \in R)
  BY <1>1, WFMin
<1>3. \A y \in T : ~ (y < x)
  BY <1>2
<1> QED BY <1>3

\* What holds of zero and goes on from each number to the next holds of all of them:
\* induction, over a set.
LEMMA Reaches ==
  ASSUME NEW n \in Nat, NEW T, 0 \in T, \A i \in 0..(n - 1) : i \in T => i + 1 \in T
  PROVE  \A i \in 0..n : i \in T
<1> SUFFICES ASSUME NEW j \in 0..n, j \notin T PROVE FALSE
  OBVIOUS
<1> DEFINE U == {i \in 0..n : i \notin T}
<1>0. U \in SUBSET Nat /\ U # {}
  OBVIOUS
<1>1. PICK m \in U : \A k \in U : m <= k
  BY <1>0, Least
<1>2. m - 1 \in 0..(n-1) /\ m - 1 \in T
  BY <1>1
<1> QED BY <1>1, <1>2

\* Max finds the last of some positions.
LEMMA MaxIsLast ==
  ASSUME NEW n \in Nat, NEW S \in SUBSET (1..n), S # {}
  PROVE  Max(S) \in S /\ \A x \in S : Max(S) >= x
<1> DEFINE T == {n - x : x \in S}
<1>0. PICK x \in S : TRUE
  OBVIOUS
<1>1. T \in SUBSET Nat /\ n - x \in T
  BY <1>0
<1>2. PICK m \in T : \A k \in T : m <= k
  BY <1>1, Least
<1>3. PICK y \in S : m = n - y
  BY <1>2
<1>4. ASSUME NEW z \in S PROVE y >= z
  <2>1. n - z \in T
    OBVIOUS
  <2>2. y \in 1..n /\ z \in 1..n /\ m <= n - z
    BY <1>2, <2>1
  <2> QED BY <1>3, <2>2
<1> QED BY <1>4 DEF Max

\* What a fold works out: a value for each set of positions, by the last of them.
IsTable(h, n, base, F) == \A S \in SUBSET (1..n) : h[S] = IF S = {} THEN base ELSE F[<<h[S \ {Max(S)}], Max(S)>>]

\* For each step that stays in a set A there is such a table.
LEMMA TableExists ==
  ASSUME NEW n \in Nat, NEW A, NEW base \in A, NEW F \in [A \X (1..n) -> A]
  PROVE  \E h \in [SUBSET (1..n) -> A] : IsTable(h, n, base, F)
<1> DEFINE Fits(h, m) == \A S \in SUBSET (1..m) : h[S] = IF S = {} THEN base ELSE F[<<h[S \ {Max(S)}], Max(S)>>]
           T == {m \in 0..n : \E h \in [SUBSET (1..m) -> A] : Fits(h, m)}
<1>1. 0 \in T
  <2> DEFINE h == [S \in SUBSET (1..0) |-> base]
  <2>1. h \in [SUBSET (1..0) -> A] /\ Fits(h, 0)
    OBVIOUS
  <2>2. 0 \in 0..n
    OBVIOUS
  <2> HIDE DEF h, Fits
  <2> QED BY <2>1, <2>2
<1>2. ASSUME NEW m \in 0..(n - 1), m \in T PROVE m + 1 \in T
  <2>1. PICK h \in [SUBSET (1..m) -> A] : Fits(h, m)
    BY <1>2
  <2> DEFINE k == [S \in SUBSET (1..(m + 1)) |-> IF m + 1 \in S THEN F[<<h[S \ {m + 1}], m + 1>>] ELSE h[S]]
  <2>2. \A S \in SUBSET (1..(m + 1)) : /\ m + 1 \in S => S \ {m + 1} \in SUBSET (1..m)
                                       /\ m + 1 \notin S => S \in SUBSET (1..m)
    OBVIOUS
  <2>3. k \in [SUBSET (1..(m + 1)) -> A]
    <3> SUFFICES ASSUME NEW S \in SUBSET (1..(m + 1)) PROVE k[S] \in A
      BY Zenon
    <3> QED BY <2>2
  <2>4. ASSUME NEW S \in SUBSET (1..(m + 1)) PROVE k[S] = IF S = {} THEN base ELSE F[<<k[S \ {Max(S)}], Max(S)>>]
    <3>1. CASE S = {}
      BY <3>1, <2>1, <2>2
    <3>2. CASE m + 1 \in S
      <4>1. Max(S) = m + 1
        <5>1. Max(S) \in S /\ Max(S) >= m + 1
          BY <3>2, MaxIsLast, m + 1 \in Nat
        <5>2. Max(S) \in 1..(m + 1)
          BY <5>1
        <5> QED BY <5>1, <5>2
      <4>2. S \ {m + 1} \in SUBSET (1..m) /\ k[S \ {m + 1}] = h[S \ {m + 1}]
        BY <2>2, <3>2
      <4> QED BY <3>2, <4>1, <4>2
    <3>3. CASE S # {} /\ m + 1 \notin S
      <4>1. S \in SUBSET (1..m) /\ Max(S) \in S
        BY <2>2, <3>3, MaxIsLast, m + 1 \in Nat
      <4>2. S \ {Max(S)} \in SUBSET (1..m)
        BY <4>1
      <4>3. k[S] = h[S] /\ k[S \ {Max(S)}] = h[S \ {Max(S)}]
        BY <3>3, <4>2
      <4> QED BY <2>1, <3>3, <4>1, <4>3
    <3> QED BY <3>1, <3>2, <3>3
  <2> HIDE DEF k
  <2>5. Fits(k, m + 1)
    BY <2>4
  <2> HIDE DEF Fits
  <2> QED BY <2>3, <2>5
<1> HIDE DEF T
<1>3. n \in T
  BY <1>1, <1>2, Reaches
<1>4. \E h \in [SUBSET (1..n) -> A] : Fits(h, n)
  BY <1>3 DEF T
<1> QED BY <1>4 DEF IsTable

\* The first i positions are the i-th after the ones before it.
LEMMA PrefixIs ==
  ASSUME NEW n \in Nat, NEW i \in 1..n
  PROVE  1..i \in SUBSET (1..n) /\ 1..i # {} /\ Max(1..i) = i /\ (1..i) \ {Max(1..i)} = 1..(i - 1)
<1>1. 1..i \in SUBSET (1..n) /\ i \in 1..i
  OBVIOUS
<1>2. Max(1..i) = i
  BY <1>1, MaxIsLast
<1>3. (1..i) \ {i} = 1..(i - 1)
  OBVIOUS
<1> QED BY <1>1, <1>2, <1>3

\* The number a name is, digit by digit.
LEMMA NumberFold ==
  ASSUME NEW name \in Seq(STRING), ToSet(name) \subseteq DOMAIN Digits
  PROVE  \E g : /\ g[0] = 0 /\ g[Len(name)] = Number(name)
                /\ \A i \in 0..(Len(name) - 1) : g[i] \in Nat /\ g[i + 1] = 10 * g[i] + Digits[name[i + 1]]
                /\ g[Len(name)] \in Nat
<1> DEFINE n == Len(name)
           S == DOMAIN name
           A == Nat
           F == [p \in A \X (1..n) |-> 10 * p[1] + Digits[name[p[2]]]]
<1>1. n \in Nat /\ S = 1..n
  OBVIOUS
<1>2. ASSUME NEW x \in A, NEW k \in 1..n PROVE 10 * x + Digits[name[k]] \in A
  <2>1. DOMAIN Digits = {"0", "1"} /\ Digits["0"] = 0 /\ Digits["1"] = 1
    BY DEF Digits
  <2>2. name[k] \in DOMAIN Digits
    BY <1>1 DEF ToSet
  <2> QED BY <2>1, <2>2
<1>3. F \in [A \X (1..n) -> A]
  <2> HIDE DEF A
  <2> QED BY <1>2
<1>4. 0 \in A
  OBVIOUS
<1>5. PICK h \in [SUBSET (1..n) -> A] : IsTable(h, n, 0, F)
  <2> HIDE DEF F, n, A
  <2> QED BY <1>1, <1>3, <1>4, TableExists, Zenon
<1>6. ASSUME NEW T \in SUBSET S PROVE h[T] = IF T = {} THEN 0 ELSE 10 * h[T \ {Max(T)}] + Digits[name[Max(T)]]
  <2>1. CASE T = {}
    BY <1>1, <1>5, <2>1 DEF IsTable
  <2>2. CASE T # {}
    <3>1. Max(T) \in 1..n /\ T \ {Max(T)} \in SUBSET (1..n)
      BY <1>1, <2>2, MaxIsLast
    <3>2. h[T] = F[<<h[T \ {Max(T)}], Max(T)>>]
      BY <1>1, <1>5, <2>2 DEF IsTable
    <3>3. h[T \ {Max(T)}] \in A
      BY <1>5, <3>1
    <3>4. <<h[T \ {Max(T)}], Max(T)>> \in A \X (1..n)
      BY <3>1, <3>3
    <3> HIDE DEF A
    <3> QED BY <2>2, <3>2, <3>4
  <2> QED BY <2>1, <2>2
<1>7. h = [T \in SUBSET S |-> IF T = {} THEN 0 ELSE 10 * h[T \ {Max(T)}] + Digits[name[Max(T)]]]
  <2> HIDE DEF S, A
  <2> QED BY <1>1, <1>5, <1>6
<1>8. PICK f : /\ f = [T \in SUBSET S |-> IF T = {} THEN 0 ELSE 10 * f[T \ {Max(T)}] + Digits[name[Max(T)]]]
               /\ Number(name) = f[S]
  BY <1>7, Zenon DEF Number, FoldLeft, MapThenFoldSet
<1> DEFINE g == [i \in 0..n |-> f[1..i]]
<1>9. g[0] = 0 /\ g[n] = Number(name)
  BY <1>1, <1>8
<1>10. ASSUME NEW i \in 0..(n - 1) PROVE g[i + 1] = 10 * g[i] + Digits[name[i + 1]]
  <2> DEFINE j == i + 1
  <2>1. j \in 1..n /\ j - 1 = i /\ i \in 0..n /\ j \in 0..n
    BY <1>1
  <2> HIDE DEF j
  <2>2. 1..j \in SUBSET S /\ 1..j # {} /\ Max(1..j) = j /\ (1..j) \ {Max(1..j)} = 1..i
    BY <1>1, <2>1, PrefixIs
  <2>3. f[1..j] = 10 * f[(1..j) \ {Max(1..j)}] + Digits[name[Max(1..j)]]
    BY <1>8, <2>2
  <2>4. f[1..j] = 10 * f[1..i] + Digits[name[j]]
    BY <2>2, <2>3, Zenon
  <2> QED BY <2>1, <2>4, Zenon DEF j
<1> HIDE DEF g
<1> DEFINE T == {i \in 0..n : g[i] \in A}
<1>11. \A i \in 0..n : i \in T
  <2>1. 0 \in T
    BY <1>1, <1>4, <1>9
  <2>2. ASSUME NEW i \in 0..(n - 1), i \in T PROVE i + 1 \in T
    <3>1. g[i] \in A /\ i + 1 \in 1..n /\ i + 1 \in 0..n
      BY <1>1, <2>2
    <3>2. 10 * g[i] + Digits[name[i + 1]] \in A
      BY <1>2, <3>1
    <3> QED BY <1>10, <3>1, <3>2
  <2> HIDE DEF T
  <2> QED BY <1>1, <2>1, <2>2, Reaches
<1>12. \A i \in 0..n : g[i] \in A
  BY <1>11
<1>13. \A i \in 0..(n - 1) : g[i] \in A /\ g[i + 1] = 10 * g[i] + Digits[name[i + 1]]
  BY <1>1, <1>10, <1>12, \A i \in 0..(n - 1) : i \in 0..n
<1>14. g[n] \in A
  BY <1>1, <1>12
<1> QED BY <1>9, <1>13, <1>14, Zenon

\* A name that is an index has a number.
LEMMA NumberIsNat ==
  ASSUME NEW name \in Seq(STRING), isIndex(name)
  PROVE  Number(name) \in Nat
<1>1. ToSet(name) \subseteq DOMAIN Digits
  BY DEF isIndex
<1> QED BY <1>1, NumberFold

\* The children of a place are finitely many.
LEMMA ChildrenFinite ==
  ASSUME NEW paths \in Seq(Path), NEW at \in Path
  PROVE  IsFiniteSet(ChildrenAt(paths, at)) /\ Cardinality(ChildrenAt(paths, at)) \in Nat
<1> DEFINE D == {i \in DOMAIN paths : Len(paths[i]) > Len(at) /\ IsPrefix(at, paths[i])}
           f == [i \in D |-> paths[i][Len(at) + 1]]
<1>1. IsFiniteSet(D)
  <2>1. IsFiniteSet(1 .. Len(paths))
    BY FS_Interval
  <2>2. D \in SUBSET (1 .. Len(paths))
    OBVIOUS
  <2> QED BY <2>1, <2>2, FS_Subset
<1>2. f \in Surjection(D, ChildrenAt(paths, at))
  <2>1. ChildrenAt(paths, at) = {f[i] : i \in D}
    BY DEF ChildrenAt, ToSet
  <2> QED BY <2>1 DEF Surjection
<1>3. IsFiniteSet(ChildrenAt(paths, at))
  BY <1>1, <1>2, FS_Surjection
<1> QED BY <1>3, FS_CardinalityType

\* Where a step leads is a step.
LEMMA StepSaidIs ==
  ASSUME NEW array, NEW paths \in Seq(Path), NEW at \in Path, NEW step \in LocStep
  PROVE  StepSaid(array, paths, at, step) \in Steps
<1>1. Cardinality(ChildrenAt(paths, at)) \in Nat
  BY ChildrenFinite
<1>2. isIndex(step.name) => Number(step.name) \in Nat
  BY NumberIsNat DEF LocStep
<1>3. step.name \in Seq(STRING)
  BY DEF LocStep
<1> QED BY <1>1, <1>2, <1>3 DEF StepSaid, Steps

\* The path a location says, step by step.
LEMMA SaidFold ==
  ASSUME NEW array, NEW paths \in Seq(Path), NEW loc \in Seq(LocStep)
  PROVE  \E g : /\ g[0] = <<>> /\ g[Len(loc)] = Said(array, paths, loc)
                /\ \A i \in 0..(Len(loc) - 1) : g[i] \in Path /\ g[i + 1] = Append(g[i], StepSaid(array, paths, g[i], loc[i + 1]))
                /\ g[Len(loc)] \in Path
<1> DEFINE n == Len(loc)
           S == DOMAIN loc
           A == Path
           F == [p \in A \X (1..n) |-> Append(p[1], StepSaid(array, paths, p[1], loc[p[2]]))]
<1>1. n \in Nat /\ S = 1..n
  OBVIOUS
<1>2. ASSUME NEW x \in A, NEW k \in 1..n PROVE Append(x, StepSaid(array, paths, x, loc[k])) \in A
  <2>1. loc[k] \in LocStep
    BY <1>1
  <2> QED BY <2>1, StepSaidIs, Further
<1>3. F \in [A \X (1..n) -> A]
  <2> HIDE DEF A
  <2> QED BY <1>2
<1>4. <<>> \in A
  BY DEF Path
<1>5. PICK h \in [SUBSET (1..n) -> A] : IsTable(h, n, <<>>, F)
  <2> HIDE DEF F, n, A
  <2> QED BY <1>1, <1>3, <1>4, TableExists, Zenon
<1>6. ASSUME NEW T \in SUBSET S PROVE h[T] = IF T = {} THEN <<>> ELSE Append(h[T \ {Max(T)}], StepSaid(array, paths, h[T \ {Max(T)}], loc[Max(T)]))
  <2>1. CASE T = {}
    BY <1>1, <1>5, <2>1 DEF IsTable
  <2>2. CASE T # {}
    <3>1. Max(T) \in 1..n /\ T \ {Max(T)} \in SUBSET (1..n)
      BY <1>1, <2>2, MaxIsLast
    <3>2. h[T] = F[<<h[T \ {Max(T)}], Max(T)>>]
      BY <1>1, <1>5, <2>2 DEF IsTable
    <3>3. h[T \ {Max(T)}] \in A
      BY <1>5, <3>1
    <3>4. <<h[T \ {Max(T)}], Max(T)>> \in A \X (1..n)
      BY <3>1, <3>3
    <3> HIDE DEF A
    <3> QED BY <2>2, <3>2, <3>4
  <2> QED BY <2>1, <2>2
<1>7. h = [T \in SUBSET S |-> IF T = {} THEN <<>> ELSE Append(h[T \ {Max(T)}], StepSaid(array, paths, h[T \ {Max(T)}], loc[Max(T)]))]
  <2> HIDE DEF S, A
  <2> QED BY <1>1, <1>5, <1>6
<1>8. PICK f : /\ f = [T \in SUBSET S |-> IF T = {} THEN <<>> ELSE Append(f[T \ {Max(T)}], StepSaid(array, paths, f[T \ {Max(T)}], loc[Max(T)]))]
               /\ Said(array, paths, loc) = f[S]
  BY <1>7, Zenon DEF Said, FoldLeft, MapThenFoldSet
<1> DEFINE g == [i \in 0..n |-> f[1..i]]
<1>9. g[0] = <<>> /\ g[n] = Said(array, paths, loc)
  BY <1>1, <1>8
<1>10. ASSUME NEW i \in 0..(n - 1) PROVE g[i + 1] = Append(g[i], StepSaid(array, paths, g[i], loc[i + 1]))
  <2> DEFINE j == i + 1
  <2>1. j \in 1..n /\ j - 1 = i /\ i \in 0..n /\ j \in 0..n
    BY <1>1
  <2> HIDE DEF j
  <2>2. 1..j \in SUBSET S /\ 1..j # {} /\ Max(1..j) = j /\ (1..j) \ {Max(1..j)} = 1..i
    BY <1>1, <2>1, PrefixIs
  <2>3. f[1..j] = Append(f[(1..j) \ {Max(1..j)}], StepSaid(array, paths, f[(1..j) \ {Max(1..j)}], loc[Max(1..j)]))
    BY <1>8, <2>2
  <2>4. f[1..j] = Append(f[1..i], StepSaid(array, paths, f[1..i], loc[j]))
    BY <2>2, <2>3, Zenon
  <2> QED BY <2>1, <2>4, Zenon DEF j
<1> HIDE DEF g
<1> DEFINE T == {i \in 0..n : g[i] \in A}
<1>11. \A i \in 0..n : i \in T
  <2>1. 0 \in T
    BY <1>1, <1>4, <1>9
  <2>2. ASSUME NEW i \in 0..(n - 1), i \in T PROVE i + 1 \in T
    <3>1. g[i] \in A /\ i + 1 \in 1..n /\ i + 1 \in 0..n
      BY <1>1, <2>2
    <3>2. Append(g[i], StepSaid(array, paths, g[i], loc[i + 1])) \in A
      BY <1>2, <3>1
    <3> QED BY <1>10, <3>1, <3>2
  <2> HIDE DEF T
  <2> QED BY <1>1, <2>1, <2>2, Reaches
<1>12. \A i \in 0..n : g[i] \in A
  BY <1>11
<1>13. \A i \in 0..(n - 1) : g[i] \in A /\ g[i + 1] = Append(g[i], StepSaid(array, paths, g[i], loc[i + 1]))
  BY <1>1, <1>10, <1>12, \A i \in 0..(n - 1) : i \in 0..n
<1>14. g[n] \in A
  BY <1>1, <1>12
<1> QED BY <1>9, <1>13, <1>14, Zenon

-----------------------------------------------------------------------------
(* A location as a walk, and when it can be said. *)

\* What is on the way is a container that is there, or a place said.
LEMMA WayOrSaid ==
  ASSUME NEW paths \in Seq(Path), NEW at \in Path
  PROVE  at \in OnTheWay(paths) <=> IsThere(paths, at) \/ at \in ToSet(paths)
<1>1. ToSet(paths) \subseteq Path
  BY DEF ToSet
<1>2. ASSUME at \in ToSet(paths) PROVE at \in OnTheWay(paths)
  <2>1. \A i \in 1 .. Len(at) : at[i] = at[i]
    OBVIOUS
  <2>2. IsPrefix(at, at)
    BY <2>1, PrefixBegins DEF Path
  <2> QED BY <1>2, <2>2, WayIs
<1>3. ASSUME IsThere(paths, at) PROVE at \in OnTheWay(paths)
  <2>1. CASE at = <<>>
    BY <2>1, WayIs
  <2>2. CASE ChildrenAt(paths, at) # {}
    <3>1. PICK c \in Steps : Append(at, c) \in OnTheWay(paths)
      BY <2>2, ChildIs
    <3>2. IsPrefix(at, Append(at, c))
      BY Further
    <3> QED BY <3>1, <3>2, WayBefore
  <2> QED BY <1>3, <2>1, <2>2 DEF IsThere
<1>4. ASSUME at \in OnTheWay(paths), at # <<>>, at \notin ToSet(paths) PROVE IsThere(paths, at)
  <2>1. PICK p \in ToSet(paths) : IsPrefix(at, p)
    BY <1>4, WayIs
  <2>2. p \in Path /\ p # at /\ Len(at) \in Nat /\ Len(p) \in Nat
    BY <1>1, <1>4 DEF Path
  <2>3. at = SubSeq(p, 1, Len(at)) /\ Len(at) <= Len(p)
    BY <2>1, <2>2, PrefixBegins
  <2>4. Len(p) > Len(at)
    <3>1. SubSeq(p, 1, Len(p)) = p
      BY <2>2 DEF Path
    <3> QED BY <2>2, <2>3, <3>1
  <2>5. p[Len(at) + 1] \in ChildrenAt(paths, at)
    BY <2>1, <2>4 DEF ChildrenAt
  <2> QED BY <2>5 DEF IsThere
<1>5. at = <<>> => IsThere(paths, at)
  BY DEF IsThere
<1> QED BY <1>2, <1>3, <1>4, <1>5

\* The places a location goes by, from the root to where it ends.
Walks(g, array, paths, loc) ==
  /\ g[0] = <<>> /\ g[Len(loc)] = Said(array, paths, loc)
  /\ \A k \in 0 .. Len(loc) : g[k] \in Path /\ Len(g[k]) = k
  /\ \A k \in 1 .. Len(loc) : g[k] = Append(g[k - 1], StepSaid(array, paths, g[k - 1], loc[k]))
  /\ \A k \in 0 .. Len(loc) : \A j \in 0 .. k : IsPrefix(g[j], g[k])

\* Every location goes by such places.
LEMMA WalkIs ==
  ASSUME NEW array, NEW paths \in Seq(Path), NEW loc \in Seq(LocStep)
  PROVE  \E g : Walks(g, array, paths, loc)
<1> DEFINE n == Len(loc)
<1>0. n \in Nat /\ \A k \in 1 .. n : loc[k] \in LocStep
  OBVIOUS
<1>1. PICK g : /\ g[0] = <<>> /\ g[Len(loc)] = Said(array, paths, loc)
               /\ \A i \in 0..(Len(loc) - 1) : g[i] \in Path /\ g[i + 1] = Append(g[i], StepSaid(array, paths, g[i], loc[i + 1]))
               /\ g[Len(loc)] \in Path
  BY SaidFold, Zenon
<1>2. \A k \in 0 .. n : g[k] \in Path
  BY <1>0, <1>1
<1>3. ASSUME NEW k \in 1 .. n PROVE g[k] = Append(g[k - 1], StepSaid(array, paths, g[k - 1], loc[k]))
  BY <1>0, <1>1, k - 1 \in 0 .. (n - 1), (k - 1) + 1 = k
<1>4. ASSUME NEW k \in 1 .. n
      PROVE  IsPrefix(g[k - 1], g[k]) /\ Len(g[k]) = Len(g[k - 1]) + 1
  <2>1. k - 1 \in 0 .. n /\ loc[k] \in LocStep
    BY <1>0
  <2>2. StepSaid(array, paths, g[k - 1], loc[k]) \in Steps
    BY <1>2, <2>1, StepSaidIs
  <2> DEFINE a == g[k - 1]
             c == StepSaid(array, paths, a, loc[k])
  <2>3. a \in Path /\ c \in Steps /\ g[k] = Append(a, c)
    BY <1>2, <1>3, <2>1, <2>2
  <2> HIDE DEF a, c
  <2>4. IsPrefix(a, g[k]) /\ Len(g[k]) = Len(a) + 1
    BY <2>3, Further
  <2> QED BY <2>4 DEF a
<1> DEFINE T == {k \in 0 .. n : Len(g[k]) = k /\ \A j \in 0 .. k : IsPrefix(g[j], g[k])}
<1>5. \A k \in 0 .. n : k \in T
  <2>1. 0 \in T
    <3>1. IsPrefix(g[0], g[0])
      BY <1>0, <1>2, PrefixBegins
    <3>2. Len(g[0]) = 0 /\ 0 .. 0 = {0} /\ 0 \in 0 .. n
      BY <1>0, <1>1
    <3> QED BY <3>1, <3>2
  <2>2. ASSUME NEW k \in 0 .. (n - 1), k \in T PROVE k + 1 \in T
    <3> DEFINE m == k + 1
    <3>1. m \in 1 .. n /\ m - 1 = k /\ k \in 0 .. n /\ m \in 0 .. n
      BY <1>0
    <3> HIDE DEF m
    <3>2. IsPrefix(g[k], g[m]) /\ Len(g[m]) = Len(g[k]) + 1
      BY <1>4, <3>1
    <3>3. Len(g[k]) = k /\ \A j \in 0 .. k : IsPrefix(g[j], g[k])
      BY <2>2
    <3>4. ASSUME NEW j \in 0 .. k PROVE IsPrefix(g[j], g[m])
      <4>1. j \in 0 .. n /\ IsPrefix(g[j], g[k])
        BY <1>0, <3>3
      <4> QED BY <1>2, <3>1, <3>2, <4>1, PrefixOfPrefix
    <3>5. IsPrefix(g[m], g[m])
      BY <1>2, <3>1, PrefixBegins
    <3>6. \A j \in 0 .. m : j \in 0 .. k \/ j = m
      BY <3>1 DEF m
    <3>7. Len(g[m]) = m
      BY <3>2, <3>3 DEF m
    <3>8. m \in T
      BY <3>1, <3>4, <3>5, <3>6, <3>7
    <3> QED BY <3>8 DEF m
  <2> HIDE DEF T, n
  <2> QED BY <1>0, <2>1, <2>2, Reaches
<1>6. \A k \in 0 .. n : Len(g[k]) = k /\ \A j \in 0 .. k : IsPrefix(g[j], g[k])
  BY <1>5
<1> QED BY <1>1, <1>2, <1>3, <1>6 DEF Walks

\* What a location needs of its k-th step.
Goes(g, array, paths, loc, k) ==
  LET at == g[k - 1]
      step == StepSaid(array, paths, at, loc[k])
  IN  /\ at \notin ToSet(paths)
      /\ at \in OnTheWay(paths) => /\ IsArrayAt(array, paths, at) <=> step[1] = "["
                                   /\ ~loc[k].appends /\ step[1] = "[" => g[k] \in OnTheWay(paths)
      /\ g[k] \notin OnTheWay(paths) /\ k < Len(loc) => loc[k + 1].appends \/ ~isIndex(loc[k + 1].name)
      /\ k = Len(loc) => g[k] \notin OnTheWay(paths)

\* A walk by its places.
LEMMA WalkBy ==
  ASSUME NEW array, NEW paths \in Seq(Path), NEW loc \in Seq(LocStep), NEW g, Walks(g, array, paths, loc), NEW k \in 1 .. Len(loc)
  PROVE  LET path == Said(array, paths, loc)
             step == StepSaid(array, paths, g[k - 1], loc[k])
         IN  /\ path \in Path /\ Len(path) = Len(loc) /\ g[k - 1] \in Path /\ g[k] \in Path /\ step \in Steps /\ k \in Nat
             /\ loc[k] \in LocStep
             /\ SubSeq(path, 1, k - 1) = g[k - 1] /\ path[k] = step
             /\ g[k] = Append(g[k - 1], step) /\ Len(g[k - 1]) = k - 1 /\ Len(g[k]) = k
             /\ step \in ChildrenAt(paths, g[k - 1]) <=> g[k] \in OnTheWay(paths)
<1> DEFINE n == Len(loc)
           path == Said(array, paths, loc)
           at == g[k - 1]
           step == StepSaid(array, paths, at, loc[k])
<1>1. n \in Nat /\ k \in 0 .. n /\ k - 1 \in 0 .. n /\ n \in 0 .. n /\ loc[k] \in LocStep /\ k \in Nat
  OBVIOUS
<1>2. /\ path \in Path /\ Len(path) = n /\ at \in Path /\ Len(at) = k - 1 /\ g[k] \in Path /\ Len(g[k]) = k
      /\ IsPrefix(at, path) /\ IsPrefix(g[k], path) /\ g[k] = Append(at, step)
  BY <1>1 DEF Walks
<1>3. step \in Steps
  BY <1>1, <1>2, StepSaidIs
<1>4. at = SubSeq(path, 1, k - 1)
  BY <1>2, PrefixBegins
<1>5. path[k] = g[k][k]
  <2>1. k \in 1 .. Len(g[k])
    BY <1>1, <1>2
  <2> QED BY <1>2, <2>1, PrefixBegins
<1>6. g[k][k] = step
  <2>1. Append(at, step)[Len(at) + 1] = step
    BY <1>2, <1>3, Further
  <2>2. Len(at) + 1 = k
    BY <1>1, <1>2
  <2> QED BY <1>2, <2>1, <2>2
<1>7. step \in ChildrenAt(paths, at) <=> g[k] \in OnTheWay(paths)
  <2> HIDE DEF step, at
  <2> QED BY <1>2, <1>3, ChildIs
<1> QED BY <1>1, <1>2, <1>3, <1>4, <1>5, <1>6, <1>7

\* A location can be said when each of its steps can be gone.
LEMMA SayableIs ==
  ASSUME NEW array \in BOOLEAN, NEW paths \in Seq(Path), NEW loc \in Seq(LocStep), loc # <<>>,
         NEW g, Walks(g, array, paths, loc)
  PROVE  IsSayable(array, paths, loc) <=> \A k \in 1 .. Len(loc) : Goes(g, array, paths, loc, k)
<1> DEFINE n == Len(loc)
           path == Said(array, paths, loc)
           W == OnTheWay(paths)
           V == ToSet(paths)
           step(k) == StepSaid(array, paths, g[k - 1], loc[k])
           Apart == \A q \in V : ~IsPrefix(q, path) /\ ~IsPrefix(path, q)
           Fits(k) == IF IsThere(paths, g[k - 1])
                      THEN /\ IsArrayAt(array, paths, g[k - 1]) <=> step(k)[1] = "["
                           /\ ~loc[k].appends /\ step(k)[1] = "[" => g[k] \in W
                      ELSE loc[k].appends \/ ~isIndex(loc[k].name)
<1>1. n \in Nat /\ n \in 1 .. n /\ DOMAIN loc = 1 .. n
  OBVIOUS
<1>2. \A k \in 1 .. n : /\ path \in Path /\ Len(path) = n /\ g[k - 1] \in Path /\ g[k] \in Path /\ step(k) \in Steps /\ k \in Nat
                        /\ SubSeq(path, 1, k - 1) = g[k - 1] /\ path[k] = step(k)
                        /\ g[k] = Append(g[k - 1], step(k)) /\ Len(g[k - 1]) = k - 1 /\ Len(g[k]) = k
                        /\ step(k) \in ChildrenAt(paths, g[k - 1]) <=> g[k] \in W
  <2> SUFFICES ASSUME NEW k \in 1 .. Len(loc)
               PROVE  LET step1 == StepSaid(array, paths, g[k - 1], loc[k])
                      IN  /\ path \in Path /\ Len(path) = Len(loc) /\ g[k - 1] \in Path /\ g[k] \in Path /\ step1 \in Steps /\ k \in Nat
                          /\ loc[k] \in LocStep
                          /\ SubSeq(path, 1, k - 1) = g[k - 1] /\ path[k] = step1
                          /\ g[k] = Append(g[k - 1], step1) /\ Len(g[k - 1]) = k - 1 /\ Len(g[k]) = k
                          /\ step1 \in ChildrenAt(paths, g[k - 1]) <=> g[k] \in OnTheWay(paths)
    BY Zenon
  <2> QED BY WalkBy, Zenon
<1>3. V \subseteq Path
  BY DEF ToSet
<1>4. \A at \in Path : at \in W <=> IsThere(paths, at) \/ at \in V
  BY WayOrSaid
<1>5. IsSayable(array, paths, loc) <=> Apart /\ \A k \in 1 .. n : Fits(k)
  <2>1. \A at \in Path : IsArrayAt(array, paths, at) \in BOOLEAN
    BY DEF IsArrayAt
  <2>2. ASSUME NEW k \in 1 .. n
        PROVE  Fits(k) <=> IF IsThere(paths, SubSeq(path, 1, k - 1))
                           THEN /\ IsArrayAt(array, paths, SubSeq(path, 1, k - 1)) = (path[k][1] = "[")
                                /\ ~loc[k].appends /\ path[k][1] = "[" => path[k] \in ChildrenAt(paths, SubSeq(path, 1, k - 1))
                           ELSE loc[k].appends \/ ~isIndex(loc[k].name)
    <3>1. SubSeq(path, 1, k - 1) = g[k - 1] /\ path[k] = step(k) /\ g[k - 1] \in Path
          /\ (step(k) \in ChildrenAt(paths, g[k - 1]) <=> g[k] \in W)
      BY <1>2
    <3>2. IsArrayAt(array, paths, g[k - 1]) \in BOOLEAN
      BY <2>1, <3>1
    <3>3. (IsArrayAt(array, paths, g[k - 1]) = (step(k)[1] = "[")) <=> (IsArrayAt(array, paths, g[k - 1]) <=> step(k)[1] = "[")
      BY <3>2
    <3> HIDE DEF step, path, W
    <3> QED BY <3>1, <3>3
  <2> QED BY <1>1, <2>2 DEF IsSayable
<1>6. ASSUME IsSayable(array, paths, loc), NEW k \in 1 .. n PROVE Goes(g, array, paths, loc, k)
  <2>1. Apart /\ Fits(k) /\ (k < n => Fits(k + 1) /\ k + 1 \in 1 .. n)
    BY <1>1, <1>5, <1>6
  <2>2. g[k - 1] \notin V
    <3>1. IsPrefix(g[k - 1], path)
      <4>1. n \in 0 .. n /\ k - 1 \in 0 .. n
        BY <1>1
      <4>2. g[n] = path /\ \A j \in 0 .. n : IsPrefix(g[j], g[n])
        BY <4>1 DEF Walks
      <4> HIDE DEF path, n
      <4> QED BY <4>1, <4>2
    <3> QED BY <2>1, <3>1
  <2>3. g[k - 1] \in W => IsThere(paths, g[k - 1])
    BY <1>2, <1>4, <2>2
  <2>4. ASSUME k < n, g[k] \notin W PROVE loc[k + 1].appends \/ ~isIndex(loc[k + 1].name)
    <3>1. ~IsThere(paths, g[k])
      BY <1>2, <1>4, <2>4
    <3>2. (k + 1) - 1 = k
      BY <1>2
    <3> QED BY <2>1, <2>4, <3>1, <3>2
  <2>5. ASSUME k = n, g[k] \in W PROVE FALSE
    <3>1. g[k] = path
      BY <2>5 DEF Walks
    <3>2. path # <<>>
      BY <1>2, <1>1
    <3>3. PICK p \in V : IsPrefix(path, p)
      BY <1>2, <2>5, <3>1, <3>2, WayIs
    <3> QED BY <2>1, <3>3
  <2> HIDE DEF Apart, V, W
  <2>6. g[k - 1] \in W => /\ IsArrayAt(array, paths, g[k - 1]) <=> step(k)[1] = "["
                          /\ ~loc[k].appends /\ step(k)[1] = "[" => g[k] \in W
    BY <2>1, <2>3
  <2> QED BY <2>2, <2>4, <2>5, <2>6 DEF Goes, W, V
<1>7. ASSUME \A k \in 1 .. n : Goes(g, array, paths, loc, k) PROVE IsSayable(array, paths, loc)
  <2>0. \A k \in 1 .. n : /\ g[k - 1] \notin V
                          /\ g[k - 1] \in W => /\ IsArrayAt(array, paths, g[k - 1]) <=> step(k)[1] = "["
                                               /\ ~loc[k].appends /\ step(k)[1] = "[" => g[k] \in W
                          /\ g[k] \notin W /\ k < n => loc[k + 1].appends \/ ~isIndex(loc[k + 1].name)
                          /\ k = n => g[k] \notin W
    BY <1>7 DEF Goes
  <2>1. path \notin W /\ path \in Path /\ path = g[n]
    <3>1. path = g[n]
      BY DEF Walks
    <3> QED BY <1>1, <1>2, <2>0, <3>1
  <2>2. ASSUME NEW q \in V, IsPrefix(path, q) PROVE FALSE
    BY <1>3, <2>1, <2>2, WayIs
  <2>3. ASSUME NEW q \in V, IsPrefix(q, path) PROVE FALSE
    <3>1. q \in Path /\ Len(q) \in Nat
      BY <1>3 DEF Path
    <3>2. Len(q) <= n /\ q = SubSeq(path, 1, Len(q))
      BY <1>1, <1>2, <2>1, <2>3, <3>1, PrefixBegins
    <3>3. q \in W
      BY <1>4, <3>1
    <3>4. CASE Len(q) = n
      <4>1. SubSeq(path, 1, n) = path
        BY <1>1, <1>2 DEF Path
      <4> QED BY <2>1, <3>2, <3>3, <3>4, <4>1
    <3>5. CASE Len(q) < n
      <4> DEFINE k == Len(q) + 1
      <4>1. k \in 1 .. n /\ k - 1 = Len(q)
        BY <1>1, <3>1, <3>5
      <4>2. SubSeq(path, 1, k - 1) = g[k - 1] /\ g[k - 1] \notin V
        BY <1>2, <2>0, <4>1
      <4> HIDE DEF k
      <4> QED BY <3>2, <4>1, <4>2
    <3>6. Len(q) = n \/ Len(q) < n
      <4>1. Len(q) <= n /\ Len(q) \in Nat /\ n \in Nat
        BY <1>1, <3>1, <3>2, Zenon
      <4> HIDE DEF n
      <4> QED BY <4>1
    <3> QED BY <3>4, <3>5, <3>6
  <2>4. ASSUME NEW k \in 1 .. n PROVE Fits(k)
    <3>1. CASE IsThere(paths, g[k - 1])
      <4>1. g[k - 1] \in W
        BY <1>2, <1>4, <3>1
      <4> QED BY <2>0, <3>1, <4>1
    <3>2. CASE ~IsThere(paths, g[k - 1])
      <4>1. g[k - 1] \notin W
        BY <1>2, <1>4, <2>0, <3>2
      <4>2. k # 1
        <5>1. g[0] = <<>>
          BY DEF Walks
        <5> QED BY <3>2, <5>1 DEF IsThere
      <4> DEFINE j == k - 1
      <4>3. j \in 1 .. n /\ j < n /\ j + 1 = k
        BY <1>1, <1>2, <4>2
      <4> HIDE DEF j
      <4>4. g[j] \notin W
        BY <4>1 DEF j
      <4>5. loc[j + 1].appends \/ ~isIndex(loc[j + 1].name)
        BY <2>0, <4>3, <4>4
      <4> QED BY <3>2, <4>3, <4>5
    <3> QED BY <3>1, <3>2
  <2> QED BY <1>5, <2>2, <2>3, <2>4
<1> QED BY <1>6, <1>7

-----------------------------------------------------------------------------
(* What holds of every plan. *)

\* The nodes there may be.
Kinds == {"value", "array", "object"}
NodeSet == [path : Path, kind : Kinds, by : Nat]

\* What the arguments so far say, and their plan.  No place is on the way to another,
\* the children of an array are numbered from zero, and the root is what it was made as.
Apart(paths) == \A i, j \in DOMAIN paths : IsPrefix(paths[i], paths[j]) => i = j
Numbered(array, paths) ==
  \A at \in OnTheWay(paths) :
    IsArrayAt(array, paths, at) => \E c \in Nat : ChildrenAt(paths, at) = {Index(i) : i \in 0 .. (c - 1)}
Rooted(array, paths) == ~array => \A c \in ChildrenAt(paths, <<>>) : c[1] # "["
PlanInv(nodes, array, paths) ==
  /\ paths \in Seq(Path) /\ nodes \in Seq(NodeSet) /\ <<>> \notin ToSet(paths)
  /\ IsPlanOf(nodes, array, paths)
  /\ Apart(paths) /\ Numbered(array, paths) /\ Rooted(array, paths)

\* A path begins with itself.
LEMMA PrefixOfItself ==
  ASSUME NEW p \in Path
  PROVE  IsPrefix(p, p)
<1>1. Len(p) \in Nat /\ \A i \in 1 .. Len(p) : p[i] = p[i]
  BY DEF Path
<1> QED BY <1>1, PrefixBegins

\* A path that begins with one as long is that one.
LEMMA PrefixAsLong ==
  ASSUME NEW p \in Path, NEW q \in Path, IsPrefix(p, q), Len(p) = Len(q)
  PROVE  p = q
<1>1. p = SubSeq(q, 1, Len(q))
  BY PrefixBegins
<1>2. SubSeq(q, 1, Len(q)) = q
  BY DEF Path
<1> QED BY <1>1, <1>2

\* What is in a container is a step from it.
LEMMA InsideIs ==
  ASSUME NEW node \in NodeSet, NEW at \in Path
  PROVE  /\ IsIn(node, at) => /\ Last(node.path) \in Steps /\ node.path = Append(at, Last(node.path))
         /\ \A c \in Steps : node.path = Append(at, c) => IsIn(node, at) /\ Last(node.path) = c
<1> DEFINE q == node.path
           c == q[Len(at) + 1]
<1>1. q \in Path /\ Len(q) \in Nat /\ Len(at) \in Nat
  BY DEF NodeSet, Path
<1>2. ASSUME IsIn(node, at) PROVE Last(node.path) \in Steps /\ node.path = Append(at, Last(node.path))
  <2>1. Len(q) = Len(at) + 1 /\ IsPrefix(at, q)
    BY <1>2 DEF IsIn
  <2>2. c \in Steps /\ SubSeq(q, 1, Len(at) + 1) = Append(at, c)
    BY <1>1, <2>1, IsFurther
  <2>3. SubSeq(q, 1, Len(q)) = q
    BY <1>1 DEF Path
  <2>4. Last(q) = c
    BY <2>1 DEF Last
  <2> QED BY <2>1, <2>2, <2>3, <2>4
<1>3. ASSUME NEW d \in Steps, node.path = Append(at, d) PROVE IsIn(node, at) /\ Last(node.path) = d
  <2> DEFINE s == Append(at, d)
  <2>1. Len(s) = Len(at) + 1 /\ IsPrefix(at, s) /\ Last(s) = d
    BY Further
  <2> QED BY <1>3, <2>1 DEF IsIn
<1> QED BY <1>2, <1>3

\* What there is of the nodes of a plan.
LEMMA NodesAre ==
  ASSUME NEW nodes, NEW array, NEW paths, PlanInv(nodes, array, paths)
  PROVE  /\ \A at : IsPlanned(nodes, at) <=> at \in OnTheWay(paths)
         /\ \A at \in OnTheWay(paths) : NodeAt(nodes, at).kind = KindSaid(array, paths, at)
         /\ \A i, j \in DOMAIN nodes : nodes[i].path = nodes[j].path => i = j
         /\ \A i \in DOMAIN nodes : nodes[i] \in NodeSet /\ nodes[i].path \in OnTheWay(paths)
<1>1. {nodes[i].path : i \in DOMAIN nodes} = OnTheWay(paths)
  BY DEF PlanInv, IsPlanOf, OnTheWay
<1>2. ASSUME NEW at PROVE IsPlanned(nodes, at) <=> at \in OnTheWay(paths)
  BY <1>1 DEF IsPlanned
<1>3. ASSUME NEW at \in OnTheWay(paths) PROVE NodeAt(nodes, at).kind = KindSaid(array, paths, at)
  <2> DEFINE i == CHOOSE i \in DOMAIN nodes : nodes[i].path = at
  <2>1. i \in DOMAIN nodes /\ nodes[i].path = at
    BY <1>1
  <2>2. nodes[i].kind = KindSaid(array, paths, nodes[i].path)
    BY <2>1 DEF PlanInv, IsPlanOf
  <2> HIDE DEF i
  <2> QED BY <2>1, <2>2 DEF NodeAt, i
<1>4. \A i \in DOMAIN nodes : nodes[i] \in NodeSet /\ nodes[i].path \in OnTheWay(paths)
  BY <1>1 DEF PlanInv
<1>5. ASSUME NEW i \in DOMAIN nodes, NEW j \in DOMAIN nodes, nodes[i].path = nodes[j].path, i # j PROVE FALSE
  <2>1. \A a, b \in DOMAIN nodes : a < b => ~IsPrefix(nodes[b].path, nodes[a].path)
    BY DEF PlanInv, IsPlanOf
  <2>2. IsPrefix(nodes[j].path, nodes[i].path) /\ IsPrefix(nodes[i].path, nodes[j].path)
    BY <1>4, <1>5, PrefixOfItself DEF NodeSet
  <2>3. DOMAIN nodes = 1 .. Len(nodes) /\ Len(nodes) \in Nat
    BY DEF PlanInv
  <2>4. i < j \/ j < i
    BY <1>5, <2>3
  <2> QED BY <2>1, <2>2, <2>4
<1> QED BY <1>2, <1>3, <1>4, <1>5

\* A container has a node for each of its children.
LEMMA InsideCounts ==
  ASSUME NEW nodes, NEW array, NEW paths, PlanInv(nodes, array, paths), NEW at \in Path
  PROVE  /\ IsFiniteSet(Inside(nodes, at))
         /\ Cardinality(Inside(nodes, at)) = Cardinality(ChildrenAt(paths, at))
         /\ Cardinality(Inside(nodes, at)) \in Nat
<1> DEFINE D == Inside(nodes, at)
           C == ChildrenAt(paths, at)
           b == [i \in D |-> Last(nodes[i].path)]
<1>0. paths \in Seq(Path) /\ nodes \in Seq(NodeSet)
  BY DEF PlanInv
<1>1. IsFiniteSet(D)
  <2>1. IsFiniteSet(1 .. Len(nodes))
    BY <1>0, FS_Interval
  <2>2. D \in SUBSET (1 .. Len(nodes))
    BY <1>0 DEF Inside
  <2> QED BY <2>1, <2>2, FS_Subset
<1>2. \A i \in D : i \in DOMAIN nodes /\ nodes[i] \in NodeSet /\ IsIn(nodes[i], at) /\ nodes[i].path \in OnTheWay(paths)
  BY NodesAre DEF Inside
<1>3. \A i \in D : b[i] \in Steps /\ nodes[i].path = Append(at, b[i])
  BY <1>2, InsideIs
<1>4. \A i \in D : b[i] \in C
  <2> HIDE DEF b, D
  <2>1. \A i \in D : b[i] \in Steps /\ Append(at, b[i]) \in OnTheWay(paths)
    BY <1>2, <1>3
  <2> QED BY <1>0, <2>1, ChildIs
<1>5. ASSUME NEW i \in D, NEW j \in D, b[i] = b[j] PROVE i = j
  <2>1. nodes[i].path = nodes[j].path
    BY <1>3, <1>5
  <2> QED BY <1>2, <2>1, NodesAre
<1>6. ASSUME NEW c \in C PROVE \E i \in D : b[i] = c
  <2>1. c \in Steps /\ Append(at, c) \in OnTheWay(paths)
    BY <1>0, ChildIs
  <2>2. PICK i \in DOMAIN nodes : nodes[i].path = Append(at, c)
    BY <2>1, NodesAre DEF IsPlanned
  <2>3. IsIn(nodes[i], at) /\ Last(nodes[i].path) = c
    <3>1. nodes[i] \in NodeSet
      BY <2>2, NodesAre
    <3> QED BY <2>1, <2>2, <3>1, InsideIs
  <2>4. i \in D
    BY <2>3 DEF Inside
  <2> QED BY <2>3, <2>4
<1> HIDE DEF D, C
<1>7. b \in Bijection(D, C)
  <2>1. b \in [D -> C]
    BY <1>4
  <2> HIDE DEF b
  <2>2. b \in Injection(D, C)
    BY <1>5, <2>1 DEF Injection, IsInjective
  <2>3. b \in Surjection(D, C)
    BY <1>6, <2>1 DEF Surjection
  <2> QED BY <2>2, <2>3 DEF Bijection
<1>8. Cardinality(C) = Cardinality(D)
  BY <1>1, <1>7, FS_Bijection DEF ExistsBijection
<1>9. Cardinality(D) \in Nat
  BY <1>1, FS_CardinalityType
<1> QED BY <1>1, <1>8, <1>9 DEF D, C

\* There are as many indexes as are counted.
LEMMA IndexesCount ==
  ASSUME NEW c \in Nat
  PROVE  /\ Cardinality({Index(i) : i \in 0 .. (c - 1)}) = c
         /\ \A i \in Nat : Index(i) \in {Index(k) : k \in 0 .. (c - 1)} <=> i < c
         /\ {Index(i) : i \in 0 .. (c - 1)} \union {Index(c)} = {Index(i) : i \in 0 .. ((c + 1) - 1)}
<1> DEFINE D == 0 .. (c - 1)
           C == {Index(i) : i \in D}
           b == [i \in D |-> Index(i)]
<1>1. IsFiniteSet(D) /\ Cardinality(D) = c
  BY FS_Interval
<1>2. \A i, j \in Nat : Index(i) = Index(j) => i = j
  BY DEF Index
<1>3. \A i \in D : i \in Nat
  OBVIOUS
<1>4. b \in Bijection(D, C)
  <2>1. b \in [D -> C]
    OBVIOUS
  <2>2. \A i, j \in D : b[i] = b[j] => i = j
    BY <1>2, <1>3
  <2>3. \A d \in C : \E i \in D : b[i] = d
    OBVIOUS
  <2> HIDE DEF b, C, D
  <2>4. b \in Injection(D, C)
    BY <2>1, <2>2 DEF Injection, IsInjective
  <2>5. b \in Surjection(D, C)
    BY <2>1, <2>3 DEF Surjection
  <2> QED BY <2>4, <2>5 DEF Bijection
<1>5. Cardinality(C) = c
  <2> HIDE DEF D, C, b
  <2> QED BY <1>1, <1>4, FS_Bijection DEF ExistsBijection
<1>6. \A i \in Nat : Index(i) \in C <=> i < c
  BY <1>2, <1>3
<1>7. C \union {Index(c)} = {Index(i) : i \in 0 .. ((c + 1) - 1)}
  <2>1. 0 .. ((c + 1) - 1) = D \union {c}
    OBVIOUS
  <2> HIDE DEF D
  <2> QED BY <2>1
<1> QED BY <1>5, <1>6, <1>7

-----------------------------------------------------------------------------
(* The steps of a location. *)

\* The next argument's step, from where the steps before it led.
Moves(at, loc, i, by) == IF at.ok THEN Stepped(at, loc, i, by) ELSE at
States == [ok : {TRUE}, plan : Seq(NodeSet), path : Path] \union {Usage}

\* A node reached is a state of placing, and keeps its plan and place.
LEMMA ReachedIs ==
  ASSUME NEW nodes \in Seq(NodeSet), NEW path \in Path
  PROVE  /\ Reached(nodes, path) \in States
         /\ Reached(nodes, path).ok /\ Reached(nodes, path).plan = nodes /\ Reached(nodes, path).path = path
  BY DEF Reached, States

\* What is made is reached, or refused.
LEMMA CreateTyped ==
  ASSUME NEW nodes \in Seq(NodeSet), NEW path \in Path, NEW loc, NEW i, NEW by \in Nat
  PROVE  create(nodes, path, loc, i, by) \in States
<1>1. ASSUME NEW kind \in Kinds PROVE Reached(Append(nodes, Node(path, kind, by)), path) \in States
  <2>1. Node(path, kind, by) \in NodeSet
    BY DEF Node, NodeSet
  <2> DEFINE next == Append(nodes, Node(path, kind, by))
  <2>2. next \in Seq(NodeSet)
    BY <2>1, AppendProperties
  <2> HIDE DEF next
  <2>3. Reached(next, path) \in States
    BY <2>2, ReachedIs
  <2> QED BY <2>3 DEF next
<1>2. Usage \in States
  BY DEF States
<1>3. create(nodes, path, loc, i, by)
      = IF i = Len(loc) THEN Reached(Append(nodes, Node(path, "value", by)), path)
        ELSE IF loc[i + 1].appends THEN Reached(Append(nodes, Node(path, "array", by)), path)
        ELSE IF isIndex(loc[i + 1].name) THEN Usage
        ELSE Reached(Append(nodes, Node(path, "object", by)), path)
  BY Zenon DEF create
<1>4. /\ Reached(Append(nodes, Node(path, "value", by)), path) \in States
      /\ Reached(Append(nodes, Node(path, "array", by)), path) \in States
      /\ Reached(Append(nodes, Node(path, "object", by)), path) \in States
  <2>1. "value" \in Kinds /\ "array" \in Kinds /\ "object" \in Kinds
    BY DEF Kinds
  <2> QED BY <1>1, <2>1, Zenon
<1> QED BY <1>2, <1>3, <1>4, Zenon

\* What is entered is reached, or refused.
LEMMA EnterTyped ==
  ASSUME NEW nodes \in Seq(NodeSet), NEW path \in Path, NEW loc, NEW i
  PROVE  Enter(nodes, path, loc, i) \in States
<1>2. Usage \in States
  BY DEF States
<1> QED BY <1>2, ReachedIs DEF Enter

\* Every step of a location leads to such a state.
LEMMA MovesTyped ==
  ASSUME NEW at \in States, NEW loc \in Seq(LocStep), NEW i \in 1 .. Len(loc), NEW by \in Nat
  PROVE  Moves(at, loc, i, by) \in States
<1>1. CASE ~at.ok
  BY <1>1 DEF Moves
<1>2. CASE at.ok
  <2>1. at.plan \in Seq(NodeSet) /\ at.path \in Path
    <3>1. ~Usage.ok
      BY DEF Usage
    <3> QED BY <1>2, <3>1 DEF States
  <2>2. loc[i].name \in Seq(STRING)
    <3>1. loc[i] \in LocStep
      OBVIOUS
    <3> QED BY <3>1 DEF LocStep
  <2>0. Usage \in States
    BY DEF States
  <2>3. intoObject(at.plan, at.path, loc, i, by) \in States
    <3> DEFINE member == Append(at.path, Key(loc[i].name))
    <3>1. Key(loc[i].name) \in Steps
      BY <2>2 DEF Steps
    <3>2. member \in Path
      BY <2>1, <3>1, Further
    <3> HIDE DEF member
    <3>3. Enter(at.plan, member, loc, i) \in States /\ create(at.plan, member, loc, i, by) \in States
      BY <2>1, <3>2, EnterTyped, CreateTyped
    <3> QED BY <2>0, <3>3 DEF intoObject, member
  <2>4. intoArray(at.plan, at.path, loc, i, by) \in States
    <3> DEFINE size == Cardinality(Inside(at.plan, at.path))
               end == Append(at.path, Index(size))
               there == Append(at.path, Index(Number(loc[i].name)))
    <3>1. size \in Nat
      <4>1. IsFiniteSet(1 .. Len(at.plan))
        BY <2>1, FS_Interval
      <4>2. Inside(at.plan, at.path) \in SUBSET (1 .. Len(at.plan))
        BY <2>1 DEF Inside
      <4> QED BY <4>1, <4>2, FS_Subset, FS_CardinalityType
    <3>2. end \in Path
      <4>1. Index(size) \in Steps
        BY <3>1 DEF Steps
      <4> QED BY <2>1, <4>1, Further
    <3>3. isIndex(loc[i].name) => there \in Path
      <4>1. isIndex(loc[i].name) => Index(Number(loc[i].name)) \in Steps
        BY <2>2, NumberIsNat DEF Steps
      <4> QED BY <2>1, <4>1, Further
    <3> HIDE DEF end, there
    <3>4. create(at.plan, end, loc, i, by) \in States
      BY <2>1, <3>2, CreateTyped
    <3>5. isIndex(loc[i].name) => Enter(at.plan, there, loc, i) \in States
      BY <2>1, <3>3, EnterTyped
    <3> QED BY <2>0, <3>4, <3>5 DEF intoArray, end, there
  <2> QED BY <1>2, <2>0, <2>3, <2>4 DEF Moves, Stepped
<1> QED BY <1>1, <1>2

\* An argument is placed step by step.
LEMMA PlaceFold ==
  ASSUME NEW nodes \in Seq(NodeSet), NEW placement, placement.loc \in Seq(LocStep), NEW by \in Nat
  PROVE  \E g : /\ g[0] = Reached(nodes, <<>>) /\ g[Len(placement.loc)] = place(nodes, placement, by)
                /\ \A i \in 0..(Len(placement.loc) - 1) : g[i] \in States /\ g[i + 1] = Moves(g[i], placement.loc, i + 1, by)
                /\ g[Len(placement.loc)] \in States
<1> DEFINE n == Len(placement.loc)
           pos == [i \in DOMAIN placement.loc |-> i]
           S == DOMAIN pos
           A == States
           F == [p \in A \X (1..n) |-> Moves(p[1], placement.loc, p[2], by)]
<1>1. n \in Nat /\ S = 1..n /\ \A i \in 1..n : pos[i] = i
  OBVIOUS
<1>2. ASSUME NEW x \in A, NEW k \in 1..n PROVE Moves(x, placement.loc, k, by) \in A
  BY <1>1, MovesTyped
<1>3. F \in [A \X (1..n) -> A]
  <2> HIDE DEF A
  <2> QED BY <1>2
<1>4. Reached(nodes, <<>>) \in A
  <2>1. <<>> \in Path
    BY DEF Path
  <2> QED BY <2>1, ReachedIs
<1>5. PICK h \in [SUBSET (1..n) -> A] : IsTable(h, n, Reached(nodes, <<>>), F)
  <2> HIDE DEF F, n, A
  <2> QED BY <1>1, <1>3, <1>4, TableExists, Zenon
<1> HIDE DEF pos
<1>6. ASSUME NEW T \in SUBSET S PROVE h[T] = IF T = {} THEN Reached(nodes, <<>>) ELSE Moves(h[T \ {Max(T)}], placement.loc, pos[Max(T)], by)
  <2>1. CASE T = {}
    BY <1>1, <1>5, <2>1 DEF IsTable
  <2>2. CASE T # {}
    <3>1. Max(T) \in 1..n /\ T \ {Max(T)} \in SUBSET (1..n)
      BY <1>1, <2>2, MaxIsLast
    <3>2. h[T] = F[<<h[T \ {Max(T)}], Max(T)>>]
      BY <1>1, <1>5, <2>2 DEF IsTable
    <3>3. h[T \ {Max(T)}] \in A
      BY <1>5, <3>1
    <3>4. <<h[T \ {Max(T)}], Max(T)>> \in A \X (1..n)
      BY <3>1, <3>3
    <3> HIDE DEF A
    <3> QED BY <1>1, <2>2, <3>1, <3>2, <3>4
  <2> QED BY <2>1, <2>2
<1>7. h = [T \in SUBSET S |-> IF T = {} THEN Reached(nodes, <<>>) ELSE Moves(h[T \ {Max(T)}], placement.loc, pos[Max(T)], by)]
  <2> HIDE DEF S, A
  <2> QED BY <1>1, <1>5, <1>6
<1>7a. place(nodes, placement, by)
       = FoldLeft(LAMBDA at, i : IF at.ok THEN Stepped(at, placement.loc, i, by) ELSE at, Reached(nodes, <<>>), pos)
  BY Zenon DEF place, FoldLeftDomain, pos
<1>8. PICK f : /\ f = [T \in SUBSET S |-> IF T = {} THEN Reached(nodes, <<>>) ELSE Moves(f[T \ {Max(T)}], placement.loc, pos[Max(T)], by)]
               /\ place(nodes, placement, by) = f[S]
  BY <1>7a, <1>7, Zenon DEF FoldLeft, MapThenFoldSet, Moves
<1> DEFINE g == [i \in 0..n |-> f[1..i]]
<1>9. g[0] = Reached(nodes, <<>>) /\ g[n] = place(nodes, placement, by)
  BY <1>1, <1>8
<1>10. ASSUME NEW i \in 0..(n - 1) PROVE g[i + 1] = Moves(g[i], placement.loc, i + 1, by)
  <2> DEFINE j == i + 1
  <2>1. j \in 1..n /\ j - 1 = i /\ i \in 0..n /\ j \in 0..n
    BY <1>1
  <2> HIDE DEF j
  <2>2. 1..j \in SUBSET S /\ 1..j # {} /\ Max(1..j) = j /\ (1..j) \ {Max(1..j)} = 1..i
    BY <1>1, <2>1, PrefixIs
  <2>3. f[1..j] = Moves(f[(1..j) \ {Max(1..j)}], placement.loc, pos[Max(1..j)], by)
    BY <1>8, <2>2
  <2>4. pos[j] = j
    BY <1>1, <2>1
  <2>5. f[1..j] = Moves(f[1..i], placement.loc, j, by)
    BY <2>2, <2>3, <2>4, Zenon
  <2> QED BY <2>1, <2>5, Zenon DEF j
<1> HIDE DEF g
<1> DEFINE T == {i \in 0..n : g[i] \in A}
<1>11. \A i \in 0..n : i \in T
  <2>1. 0 \in T
    BY <1>1, <1>4, <1>9
  <2>2. ASSUME NEW i \in 0..(n - 1), i \in T PROVE i + 1 \in T
    <3>1. g[i] \in A /\ i + 1 \in 1..n /\ i + 1 \in 0..n
      BY <1>1, <2>2
    <3>2. Moves(g[i], placement.loc, i + 1, by) \in A
      BY <1>2, <3>1
    <3> QED BY <1>10, <3>1, <3>2
  <2> HIDE DEF T
  <2> QED BY <1>1, <2>1, <2>2, Reaches
<1>12. \A i \in 0..n : g[i] \in A
  BY <1>11
<1>13. \A i \in 0..(n - 1) : g[i] \in A /\ g[i + 1] = Moves(g[i], placement.loc, i + 1, by)
  BY <1>1, <1>10, <1>12, \A i \in 0..(n - 1) : i \in 0..n
<1>14. g[n] \in A
  BY <1>1, <1>12
<1> QED BY <1>9, <1>13, <1>14, Zenon

\* How far a location is on the way to what there is.
IsEdge(e, g, paths, n) == e \in 0 .. n /\ \A j \in 0 .. n : g[j] \in OnTheWay(paths) <=> j <= e

\* What its k-th step makes when it is past that, and the plan after k steps.
NewKind(loc, k) == IF k = Len(loc) THEN "value" ELSE IF loc[k + 1].appends THEN "array" ELSE "object"
Grown(nodes, g, loc, e, k, by) ==
  [i \in 1 .. (Len(nodes) + (IF k > e THEN k - e ELSE 0)) |->
     IF i <= Len(nodes) THEN nodes[i] ELSE Node(g[e + (i - Len(nodes))], NewKind(loc, e + (i - Len(nodes))), by)]

\* An argument placed next to those before it: its location goes by g, and e of its steps
\* are there already.
Placing(nodes, array, paths, loc, g, e, by) ==
  /\ array \in BOOLEAN /\ loc \in Seq(LocStep) /\ loc # <<>> /\ by \in Nat
  /\ PlanInv(nodes, array, paths)
  /\ Walks(g, array, paths, loc) /\ IsEdge(e, g, paths, Len(loc))

\* A location is on the way up to one of its steps, and off it from there.
LEMMA EdgeIs ==
  ASSUME NEW array, NEW paths \in Seq(Path), NEW loc \in Seq(LocStep), NEW g, Walks(g, array, paths, loc)
  PROVE  \E e : IsEdge(e, g, paths, Len(loc))
<1> DEFINE n == Len(loc)
           T == {j \in 0 .. (n + 1) : j = n + 1 \/ g[j] \notin OnTheWay(paths)}
<1>1. n \in Nat
  OBVIOUS
<1>2. T \in SUBSET Nat /\ n + 1 \in T
  BY <1>1
<1>3. PICK d \in T : \A m \in T : d <= m
  BY <1>2, Least
<1>4. g[0] \in OnTheWay(paths)
  BY WayIs DEF Walks
<1>5. d \in 1 .. (n + 1)
  <2>1. d \in 0 .. (n + 1)
    OBVIOUS
  <2>2. d # 0
    BY <1>1, <1>4
  <2> QED BY <1>1, <2>1, <2>2
<1>6. ASSUME NEW j \in 0 .. n, j < d PROVE g[j] \in OnTheWay(paths)
  BY <1>1, <1>3, <1>5, <1>6
<1>7. ASSUME NEW j \in 0 .. n, j >= d PROVE g[j] \notin OnTheWay(paths)
  <2>1. d \in 0 .. n /\ g[d] \notin OnTheWay(paths) /\ d \in 0 .. j
    BY <1>1, <1>5, <1>7
  <2>2. g[d] \in Path /\ IsPrefix(g[d], g[j])
    BY <2>1 DEF Walks
  <2> QED BY <2>1, <2>2, WayBefore
<1> DEFINE e == d - 1
<1>8. e \in 0 .. n /\ \A j \in 0 .. n : j <= e <=> j < d
  BY <1>1, <1>5
<1>9. \A j \in 0 .. n : j < d \/ j >= d
  BY <1>1, <1>5
<1> HIDE DEF e, T
<1>10. IsEdge(e, g, paths, n)
  BY <1>6, <1>7, <1>8, <1>9 DEF IsEdge
<1> QED BY <1>10

\* What is known where an argument is placed.
LEMMA PlacingIs ==
  ASSUME NEW nodes, NEW array, NEW paths, NEW loc, NEW g, NEW e, NEW by, Placing(nodes, array, paths, loc, g, e, by)
  PROVE  /\ paths \in Seq(Path) /\ nodes \in Seq(NodeSet) /\ Len(nodes) \in Nat /\ DOMAIN nodes = 1 .. Len(nodes)
         /\ Len(loc) \in Nat \ {0} /\ e \in 0 .. Len(loc)
         /\ \A k \in 0 .. Len(loc) : /\ g[k] \in Path /\ Len(g[k]) = k /\ (g[k] \in OnTheWay(paths) <=> k <= e)
                                     /\ \A j \in 0 .. k : IsPrefix(g[j], g[k])
         /\ \A k \in 1 .. Len(loc) : loc[k] \in LocStep /\ k - 1 \in 0 .. Len(loc)
         /\ ToSet(paths) \subseteq OnTheWay(paths) /\ g[0] = <<>>
<1>1. paths \in Seq(Path) /\ nodes \in Seq(NodeSet)
  BY DEF Placing, PlanInv
<1>2. loc \in Seq(LocStep) /\ loc # <<>>
  BY DEF Placing
<1>3. ToSet(paths) \subseteq OnTheWay(paths)
  <2> SUFFICES ASSUME NEW at \in ToSet(paths) PROVE at \in OnTheWay(paths)
    OBVIOUS
  <2>1. at \in Path
    BY <1>1 DEF ToSet
  <2> QED BY <1>1, <2>1, WayOrSaid
<1>4. e \in 0 .. Len(loc) /\ \A j \in 0 .. Len(loc) : g[j] \in OnTheWay(paths) <=> j <= e
  BY DEF Placing, IsEdge
<1>5. /\ g[0] = <<>>
      /\ \A k \in 0 .. Len(loc) : g[k] \in Path /\ Len(g[k]) = k
      /\ \A k \in 0 .. Len(loc) : \A j \in 0 .. k : IsPrefix(g[j], g[k])
  BY DEF Placing, Walks
<1>6. Len(loc) \in Nat \ {0} /\ \A k \in 1 .. Len(loc) : loc[k] \in LocStep /\ k - 1 \in 0 .. Len(loc)
  BY <1>2
<1> QED BY <1>1, <1>3, <1>4, <1>5, <1>6

\* The plan grows by a node for each step that is new.
LEMMA GrownIs ==
  ASSUME NEW nodes, NEW array, NEW paths, NEW loc, NEW g, NEW e, NEW by, Placing(nodes, array, paths, loc, g, e, by), NEW k \in 0 .. Len(loc)
  PROVE  LET P == Grown(nodes, g, loc, e, k, by)
             m == Len(nodes)
         IN  /\ P \in Seq(NodeSet) /\ Len(P) = m + (IF k > e THEN k - e ELSE 0) /\ DOMAIN P = 1 .. Len(P)
             /\ \A i \in 1 .. m : P[i] = nodes[i]
             /\ \A i \in DOMAIN P : i > m => /\ e + (i - m) \in 1 .. k /\ e + (i - m) > e
                                             /\ P[i] = Node(g[e + (i - m)], NewKind(loc, e + (i - m)), by)
             /\ k <= e => P = nodes
             /\ k > e => P = Append(Grown(nodes, g, loc, e, k - 1, by), Node(g[k], NewKind(loc, k), by))
<1> DEFINE n == Len(loc)
           m == Len(nodes)
           P == Grown(nodes, g, loc, e, k, by)
           x == IF k > e THEN k - e ELSE 0
<1>1. /\ n \in Nat \ {0} /\ e \in 0 .. n /\ nodes \in Seq(NodeSet) /\ m \in Nat /\ k \in Nat /\ x \in Nat
      /\ \A j \in 0 .. n : g[j] \in Path
      /\ by \in Nat
  <2>1. by \in Nat
    BY DEF Placing
  <2>2. n \in Nat \ {0} /\ e \in 0 .. n /\ nodes \in Seq(NodeSet) /\ m \in Nat /\ \A j \in 0 .. n : g[j] \in Path
    BY PlacingIs
  <2>3. k \in Nat /\ x \in Nat
    BY <2>2
  <2> QED BY <2>1, <2>2, <2>3
<1>2. \A j \in 0 .. n : Node(g[j], NewKind(loc, j), by) \in NodeSet
  BY <1>1 DEF Node, NodeSet, NewKind, Kinds
<1>3. P = [i \in 1 .. (m + x) |-> IF i <= m THEN nodes[i] ELSE Node(g[e + (i - m)], NewKind(loc, e + (i - m)), by)]
  BY DEF Grown
<1>4. \A i \in 1 .. (m + x) : i > m => e + (i - m) \in 1 .. k /\ e + (i - m) > e /\ e + (i - m) \in 0 .. n
  BY <1>1
<1>5. \A i \in 1 .. m : nodes[i] \in NodeSet
  BY <1>1
<1> HIDE DEF P, x
<1>6. \A i \in 1 .. (m + x) : P[i] \in NodeSet
  <2> SUFFICES ASSUME NEW i \in 1 .. (m + x) PROVE P[i] \in NodeSet
    OBVIOUS
  <2>1. CASE i <= m
    BY <1>1, <1>3, <1>5, <2>1
  <2>2. CASE i > m
    <3>1. P[i] = Node(g[e + (i - m)], NewKind(loc, e + (i - m)), by)
      BY <1>1, <1>3, <2>2
    <3> QED BY <1>2, <1>4, <2>2, <3>1
  <2> QED BY <1>1, <2>1, <2>2
<1>7. P \in Seq(NodeSet) /\ Len(P) = m + x /\ DOMAIN P = 1 .. Len(P)
  <2>1. m + x \in Nat /\ P = [i \in 1 .. (m + x) |-> P[i]]
    BY <1>1, <1>3
  <2>2. P \in [1 .. (m + x) -> NodeSet]
    BY <1>6, <2>1
  <2> QED BY <2>1, <2>2, SeqDef
<1>8. /\ \A i \in 1 .. m : P[i] = nodes[i]
      /\ \A i \in 1 .. (m + x) : i > m => P[i] = Node(g[e + (i - m)], NewKind(loc, e + (i - m)), by)
  BY <1>1, <1>3
<1>9. ASSUME k <= e PROVE P = nodes
  <2>1. x = 0
    BY <1>1, <1>9 DEF x
  <2>2. Len(P) = Len(nodes) /\ \A i \in 1 .. Len(nodes) : P[i] = nodes[i]
    BY <1>1, <1>7, <1>8, <2>1
  <2> QED BY <1>1, <1>7, <2>2, SeqEqual
<1>10. ASSUME k > e PROVE P = Append(Grown(nodes, g, loc, e, k - 1, by), Node(g[k], NewKind(loc, k), by))
  <2> DEFINE z == k - 1 - e
             R == Grown(nodes, g, loc, e, k - 1, by)
             node == Node(g[k], NewKind(loc, k), by)
  <2>1. z \in Nat /\ x = z + 1 /\ (IF k - 1 > e THEN (k - 1) - e ELSE 0) = z
    BY <1>1, <1>10 DEF x
  <2>2. R = [i \in 1 .. (m + z) |-> IF i <= m THEN nodes[i] ELSE Node(g[e + (i - m)], NewKind(loc, e + (i - m)), by)]
    BY <2>1 DEF Grown
  <2> HIDE DEF R
  <2>3. \A i \in 1 .. (m + z) : R[i] = P[i]
    BY <1>1, <1>3, <2>1, <2>2
  <2>4. R \in Seq(NodeSet) /\ Len(R) = m + z
    <3>1. m + z \in Nat /\ \A i \in 1 .. (m + z) : R[i] \in NodeSet
      <4>1. m + z \in Nat /\ m + z <= m + x
        BY <1>1, <2>1
      <4>2. \A i \in 1 .. (m + z) : i \in 1 .. (m + x)
        BY <4>1, <1>1
      <4> HIDE DEF m, z, NodeSet
      <4> QED BY <1>6, <2>3, <4>1, <4>2
    <3>2. R = [i \in 1 .. (m + z) |-> R[i]]
      BY <2>2
    <3>3. R \in [1 .. (m + z) -> NodeSet]
      BY <3>1, <3>2
    <3> QED BY <3>1, <3>3, SeqDef
  <2>5. node \in NodeSet
    BY <1>1, <1>2
  <2> HIDE DEF node
  <2>6. /\ Append(R, node) \in Seq(NodeSet) /\ Len(Append(R, node)) = m + z + 1
        /\ \A i \in 1 .. (m + z) : Append(R, node)[i] = R[i]
        /\ Append(R, node)[m + z + 1] = node
    BY <2>4, <2>5, AppendProperties
  <2>7. P[m + z + 1] = node
    <3>1. m + z + 1 \in 1 .. (m + x) /\ m + z + 1 > m /\ e + ((m + z + 1) - m) = k
      BY <1>1, <2>1
    <3> QED BY <1>8, <3>1 DEF node
  <2>8. \A i \in 1 .. (m + z + 1) : P[i] = Append(R, node)[i]
    <3>1. \A i \in 1 .. (m + z + 1) : i \in 1 .. (m + z) \/ i = m + z + 1
      <4>1. m + z \in Nat
        BY <1>1, <2>1
      <4> HIDE DEF m, z
      <4> QED BY <4>1
    <3> HIDE DEF m, z
    <3> QED BY <2>3, <2>6, <2>7, <3>1
  <2>9. P = Append(R, node)
    <3>1. Len(P) = m + z + 1
      BY <1>1, <1>7, <2>1
    <3> DEFINE s == Append(R, node)
    <3> HIDE DEF s
    <3>2. s \in Seq(NodeSet) /\ Len(s) = Len(P) /\ \A i \in 1 .. Len(P) : P[i] = s[i]
      BY <2>6, <2>8, <3>1 DEF s
    <3>3. P = s
      BY <1>7, <3>2, SeqEqual
    <3> QED BY <3>3 DEF s
  <2> QED BY <2>9 DEF R, node
<1> QED BY <1>4, <1>7, <1>8, <1>9, <1>10 DEF P, x

-----------------------------------------------------------------------------
(* Where each of them leads. *)

\* Where a step leads.
LEMMA StepIs ==
  ASSUME NEW nodes, NEW array, NEW paths, NEW loc, NEW g, NEW e, NEW by, Placing(nodes, array, paths, loc, g, e, by), NEW k \in 1 .. Len(loc)
  PROVE  LET at == g[k - 1]
             step == StepSaid(array, paths, at, loc[k])
         IN  /\ step \in Steps /\ g[k] = Append(at, step)
             /\ step \in ChildrenAt(paths, at) <=> g[k] \in OnTheWay(paths)
             /\ loc[k].appends => step = Index(Cardinality(ChildrenAt(paths, at))) /\ step[1] = "["
             /\ ~loc[k].appends => step = IF IsArrayAt(array, paths, at) /\ isIndex(loc[k].name) THEN Index(Number(loc[k].name)) ELSE Key(loc[k].name)
             /\ (~loc[k].appends /\ (~IsArrayAt(array, paths, at) \/ ~isIndex(loc[k].name))) => step = Key(loc[k].name) /\ step[1] # "["
             /\ (~loc[k].appends /\ IsArrayAt(array, paths, at) /\ isIndex(loc[k].name)) =>
                  step = Index(Number(loc[k].name)) /\ step[1] = "[" /\ Number(loc[k].name) \in Nat
             /\ g[k] \in OnTheWay(paths) => at \in OnTheWay(paths)
<1> DEFINE at == g[k - 1]
           step == StepSaid(array, paths, at, loc[k])
<1>1. paths \in Seq(Path) /\ loc \in Seq(LocStep) /\ Walks(g, array, paths, loc)
  BY DEF Placing, PlanInv
<1>2. step \in Steps /\ g[k] = Append(at, step) /\ (step \in ChildrenAt(paths, at) <=> g[k] \in OnTheWay(paths))
  <2>1. LET path == Said(array, paths, loc)
            next == StepSaid(array, paths, g[k - 1], loc[k])
        IN  /\ path \in Path /\ Len(path) = Len(loc) /\ g[k - 1] \in Path /\ g[k] \in Path /\ next \in Steps /\ k \in Nat
            /\ loc[k] \in LocStep
            /\ SubSeq(path, 1, k - 1) = g[k - 1] /\ path[k] = next
            /\ g[k] = Append(g[k - 1], next) /\ Len(g[k - 1]) = k - 1 /\ Len(g[k]) = k
            /\ next \in ChildrenAt(paths, g[k - 1]) <=> g[k] \in OnTheWay(paths)
    BY <1>1, WalkBy, Zenon
  <2> QED BY <2>1, Zenon
<1>3. /\ \A i : Index(i)[1] = "["
      /\ \A name : Key(name)[1] # "["
  BY DEF Index, Key
<1>4. loc[k].name \in Seq(STRING)
  <2>1. loc[k] \in LocStep
    BY PlacingIs
  <2> QED BY <2>1 DEF LocStep
<1>5. isIndex(loc[k].name) => Number(loc[k].name) \in Nat
  BY <1>4, NumberIsNat
<1>6. /\ loc[k].appends => step = Index(Cardinality(ChildrenAt(paths, at)))
      /\ ~loc[k].appends => step = IF IsArrayAt(array, paths, at) /\ isIndex(loc[k].name) THEN Index(Number(loc[k].name)) ELSE Key(loc[k].name)
  BY DEF StepSaid
<1>7. g[k] \in OnTheWay(paths) => at \in OnTheWay(paths)
  <2>1. k \in 0 .. Len(loc) /\ k - 1 \in 0 .. Len(loc) /\ k - 1 <= k /\ e \in Nat
    BY PlacingIs
  <2>2. (g[k] \in OnTheWay(paths) <=> k <= e) /\ (g[k - 1] \in OnTheWay(paths) <=> k - 1 <= e)
    BY <2>1, PlacingIs
  <2> QED BY <2>1, <2>2
<1> HIDE DEF step, at
<1>8. loc[k].appends => step[1] = "["
  BY <1>3, <1>6
<1>9. (~loc[k].appends /\ (~IsArrayAt(array, paths, at) \/ ~isIndex(loc[k].name))) => step = Key(loc[k].name) /\ step[1] # "["
  BY <1>3, <1>6
<1>10. (~loc[k].appends /\ IsArrayAt(array, paths, at) /\ isIndex(loc[k].name)) => step = Index(Number(loc[k].name)) /\ step[1] = "["
  BY <1>3, <1>6
<1> QED BY <1>2, <1>5, <1>6, <1>7, <1>8, <1>9, <1>10 DEF step, at

\* What is planned after k steps: what there was, and the places gone by.
LEMMA PlannedIs ==
  ASSUME NEW nodes, NEW array, NEW paths, NEW loc, NEW g, NEW e, NEW by, Placing(nodes, array, paths, loc, g, e, by), NEW k \in 0 .. Len(loc), NEW at
  PROVE  IsPlanned(Grown(nodes, g, loc, e, k, by), at) <=> at \in OnTheWay(paths) \/ \E j \in 0 .. k : at = g[j]
<1> DEFINE P == Grown(nodes, g, loc, e, k, by)
           m == Len(nodes)
<1>1. /\ DOMAIN P = 1 .. Len(P) /\ Len(P) = m + (IF k > e THEN k - e ELSE 0)
      /\ \A i \in 1 .. m : P[i] = nodes[i]
      /\ \A i \in DOMAIN P : i > m => /\ e + (i - m) \in 1 .. k /\ P[i] = Node(g[e + (i - m)], NewKind(loc, e + (i - m)), by)
  BY GrownIs
<1>2. m \in Nat /\ e \in Nat /\ k \in Nat /\ DOMAIN nodes = 1 .. m
  BY PlacingIs
<1>3. /\ \A j \in 0 .. k : j <= e => g[j] \in OnTheWay(paths)
  BY PlacingIs
<1>4. \A x : IsPlanned(nodes, x) <=> x \in OnTheWay(paths)
  BY NodesAre DEF Placing
<1>5. \A path, kind : Node(path, kind, by).path = path
  BY DEF Node
<1> HIDE DEF P
<1>6. 1 .. m \subseteq DOMAIN P
  BY <1>1, <1>2
<1>7. ASSUME at \in OnTheWay(paths) PROVE IsPlanned(P, at)
  <2>1. PICK i \in 1 .. m : nodes[i].path = at
    BY <1>2, <1>4, <1>7 DEF IsPlanned
  <2> QED BY <1>1, <1>6, <2>1 DEF IsPlanned
<1>8. ASSUME NEW j \in 0 .. k, at = g[j], j > e PROVE IsPlanned(P, at)
  <2> DEFINE i == m + (j - e)
  <2>1. i \in DOMAIN P /\ i > m /\ e + (i - m) = j
    BY <1>1, <1>2, <1>8
  <2> HIDE DEF i
  <2>2. P[i].path = at
    BY <1>1, <1>5, <1>8, <2>1
  <2> QED BY <2>1, <2>2 DEF IsPlanned
<1>9. ASSUME IsPlanned(P, at) PROVE at \in OnTheWay(paths) \/ \E j \in 0 .. k : at = g[j]
  <2>1. PICK i \in DOMAIN P : P[i].path = at
    BY <1>9 DEF IsPlanned
  <2>2. CASE i <= m
    <3>1. i \in DOMAIN nodes /\ nodes[i].path = at
      BY <1>1, <1>2, <2>1, <2>2
    <3> QED BY <1>4, <3>1 DEF IsPlanned
  <2>3. CASE i > m
    <3>1. e + (i - m) \in 0 .. k /\ P[i].path = g[e + (i - m)]
      BY <1>1, <1>2, <1>5, <2>1, <2>3
    <3> QED BY <2>1, <3>1
  <2>4. i <= m \/ i > m
    BY <1>1, <1>2, <2>1
  <2> QED BY <2>2, <2>3, <2>4
<1>10. \A j \in 0 .. k : j <= e \/ j > e
  BY <1>2
<1> QED BY <1>3, <1>7, <1>8, <1>9, <1>10 DEF P

\* What the next step finds: a container or value that there was, or the container the
\* last step made.
LEMMA FoundIs ==
  ASSUME NEW nodes, NEW array, NEW paths, NEW loc, NEW g, NEW e, NEW by, Placing(nodes, array, paths, loc, g, e, by), NEW k \in 1 .. Len(loc)
  PROVE  LET P == Grown(nodes, g, loc, e, k - 1, by)
             at == g[k - 1]
         IN  /\ NodeAt(P, at).kind = IF at \in OnTheWay(paths) THEN KindSaid(array, paths, at) ELSE NewKind(loc, k - 1)
             /\ Cardinality(Inside(P, at)) = Cardinality(ChildrenAt(paths, at))
             /\ at \notin OnTheWay(paths) => ChildrenAt(paths, at) = {} /\ ~IsArrayAt(array, paths, at)
<1> DEFINE P == Grown(nodes, g, loc, e, k - 1, by)
           at == g[k - 1]
           m == Len(nodes)
           l == k - 1
<1>0. l \in 0 .. Len(loc) /\ l \in Nat /\ at \in Path /\ Len(at) = l /\ m \in Nat /\ e \in Nat /\ DOMAIN nodes = 1 .. m /\ PlanInv(nodes, array, paths)
      /\ paths \in Seq(Path) /\ (at \in OnTheWay(paths) <=> l <= e)
  <2>1. PlanInv(nodes, array, paths)
    BY DEF Placing
  <2>2. l \in 0 .. Len(loc)
    BY PlacingIs
  <2> HIDE DEF l
  <2>3. g[l] \in Path /\ Len(g[l]) = l /\ (g[l] \in OnTheWay(paths) <=> l <= e)
    BY <2>2, PlacingIs
  <2>4. m \in Nat /\ e \in Nat /\ DOMAIN nodes = 1 .. m /\ paths \in Seq(Path) /\ Len(loc) \in Nat
    BY PlacingIs
  <2> QED BY <2>1, <2>2, <2>3, <2>4 DEF l
<1>1. /\ P \in Seq(NodeSet) /\ DOMAIN P = 1 .. Len(P) /\ Len(P) = m + (IF l > e THEN l - e ELSE 0)
      /\ \A i \in 1 .. m : P[i] = nodes[i]
      /\ \A i \in DOMAIN P : i > m => /\ e + (i - m) \in 1 .. l /\ P[i] = Node(g[e + (i - m)], NewKind(loc, e + (i - m)), by)
      /\ l <= e => P = nodes
  <2> HIDE DEF l
  <2>1. \A j \in 0 .. Len(loc) :
          LET R == Grown(nodes, g, loc, e, j, by)
          IN  /\ R \in Seq(NodeSet) /\ DOMAIN R = 1 .. Len(R) /\ Len(R) = m + (IF j > e THEN j - e ELSE 0)
              /\ \A i \in 1 .. m : R[i] = nodes[i]
              /\ \A i \in DOMAIN R : i > m => /\ e + (i - m) \in 1 .. j /\ R[i] = Node(g[e + (i - m)], NewKind(loc, e + (i - m)), by)
              /\ j <= e => R = nodes
    BY GrownIs
  <2> HIDE DEF m, at
  <2>2. l \in 0 .. Len(loc)
    BY <1>0
  <2>3. LET R == Grown(nodes, g, loc, e, l, by)
        IN  /\ R \in Seq(NodeSet) /\ DOMAIN R = 1 .. Len(R) /\ Len(R) = m + (IF l > e THEN l - e ELSE 0)
            /\ \A i \in 1 .. m : R[i] = nodes[i]
            /\ \A i \in DOMAIN R : i > m => /\ e + (i - m) \in 1 .. l /\ R[i] = Node(g[e + (i - m)], NewKind(loc, e + (i - m)), by)
            /\ l <= e => R = nodes
    BY <2>1, <2>2, Zenon
  <2>4. P = Grown(nodes, g, loc, e, l, by)
    BY DEF l
  <2> HIDE DEF P
  <2> QED BY <2>3, <2>4, Zenon
<1>2. \A path, kind : Node(path, kind, by).path = path /\ Node(path, kind, by).kind = kind
  BY DEF Node
<1>3. at \notin OnTheWay(paths) => ChildrenAt(paths, at) = {} /\ ~IsArrayAt(array, paths, at)
  <2>1. at \notin OnTheWay(paths) => ChildrenAt(paths, at) = {}
    BY <1>0, WayOrSaid DEF IsThere
  <2>2. at \notin OnTheWay(paths) => at # <<>>
    BY WayIs, <1>0
  <2> QED BY <2>1, <2>2 DEF IsArrayAt
<1>4. CASE l <= e
  <2>1. P = nodes /\ at \in OnTheWay(paths)
    BY <1>0, <1>1, <1>4
  <2>2. NodeAt(nodes, at).kind = KindSaid(array, paths, at)
    BY <1>0, <2>1, NodesAre
  <2>3. Cardinality(Inside(nodes, at)) = Cardinality(ChildrenAt(paths, at))
    BY <1>0, InsideCounts
  <2> QED BY <1>3, <2>1, <2>2, <2>3
<1>5. CASE l > e
  <2>1. at \notin OnTheWay(paths) /\ ChildrenAt(paths, at) = {}
    BY <1>0, <1>3, <1>5
  <2>2. \A i \in DOMAIN P : i > m => Len(P[i].path) = e + (i - m) /\ e + (i - m) <= l /\ P[i].path = g[e + (i - m)] /\ P[i].kind = NewKind(loc, e + (i - m))
    <3> SUFFICES ASSUME NEW i \in DOMAIN P, i > m
                 PROVE  Len(P[i].path) = e + (i - m) /\ e + (i - m) <= l /\ P[i].path = g[e + (i - m)] /\ P[i].kind = NewKind(loc, e + (i - m))
      OBVIOUS
    <3>1. e + (i - m) \in 1 .. l /\ e + (i - m) \in 0 .. Len(loc)
      <4>1. e + (i - m) \in 1 .. l
        BY <1>1
      <4>2. l <= Len(loc) /\ Len(loc) \in Nat
        BY <1>0, PlacingIs
      <4> HIDE DEF l, m
      <4> QED BY <1>0, <4>1, <4>2
    <3>2. P[i].path = g[e + (i - m)] /\ P[i].kind = NewKind(loc, e + (i - m))
      BY <1>1, <1>2
    <3> QED BY <3>1, <3>2, PlacingIs
  <2> HIDE DEF P, at
  <2>3. \A i \in DOMAIN P : i <= m => P[i].path \in OnTheWay(paths)
    <3>1. \A i \in DOMAIN nodes : nodes[i].path \in OnTheWay(paths)
      BY <1>0, NodesAre
    <3> QED BY <1>0, <1>1, <3>1
  <2>4. \A i \in DOMAIN P : P[i].path = at <=> i = Len(P)
    <3>1. m + (l - e) = Len(P) /\ Len(P) \in DOMAIN P /\ Len(P) > m /\ e + (Len(P) - m) = l
      BY <1>0, <1>1, <1>5
    <3>2. P[Len(P)].path = at
      BY <2>2, <3>1 DEF at
    <3>3. ASSUME NEW i \in DOMAIN P, P[i].path = at PROVE i = Len(P)
      <4>1. i > m
        BY <1>0, <1>1, <2>1, <2>3, <3>3
      <4>2. e + (i - m) = l
        BY <1>0, <2>2, <3>3, <4>1
      <4>3. i \in Nat /\ Len(P) \in Nat
        BY <1>0, <1>1, <3>1
      <4> HIDE DEF m, l
      <4> QED BY <1>0, <3>1, <4>2, <4>3
    <3> QED BY <3>2, <3>3
  <2>5. NodeAt(P, at).kind = NewKind(loc, l)
    <3>1. Len(P) \in DOMAIN P /\ Len(P) > m /\ e + (Len(P) - m) = l
      BY <1>0, <1>1, <1>5
    <3>2. (CHOOSE i \in DOMAIN P : P[i].path = at) = Len(P)
      BY <2>4, <3>1
    <3>3. NodeAt(P, at) = P[Len(P)]
      BY <3>2 DEF NodeAt
    <3> QED BY <2>2, <3>1, <3>3
  <2>6. Inside(P, at) = {}
    <3> SUFFICES ASSUME NEW i \in DOMAIN P, IsIn(P[i], at) PROVE FALSE
      BY DEF Inside
    <3>1. Len(P[i].path) = l + 1 /\ IsPrefix(at, P[i].path)
      BY <1>0 DEF IsIn
    <3>2. CASE i <= m
      <4>1. P[i].path \in OnTheWay(paths)
        BY <2>3, <3>2
      <4> QED BY <1>0, <2>1, <3>1, <4>1, WayBefore
    <3>3. CASE i > m
      BY <1>0, <2>2, <3>1, <3>3
    <3> QED BY <1>0, <1>1, <3>2, <3>3
  <2>7. Cardinality(Inside(P, at)) = Cardinality(ChildrenAt(paths, at))
    BY <2>1, <2>6
  <2> QED BY <2>1, <2>5, <2>7, <1>3 DEF P, at
<1>6. l <= e \/ l > e
  BY <1>0
<1> QED BY <1>4, <1>5, <1>6

\* A step comes to where the location goes, when it can be gone, and is refused when not.
Leads(r, nodes, array, paths, loc, g, e, k, by) ==
  IF Goes(g, array, paths, loc, k) THEN r = Reached(Grown(nodes, g, loc, e, k, by), g[k]) ELSE ~r.ok

\* What is not there is made, unless the next step is an index.
LEMMA CreateLeads ==
  ASSUME NEW nodes, NEW array, NEW paths, NEW loc, NEW g, NEW e, NEW by, Placing(nodes, array, paths, loc, g, e, by), NEW k \in 1 .. Len(loc),
         g[k] \notin OnTheWay(paths)
  PROVE  LET r == create(Grown(nodes, g, loc, e, k - 1, by), g[k], loc, k, by)
         IN  IF k < Len(loc) => loc[k + 1].appends \/ ~isIndex(loc[k + 1].name)
             THEN r = Reached(Grown(nodes, g, loc, e, k, by), g[k]) ELSE ~r.ok
<1> DEFINE P == Grown(nodes, g, loc, e, k - 1, by)
           r == create(P, g[k], loc, k, by)
<1>1. k \in 0 .. Len(loc) /\ k \in Nat /\ Len(loc) \in Nat /\ e \in Nat
  BY PlacingIs
<1>2. k > e
  <2>1. g[k] \in OnTheWay(paths) <=> k <= e
    BY <1>1, PlacingIs
  <2> QED BY <1>1, <2>1
<1>3. Grown(nodes, g, loc, e, k, by) = Append(P, Node(g[k], NewKind(loc, k), by))
  BY <1>1, <1>2, GrownIs
<1>4. r = IF k = Len(loc) THEN Reached(Append(P, Node(g[k], "value", by)), g[k])
          ELSE IF loc[k + 1].appends THEN Reached(Append(P, Node(g[k], "array", by)), g[k])
          ELSE IF isIndex(loc[k + 1].name) THEN Usage
          ELSE Reached(Append(P, Node(g[k], "object", by)), g[k])
  BY Zenon DEF create
<1>5. ~Usage.ok
  BY DEF Usage
<1>6. k < Len(loc) <=> k # Len(loc)
  BY <1>1
<1> HIDE DEF P, r
<1>7. CASE k = Len(loc)
  <2>1. NewKind(loc, k) = "value"
    BY <1>7 DEF NewKind
  <2> QED BY <1>3, <1>4, <1>6, <1>7, <2>1 DEF P, r
<1>8. CASE k # Len(loc) /\ loc[k + 1].appends
  <2>1. NewKind(loc, k) = "array"
    BY <1>8 DEF NewKind
  <2> QED BY <1>3, <1>4, <1>6, <1>8, <2>1 DEF P, r
<1>9. CASE k # Len(loc) /\ ~loc[k + 1].appends /\ isIndex(loc[k + 1].name)
  BY <1>4, <1>5, <1>6, <1>9 DEF P, r
<1>10. CASE k # Len(loc) /\ ~loc[k + 1].appends /\ ~isIndex(loc[k + 1].name)
  <2>1. NewKind(loc, k) = "object"
    BY <1>10 DEF NewKind
  <2> QED BY <1>3, <1>4, <1>6, <1>10, <2>1 DEF P, r
<1> QED BY <1>7, <1>8, <1>9, <1>10

\* What is there is entered, unless it would be given again.
LEMMA EnterLeads ==
  ASSUME NEW nodes, NEW array, NEW paths, NEW loc, NEW g, NEW e, NEW by, Placing(nodes, array, paths, loc, g, e, by), NEW k \in 1 .. Len(loc),
         g[k] \in OnTheWay(paths)
  PROVE  LET r == Enter(Grown(nodes, g, loc, e, k - 1, by), g[k], loc, k)
         IN  IF k # Len(loc) THEN r = Reached(Grown(nodes, g, loc, e, k, by), g[k]) ELSE ~r.ok
<1>1. k \in 0 .. Len(loc) /\ k \in Nat /\ Len(loc) \in Nat /\ e \in Nat /\ k - 1 \in 0 .. Len(loc)
  BY PlacingIs
<1>2. k <= e /\ k - 1 <= e
  <2>1. g[k] \in OnTheWay(paths) <=> k <= e
    BY <1>1, PlacingIs
  <2> QED BY <1>1, <2>1
<1>3. Grown(nodes, g, loc, e, k, by) = nodes /\ Grown(nodes, g, loc, e, k - 1, by) = nodes
  BY <1>1, <1>2, GrownIs
<1>4. ~Usage.ok
  BY DEF Usage
<1> QED BY <1>3, <1>4 DEF Enter

\* A step into an object, that was there or was made by the last step.
LEMMA ObjectLeads ==
  ASSUME NEW nodes, NEW array, NEW paths, NEW loc, NEW g, NEW e, NEW by, Placing(nodes, array, paths, loc, g, e, by), NEW k \in 1 .. Len(loc),
         g[k - 1] \notin ToSet(paths), ~IsArrayAt(array, paths, g[k - 1]),
         g[k - 1] \notin OnTheWay(paths) => ~loc[k].appends
  PROVE  Leads(intoObject(Grown(nodes, g, loc, e, k - 1, by), g[k - 1], loc, k, by), nodes, array, paths, loc, g, e, k, by)
<1> DEFINE P == Grown(nodes, g, loc, e, k - 1, by)
           at == g[k - 1]
           W == OnTheWay(paths)
           step == StepSaid(array, paths, at, loc[k])
           member == Append(at, Key(loc[k].name))
           r == intoObject(P, at, loc, k, by)
           Q == Grown(nodes, g, loc, e, k, by)
           Goes_ == Goes(g, array, paths, loc, k)
           Opens == k < Len(loc) => loc[k + 1].appends \/ ~isIndex(loc[k + 1].name)
<1>1. ~Usage.ok
  BY DEF Usage
<1>2. Goes_ <=> /\ at \in W => /\ step[1] # "["
                               /\ ~loc[k].appends /\ step[1] = "[" => g[k] \in W
                /\ g[k] \notin W => Opens
                /\ k = Len(loc) => g[k] \notin W
  BY DEF Goes
<1>3. /\ g[k] = Append(at, step)
      /\ loc[k].appends => step[1] = "["
      /\ ~loc[k].appends => step = Key(loc[k].name) /\ step[1] # "["
      /\ g[k] \in W => at \in W
  BY StepIs
<1>4. r = IF loc[k].appends THEN Usage
          ELSE IF IsPlanned(P, member) THEN Enter(P, member, loc, k)
          ELSE create(P, member, loc, k, by)
  BY Zenon DEF intoObject
<1>5. k - 1 \in 0 .. Len(loc) /\ k \in Nat /\ Len(g[k]) = k /\ \A j \in 0 .. (k - 1) : Len(g[j]) = j
  <2>1. k \in 0 .. Len(loc) /\ k - 1 \in 0 .. Len(loc) /\ Len(loc) \in Nat
    BY PlacingIs
  <2>2. \A j \in 0 .. Len(loc) : Len(g[j]) = j
    BY PlacingIs
  <2> QED BY <2>1, <2>2
<1>6. IsPlanned(P, g[k]) <=> g[k] \in W
  <2>1. IsPlanned(P, g[k]) <=> g[k] \in W \/ \E j \in 0 .. (k - 1) : g[k] = g[j]
    BY <1>5, PlannedIs
  <2>2. \A j \in 0 .. (k - 1) : g[k] # g[j]
    BY <1>5
  <2> QED BY <2>1, <2>2
<1>7. g[k] \in W => LET x == Enter(P, g[k], loc, k) IN IF k # Len(loc) THEN x = Reached(Q, g[k]) ELSE ~x.ok
  BY EnterLeads
<1>8. g[k] \notin W => LET x == create(P, g[k], loc, k, by) IN IF Opens THEN x = Reached(Q, g[k]) ELSE ~x.ok
  BY CreateLeads
<1> HIDE DEF P, at, W, step, member, r, Q, Goes_, Opens
<1>9. IF Goes_ THEN r = Reached(Q, g[k]) ELSE ~r.ok
  <2>1. CASE loc[k].appends
    <3>1. ~r.ok
      BY <1>1, <1>4, <2>1
    <3>2. at \in W
      BY <2>1 DEF at, W
    <3> QED BY <1>2, <1>3, <2>1, <3>1, <3>2
  <2>2. CASE ~loc[k].appends
    <3>1. member = g[k] /\ step[1] # "["
      BY <1>3, <2>2 DEF member
    <3>2. CASE g[k] \in W
      <4>1. r = Enter(P, g[k], loc, k)
        BY <1>4, <1>6, <2>2, <3>1, <3>2
      <4>2. Goes_ <=> k # Len(loc)
        BY <1>2, <3>1, <3>2
      <4> QED BY <1>7, <3>2, <4>1, <4>2
    <3>3. CASE g[k] \notin W
      <4>1. r = create(P, g[k], loc, k, by)
        BY <1>4, <1>6, <2>2, <3>1, <3>3
      <4>2. Goes_ <=> Opens
        BY <1>2, <3>1, <3>3
      <4> QED BY <1>8, <3>3, <4>1, <4>2
    <3> QED BY <3>2, <3>3
  <2> QED BY <2>1, <2>2
<1> QED BY <1>9 DEF Leads, Goes_, r, Q, P, at

\* A step into an array, that was there or was made by the last step.
LEMMA ArrayLeads ==
  ASSUME NEW nodes, NEW array, NEW paths, NEW loc, NEW g, NEW e, NEW by, Placing(nodes, array, paths, loc, g, e, by), NEW k \in 1 .. Len(loc),
         g[k - 1] \notin ToSet(paths), g[k - 1] \in OnTheWay(paths) => IsArrayAt(array, paths, g[k - 1]),
         g[k - 1] \notin OnTheWay(paths) => loc[k].appends
  PROVE  Leads(intoArray(Grown(nodes, g, loc, e, k - 1, by), g[k - 1], loc, k, by), nodes, array, paths, loc, g, e, k, by)
<1> DEFINE P == Grown(nodes, g, loc, e, k - 1, by)
           at == g[k - 1]
           W == OnTheWay(paths)
           step == StepSaid(array, paths, at, loc[k])
           size == Cardinality(Inside(P, at))
           name == loc[k].name
           end == Append(at, Index(size))
           there == Append(at, Index(Number(name)))
           r == intoArray(P, at, loc, k, by)
           Q == Grown(nodes, g, loc, e, k, by)
           Goes_ == Goes(g, array, paths, loc, k)
           Opens == k < Len(loc) => loc[k + 1].appends \/ ~isIndex(loc[k + 1].name)
<1>1. ~Usage.ok
  BY DEF Usage
<1>2. Goes_ <=> /\ at \in W => /\ step[1] = "["
                               /\ ~loc[k].appends /\ step[1] = "[" => g[k] \in W
                /\ g[k] \notin W => Opens
                /\ k = Len(loc) => g[k] \notin W
  BY DEF Goes
<1>3. /\ size = Cardinality(ChildrenAt(paths, at))
      /\ at \notin W => ChildrenAt(paths, at) = {}
  <2>1. LET R == Grown(nodes, g, loc, e, k - 1, by)
            a == g[k - 1]
        IN  /\ NodeAt(R, a).kind = IF a \in OnTheWay(paths) THEN KindSaid(array, paths, a) ELSE NewKind(loc, k - 1)
            /\ Cardinality(Inside(R, a)) = Cardinality(ChildrenAt(paths, a))
            /\ a \notin OnTheWay(paths) => ChildrenAt(paths, a) = {} /\ ~IsArrayAt(array, paths, a)
    BY FoundIs, Zenon
  <2> QED BY <2>1, Zenon
<1>4. /\ g[k] = Append(at, step) /\ (step \in ChildrenAt(paths, at) <=> g[k] \in W)
      /\ loc[k].appends => step = Index(Cardinality(ChildrenAt(paths, at))) /\ step[1] = "["
      /\ ~loc[k].appends /\ IsArrayAt(array, paths, at) /\ isIndex(name) => step = Index(Number(name)) /\ step[1] = "[" /\ Number(name) \in Nat
      /\ ~loc[k].appends /\ ~isIndex(name) => step[1] # "["
  BY StepIs
<1>5. at \in W => \E c \in Nat : ChildrenAt(paths, at) = {Index(i) : i \in 0 .. (c - 1)}
  BY DEF Placing, PlanInv, Numbered
<1>6. size \in Nat /\ (at \in W => ChildrenAt(paths, at) = {Index(i) : i \in 0 .. (size - 1)})
  <2>1. CASE at \notin W
    <3>1. Cardinality({}) = 0
      BY FS_EmptySet
    <3> HIDE DEF size, at, W
    <3>2. size = Cardinality({})
      BY <1>3, <2>1
    <3> QED BY <2>1, <3>1, <3>2
  <2>2. CASE at \in W
    <3>1. PICK c \in Nat : ChildrenAt(paths, at) = {Index(i) : i \in 0 .. (c - 1)}
      BY <1>5, <2>2
    <3>2. Cardinality({Index(i) : i \in 0 .. (c - 1)}) = c
      BY IndexesCount
    <3>3. size = c
      BY <1>3, <3>1, <3>2
    <3> QED BY <3>1, <3>3
  <2> QED BY <2>1, <2>2
<1>7. r = IF loc[k].appends THEN create(P, end, loc, k, by)
          ELSE IF isIndex(name) /\ Number(name) < size THEN Enter(P, there, loc, k)
          ELSE Usage
  BY Zenon DEF intoArray
<1>8. g[k] \in W => LET x == Enter(P, g[k], loc, k) IN IF k # Len(loc) THEN x = Reached(Q, g[k]) ELSE ~x.ok
  BY EnterLeads
<1>9. g[k] \notin W => LET x == create(P, g[k], loc, k, by) IN IF Opens THEN x = Reached(Q, g[k]) ELSE ~x.ok
  BY CreateLeads
<1>10. at \in W => \A i \in Nat : Index(i) \in ChildrenAt(paths, at) <=> i < size
  <2> HIDE DEF size, at, W
  <2>1. \A i \in Nat : Index(i) \in {Index(j) : j \in 0 .. (size - 1)} <=> i < size
    BY <1>6, IndexesCount
  <2> QED BY <1>6, <2>1
<1>11. at \in W \/ loc[k].appends
  OBVIOUS
<1>12. at \in W => IsArrayAt(array, paths, at)
  OBVIOUS
<1> HIDE DEF P, at, W, step, size, name, end, there, r, Q, Goes_, Opens
<1>13. IF Goes_ THEN r = Reached(Q, g[k]) ELSE ~r.ok
  <2>1. CASE loc[k].appends
    <3>1. step = Index(size) /\ end = g[k] /\ step[1] = "["
      BY <1>3, <1>4, <2>1 DEF end
    <3>2. g[k] \notin W
      <4>1. CASE at \in W
        BY <1>4, <1>6, <1>10, <3>1, <4>1
      <4>2. CASE at \notin W
        BY <1>3, <1>4, <4>2
      <4> QED BY <4>1, <4>2
    <3>3. r = create(P, g[k], loc, k, by)
      BY <1>7, <2>1, <3>1
    <3>4. Goes_ <=> Opens
      BY <1>2, <2>1, <3>1, <3>2
    <3> QED BY <1>9, <3>2, <3>3, <3>4
  <2>2. CASE ~loc[k].appends /\ isIndex(name)
    <3>1. at \in W /\ step = Index(Number(name)) /\ step[1] = "[" /\ Number(name) \in Nat
      BY <1>4, <1>11, <1>12, <2>2
    <3>2. Number(name) < size <=> g[k] \in W
      BY <1>4, <1>10, <3>1
    <3>3. there = g[k]
      BY <1>4, <3>1 DEF there
    <3>4. CASE g[k] \in W
      <4>1. r = Enter(P, g[k], loc, k)
        BY <1>7, <2>2, <3>2, <3>3, <3>4
      <4>2. Goes_ <=> k # Len(loc)
        BY <1>2, <3>1, <3>4
      <4> QED BY <1>8, <3>4, <4>1, <4>2
    <3>5. CASE g[k] \notin W
      <4>1. r = Usage
        BY <1>7, <2>2, <3>2, <3>5
      <4>2. ~Goes_
        BY <1>2, <2>2, <3>1, <3>5
      <4> QED BY <1>1, <4>1, <4>2
    <3> QED BY <3>4, <3>5
  <2>3. CASE ~loc[k].appends /\ ~isIndex(name)
    <3>1. r = Usage
      BY <1>7, <2>3
    <3>2. ~Goes_
      BY <1>2, <1>4, <1>11, <2>3
    <3> QED BY <1>1, <3>1, <3>2
  <2> QED BY <2>1, <2>2, <2>3
<1> QED BY <1>13 DEF Leads, Goes_, r, Q, P, at

\* Each step comes to where the location goes, or is refused.
LEMMA MoveLeads ==
  ASSUME NEW nodes, NEW array, NEW paths, NEW loc, NEW g, NEW e, NEW by, Placing(nodes, array, paths, loc, g, e, by), NEW k \in 1 .. Len(loc),
         \A j \in 1 .. (k - 1) : Goes(g, array, paths, loc, j)
  PROVE  Leads(Moves(Reached(Grown(nodes, g, loc, e, k - 1, by), g[k - 1]), loc, k, by), nodes, array, paths, loc, g, e, k, by)
<1> DEFINE P == Grown(nodes, g, loc, e, k - 1, by)
           at == g[k - 1]
           W == OnTheWay(paths)
           r == Moves(Reached(P, at), loc, k, by)
           kind == NodeAt(P, at).kind
<1>1. r = IF kind = "value" THEN Usage
          ELSE IF kind = "object" THEN intoObject(P, at, loc, k, by)
          ELSE intoArray(P, at, loc, k, by)
  <2>1. Reached(P, at).ok /\ Reached(P, at).plan = P /\ Reached(P, at).path = at
    BY DEF Reached
  <2> HIDE DEF P, at
  <2> QED BY <2>1 DEF Moves, Stepped, kind
<1>2. /\ kind = IF at \in W THEN KindSaid(array, paths, at) ELSE NewKind(loc, k - 1)
      /\ at \notin W => ~IsArrayAt(array, paths, at)
  BY FoundIs
<1>3. ToSet(paths) \subseteq W
  BY PlacingIs
<1>4. ASSUME at \notin W PROVE /\ kind = IF loc[k].appends THEN "array" ELSE "object"
                               /\ at \notin ToSet(paths)
  <2>1. NewKind(loc, k - 1) = IF loc[k].appends THEN "array" ELSE "object"
    <3>1. k - 1 # Len(loc) /\ (k - 1) + 1 = k
      BY PlacingIs
    <3> QED BY <3>1 DEF NewKind
  <2> HIDE DEF at
  <2> QED BY <1>2, <1>3, <1>4, <2>1
<1> HIDE DEF P, kind, r
<1>5. CASE at \in ToSet(paths)
  <2>1. kind = "value"
    BY <1>2, <1>3, <1>5 DEF KindSaid
  <2>2. ~r.ok
    BY <1>1, <2>1 DEF Usage
  <2>3. ~Goes(g, array, paths, loc, k)
    BY <1>5 DEF Goes
  <2> QED BY <2>2, <2>3 DEF Leads, r, P
<1>6. CASE at \notin ToSet(paths) /\ at \in W /\ IsArrayAt(array, paths, at)
  <2>1. kind = "array"
    BY <1>2, <1>6 DEF KindSaid
  <2>2. r = intoArray(P, at, loc, k, by)
    BY <1>1, <2>1
  <2>3. Leads(intoArray(P, at, loc, k, by), nodes, array, paths, loc, g, e, k, by)
    BY <1>6, ArrayLeads DEF P
  <2> QED BY <2>2, <2>3 DEF r, P
<1>7. CASE at \notin ToSet(paths) /\ at \in W /\ ~IsArrayAt(array, paths, at)
  <2>1. kind = "object"
    BY <1>2, <1>7 DEF KindSaid
  <2>2. r = intoObject(P, at, loc, k, by)
    BY <1>1, <2>1
  <2>3. Leads(intoObject(P, at, loc, k, by), nodes, array, paths, loc, g, e, k, by)
    BY <1>7, ObjectLeads DEF P
  <2> QED BY <2>2, <2>3 DEF r, P
<1>8. CASE at \notin W /\ loc[k].appends
  <2>2. r = intoArray(P, at, loc, k, by) /\ at \notin ToSet(paths)
    BY <1>1, <1>4, <1>8
  <2>3. Leads(intoArray(P, at, loc, k, by), nodes, array, paths, loc, g, e, k, by)
    BY <1>8, <2>2, ArrayLeads DEF P
  <2> QED BY <2>2, <2>3 DEF r, P
<1>9. CASE at \notin W /\ ~loc[k].appends
  <2>2. r = intoObject(P, at, loc, k, by) /\ at \notin ToSet(paths)
    BY <1>1, <1>4, <1>9
  <2>3. Leads(intoObject(P, at, loc, k, by), nodes, array, paths, loc, g, e, k, by)
    BY <1>2, <1>9, <2>2, ObjectLeads DEF P
  <2> QED BY <2>2, <2>3 DEF r, P
<1> QED BY <1>5, <1>6, <1>7, <1>8, <1>9

\* An argument is placed where it says, with what is new on the way, when each of its
\* steps can be gone, and refused when not.
LEMMA PlaceIs ==
  ASSUME NEW nodes, NEW array, NEW paths, NEW placement, NEW g, NEW e, NEW by, Placing(nodes, array, paths, placement.loc, g, e, by)
  PROVE  IF \A k \in 1 .. Len(placement.loc) : Goes(g, array, paths, placement.loc, k)
         THEN place(nodes, placement, by) = Reached(Grown(nodes, g, placement.loc, e, Len(placement.loc), by), g[Len(placement.loc)])
         ELSE ~place(nodes, placement, by).ok
<1> DEFINE loc == placement.loc
           n == Len(loc)
           Q(k) == Grown(nodes, g, loc, e, k, by)
<1>0. n \in Nat \ {0} /\ e \in 0 .. n /\ nodes \in Seq(NodeSet) /\ loc \in Seq(LocStep) /\ by \in Nat /\ g[0] = <<>>
  <2>1. loc \in Seq(LocStep) /\ by \in Nat
    BY DEF Placing
  <2> QED BY <2>1, PlacingIs
<1>1. PICK f : /\ f[0] = Reached(nodes, <<>>) /\ f[Len(placement.loc)] = place(nodes, placement, by)
               /\ \A i \in 0..(Len(placement.loc) - 1) : f[i] \in States /\ f[i + 1] = Moves(f[i], placement.loc, i + 1, by)
               /\ f[Len(placement.loc)] \in States
  BY <1>0, PlaceFold, Zenon
<1> DEFINE All(k) == \A j \in 1 .. k : Goes(g, array, paths, loc, j)
           T == {k \in 0 .. n : IF All(k) THEN f[k] = Reached(Q(k), g[k]) ELSE ~f[k].ok}
<1>2. 0 \in T
  <2>1. Q(0) = nodes
    <3>1. 0 \in 0 .. n /\ 0 <= e
      BY <1>0
    <3> QED BY <3>1, GrownIs
  <2>2. All(0)
    OBVIOUS
  <2> QED BY <1>0, <1>1, <2>1, <2>2
<1>3. ASSUME NEW i \in 0 .. (n - 1), i \in T PROVE i + 1 \in T
  <2> DEFINE k == i + 1
  <2>1. k \in 1 .. n /\ k - 1 = i /\ k \in 0 .. n /\ \A j \in 1 .. k : j \in 1 .. i \/ j = k
    BY <1>0
  <2>2. f[k] = Moves(f[i], loc, k, by)
    BY <1>1
  <2>3. IF All(i) THEN f[i] = Reached(Q(i), g[i]) ELSE ~f[i].ok
    BY <1>3
  <2> HIDE DEF k
  <2>4. All(k) <=> All(i) /\ Goes(g, array, paths, loc, k)
    <3>1. \A j \in 1 .. i : j \in 1 .. k
      BY <1>0, <2>1
    <3>2. k \in 1 .. k
      BY <2>1
    <3> QED BY <2>1, <3>1, <3>2
  <2>5. CASE All(i)
    <3>1. Leads(Moves(Reached(Q(k - 1), g[k - 1]), loc, k, by), nodes, array, paths, loc, g, e, k, by)
      <4>1. \A j \in 1 .. (k - 1) : Goes(g, array, paths, loc, j)
        BY <2>1, <2>5
      <4> QED BY <2>1, <4>1, MoveLeads
    <3>2. Leads(f[k], nodes, array, paths, loc, g, e, k, by)
      BY <2>1, <2>2, <2>3, <2>5, <3>1
    <3>3. IF Goes(g, array, paths, loc, k) THEN f[k] = Reached(Q(k), g[k]) ELSE ~f[k].ok
      BY <3>2 DEF Leads
    <3> HIDE DEF All, Q
    <3>4. k \in T
      BY <2>1, <2>4, <2>5, <3>3
    <3> QED BY <3>4 DEF k
  <2>6. CASE ~All(i)
    <3>1. f[k] = f[i]
      BY <2>2, <2>3, <2>6 DEF Moves
    <3> HIDE DEF All, Q
    <3>2. k \in T
      BY <2>1, <2>3, <2>4, <2>6, <3>1
    <3> QED BY <3>2 DEF k
  <2> QED BY <2>5, <2>6
<1>4. n \in T
  <2>1. n \in Nat /\ n \in 0 .. n
    BY <1>0
  <2> HIDE DEF T, n
  <2>2. \A i \in 0 .. n : i \in T
    BY <1>2, <1>3, <2>1, Reaches
  <2> QED BY <2>1, <2>2
<1>5. IF All(n) THEN f[n] = Reached(Q(n), g[n]) ELSE ~f[n].ok
  <2> HIDE DEF All, Q
  <2> QED BY <1>4
<1> QED BY <1>1, <1>5

-----------------------------------------------------------------------------
(* What is said with one place more. *)

\* An argument that can be placed.
Placed(nodes, array, paths, loc, g, e) ==
  /\ Placing(nodes, array, paths, loc, g, e, Len(paths) + 1)
  /\ \A k \in 1 .. Len(loc) : Goes(g, array, paths, loc, k)

\* What is on the way then.
LEMMA WayThen ==
  ASSUME NEW nodes, NEW array, NEW paths, NEW loc, NEW g, NEW e, Placed(nodes, array, paths, loc, g, e)
  PROVE  LET next == Append(paths, g[Len(loc)])
         IN  /\ next \in Seq(Path) /\ Len(next) = Len(paths) + 1 /\ DOMAIN next = 1 .. (Len(paths) + 1)
             /\ \A i \in 1 .. Len(paths) : next[i] = paths[i]
             /\ next[Len(paths) + 1] = g[Len(loc)]
             /\ ToSet(next) = ToSet(paths) \union {g[Len(loc)]}
             /\ OnTheWay(next) = OnTheWay(paths) \union {g[j] : j \in 0 .. Len(loc)}
             /\ g[Len(loc)] \notin OnTheWay(paths) /\ e < Len(loc)
<1> DEFINE n == Len(loc)
           p == g[n]
           next == Append(paths, p)
<1>0. Placing(nodes, array, paths, loc, g, e, Len(paths) + 1) /\ \A k \in 1 .. n : Goes(g, array, paths, loc, k)
  BY DEF Placed
<1>1. /\ paths \in Seq(Path) /\ Len(paths) \in Nat /\ n \in Nat \ {0} /\ e \in 0 .. n /\ n \in 0 .. n
      /\ p \in Path /\ Len(p) = n /\ (p \in OnTheWay(paths) <=> n <= e)
      /\ \A j \in 0 .. n : g[j] \in Path /\ Len(g[j]) = j /\ IsPrefix(g[j], p)
  <2>1. paths \in Seq(Path) /\ n \in Nat \ {0} /\ e \in 0 .. n
    BY <1>0, PlacingIs
  <2>2. n \in 0 .. n
    BY <2>1
  <2> QED BY <1>0, <2>1, <2>2, PlacingIs
<1>2. p \notin OnTheWay(paths)
  <2>1. n \in 1 .. n
    BY <1>1
  <2> QED BY <1>0, <2>1 DEF Goes
<1>3. /\ next \in Seq(Path) /\ Len(next) = Len(paths) + 1 /\ DOMAIN next = 1 .. (Len(paths) + 1)
      /\ \A i \in 1 .. Len(paths) : next[i] = paths[i]
      /\ next[Len(paths) + 1] = p
  <2> HIDE DEF p
  <2> QED BY <1>1
<1> HIDE DEF next, p, n
<1>4. ToSet(next) = ToSet(paths) \union {p}
  <2>1. DOMAIN paths = 1 .. Len(paths) /\ DOMAIN next = (1 .. Len(paths)) \union {Len(paths) + 1}
    BY <1>1, <1>3
  <2>2. ASSUME NEW x \in ToSet(next) PROVE x \in ToSet(paths) \union {p}
    BY <1>3, <2>1 DEF ToSet
  <2>3. ASSUME NEW x \in ToSet(paths) PROVE x \in ToSet(next)
    BY <1>3, <2>1 DEF ToSet
  <2>4. p \in ToSet(next)
    BY <1>3, <2>1 DEF ToSet
  <2> QED BY <2>2, <2>3, <2>4
<1>5. ASSUME NEW at \in Path PROVE at \in OnTheWay(next) <=> at \in OnTheWay(paths) \/ \E j \in 0 .. n : at = g[j]
  <2>1. at \in OnTheWay(next) <=> at \in OnTheWay(paths) \/ IsPrefix(at, p)
    BY <1>1, <1>3, <1>4, WayIs
  <2>2. ASSUME IsPrefix(at, p) PROVE \E j \in 0 .. n : at = g[j]
    <3> DEFINE j == Len(at)
    <3>1. j \in 0 .. n
      <4>1. Len(at) <= Len(p)
        BY <1>1, <2>2, PrefixBegins
      <4> QED BY <1>1, <4>1 DEF Path
    <3>2. IsPrefix(g[j], at)
      <4>1. g[j] \in Path /\ Len(g[j]) = j /\ IsPrefix(g[j], p) /\ j <= Len(at)
        BY <1>1, <3>1
      <4> QED BY <1>1, <2>2, <4>1, PrefixesCompare
    <3>3. g[j] = at
      BY <1>1, <3>1, <3>2, PrefixAsLong
    <3> QED BY <3>1, <3>3
  <2>3. ASSUME NEW j \in 0 .. n, at = g[j] PROVE IsPrefix(at, p)
    BY <1>1, <2>3
  <2> QED BY <2>1, <2>2, <2>3
<1>6. OnTheWay(next) = OnTheWay(paths) \union {g[j] : j \in 0 .. n}
  <2>1. OnTheWay(next) \subseteq Path /\ OnTheWay(paths) \subseteq Path
    BY <1>1, <1>3, WayIs
  <2> QED BY <1>1, <1>5, <2>1
<1> QED BY <1>1, <1>2, <1>3, <1>4, <1>6 DEF next, p, n

\* And the children: a step more for the places gone by.
LEMMA ChildrenThen ==
  ASSUME NEW nodes, NEW array, NEW paths, NEW loc, NEW g, NEW e, Placed(nodes, array, paths, loc, g, e), NEW at \in Path
  PROVE  LET next == Append(paths, g[Len(loc)])
         IN  /\ ChildrenAt(paths, at) \subseteq ChildrenAt(next, at)
             /\ \A c \in ChildrenAt(next, at) : c \in ChildrenAt(paths, at)
                                                \/ \E k \in 1 .. Len(loc) : at = g[k - 1] /\ c = StepSaid(array, paths, at, loc[k])
             /\ \A k \in 1 .. Len(loc) : at = g[k - 1] => StepSaid(array, paths, at, loc[k]) \in ChildrenAt(next, at)
<1> DEFINE n == Len(loc)
           next == Append(paths, g[n])
           step(k) == StepSaid(array, paths, g[k - 1], loc[k])
<1>1. Placing(nodes, array, paths, loc, g, e, Len(paths) + 1)
  BY DEF Placed
<1>2. paths \in Seq(Path) /\ next \in Seq(Path) /\ OnTheWay(next) = OnTheWay(paths) \union {g[j] : j \in 0 .. n}
  BY <1>1, WayThen, PlacingIs
<1>3. n \in Nat /\ \A k \in 1 .. n : g[k] = Append(g[k - 1], step(k)) /\ step(k) \in Steps /\ g[k - 1] \in Path /\ k \in 0 .. n
  <2>1. n \in Nat /\ \A k \in 0 .. n : g[k] \in Path
    BY <1>1, PlacingIs
  <2>2. \A k \in 1 .. n : k - 1 \in 0 .. n /\ k \in 0 .. n
    BY <2>1
  <2> QED BY <1>1, <2>1, <2>2, StepIs
<1>4. /\ ChildrenAt(paths, at) = {c \in Steps : Append(at, c) \in OnTheWay(paths)}
      /\ ChildrenAt(next, at) = {c \in Steps : Append(at, c) \in OnTheWay(next)}
  <2> HIDE DEF next
  <2> QED BY <1>2, ChildIs
<1>5. g[0] = <<>>
  BY <1>1, PlacingIs
<1> HIDE DEF next, step, n
<1>6. ChildrenAt(paths, at) \subseteq ChildrenAt(next, at)
  BY <1>2, <1>4
<1>7. ASSUME NEW c \in ChildrenAt(next, at), c \notin ChildrenAt(paths, at)
      PROVE  \E k \in 1 .. n : at = g[k - 1] /\ c = step(k)
  <2>1. PICK j \in 0 .. n : Append(at, c) = g[j]
    BY <1>2, <1>4, <1>7
  <2>2. c \in Steps /\ Append(at, c) # <<>>
    BY <1>4, Further
  <2>3. j \in 1 .. n
    BY <1>3, <1>5, <2>1, <2>2
  <2>4. at = g[j - 1] /\ c = step(j)
    <3> DEFINE b == g[j - 1]
               d == step(j)
    <3>1. Append(at, c) = Append(b, d) /\ b \in Path /\ d \in Steps
      BY <1>3, <2>1, <2>3
    <3> HIDE DEF b, d
    <3>2. at = b /\ c = d
      BY <2>2, <3>1, AppendInjective DEF Path
    <3> QED BY <3>2 DEF b, d
  <2> QED BY <2>3, <2>4
<1>8. ASSUME NEW k \in 1 .. n, at = g[k - 1] PROVE step(k) \in ChildrenAt(next, at)
  <2>1. Append(at, step(k)) = g[k] /\ step(k) \in Steps /\ k \in 0 .. n
    BY <1>3, <1>8
  <2> QED BY <1>2, <1>4, <2>1
<1> QED BY <1>6, <1>7, <1>8 DEF next, step, n

\* The kinds of what there was stay, and what is new has the kind it was made of.
LEMMA KindThen ==
  ASSUME NEW nodes, NEW array, NEW paths, NEW loc, NEW g, NEW e, Placed(nodes, array, paths, loc, g, e)
  PROVE  LET next == Append(paths, g[Len(loc)])
         IN  /\ \A at \in OnTheWay(paths) : /\ at \notin ToSet(paths) => IsArrayAt(array, next, at) <=> IsArrayAt(array, paths, at)
                                            /\ KindSaid(array, next, at) = KindSaid(array, paths, at)
             /\ \A j \in 1 .. Len(loc) : j > e => /\ KindSaid(array, next, g[j]) = NewKind(loc, j)
                                                  /\ j < Len(loc) => ChildrenAt(next, g[j]) = {StepSaid(array, paths, g[j], loc[j + 1])}
                                                  /\ j = Len(loc) => ChildrenAt(next, g[j]) = {}
<1> DEFINE n == Len(loc)
           next == Append(paths, g[n])
           step(k) == StepSaid(array, paths, g[k - 1], loc[k])
           W == OnTheWay(paths)
           V == ToSet(paths)
<1>0. Placing(nodes, array, paths, loc, g, e, Len(paths) + 1) /\ \A k \in 1 .. n : Goes(g, array, paths, loc, k)
  BY DEF Placed
<1>1. /\ n \in Nat \ {0} /\ e \in 0 .. n /\ V \subseteq W /\ W \subseteq Path /\ array \in BOOLEAN
      /\ \A k \in 0 .. n : g[k] \in Path /\ Len(g[k]) = k /\ (g[k] \in W <=> k <= e)
  <2>1. paths \in Seq(Path)
    BY <1>0, PlacingIs
  <2>2. W \subseteq Path
    BY <2>1, WayIs
  <2>3. array \in BOOLEAN
    BY <1>0 DEF Placing
  <2> QED BY <1>0, <2>2, <2>3, PlacingIs
<1>2. ToSet(next) = V \union {g[n]} /\ g[n] \notin W
  BY WayThen
<1>3. \A at \in Path :
        /\ ChildrenAt(paths, at) \subseteq ChildrenAt(next, at)
        /\ \A c \in ChildrenAt(next, at) : c \in ChildrenAt(paths, at) \/ \E k \in 1 .. n : at = g[k - 1] /\ c = step(k)
        /\ \A k \in 1 .. n : at = g[k - 1] => step(k) \in ChildrenAt(next, at)
  BY ChildrenThen
<1>4. \A k \in 1 .. n : g[k - 1] \in W => (IsArrayAt(array, paths, g[k - 1]) <=> step(k)[1] = "[")
  BY <1>0 DEF Goes
<1> HIDE DEF next, step, W, V, n
<1>5. ASSUME NEW at \in W, at \notin V PROVE IsArrayAt(array, next, at) <=> IsArrayAt(array, paths, at)
  <2>1. CASE at = <<>>
    BY <2>1, <1>1 DEF IsArrayAt
  <2>2. CASE at # <<>>
    <3>1. at \in Path
      BY <1>1
    <3>2. IsArrayAt(array, next, at) <=> \E c \in ChildrenAt(next, at) : c[1] = "["
      BY <2>2 DEF IsArrayAt
    <3>3. IsArrayAt(array, paths, at) <=> \E c \in ChildrenAt(paths, at) : c[1] = "["
      BY <2>2 DEF IsArrayAt
    <3>4. ASSUME NEW c \in ChildrenAt(next, at), c[1] = "[" PROVE IsArrayAt(array, paths, at)
      <4>1. CASE c \in ChildrenAt(paths, at)
        BY <3>3, <3>4, <4>1
      <4>2. CASE \E k \in 1 .. n : at = g[k - 1] /\ c = step(k)
        BY <1>4, <3>4, <4>2
      <4> QED BY <1>3, <3>1, <4>1, <4>2
    <3>5. IsArrayAt(array, paths, at) => IsArrayAt(array, next, at)
      BY <1>3, <3>1, <3>2, <3>3
    <3> QED BY <3>2, <3>4, <3>5
  <2> QED BY <2>1, <2>2
<1>6. ASSUME NEW at \in W PROVE KindSaid(array, next, at) = KindSaid(array, paths, at)
  <2>1. at \in ToSet(next) <=> at \in V
    BY <1>2
  <2> QED BY <1>5, <2>1 DEF KindSaid, V
<1>7. ASSUME NEW j \in 1 .. n, j > e
      PROVE  /\ KindSaid(array, next, g[j]) = NewKind(loc, j)
             /\ j < n => ChildrenAt(next, g[j]) = {step(j + 1)}
             /\ j = n => ChildrenAt(next, g[j]) = {}
  <2>1. j \in 0 .. n /\ g[j] \notin W /\ g[j] \notin V /\ g[j] \in Path /\ Len(g[j]) = j
    BY <1>1, <1>7
  <2>2. ChildrenAt(paths, g[j]) = {} /\ g[j] # <<>>
    <3>1. paths \in Seq(Path)
      BY <1>0, PlacingIs
    <3> QED BY <2>1, <3>1, WayOrSaid DEF IsThere, W
  <2>3. \A k \in 1 .. n : g[j] = g[k - 1] <=> k = j + 1
    <3>1. \A k \in 1 .. n : Len(g[k - 1]) = k - 1
      BY <1>1, \A k \in 1 .. n : k - 1 \in 0 .. n
    <3>2. \A k \in 1 .. n : k = j + 1 => k - 1 = j
      BY <1>1
    <3>3. \A k \in 1 .. n : j = k - 1 => k = j + 1
      BY <1>1
    <3> QED BY <2>1, <3>1, <3>2, <3>3
  <2>4. CASE j = n
    <3>1. ChildrenAt(next, g[j]) = {}
      <4>1. \A k \in 1 .. n : k # j + 1
        BY <1>1, <2>4
      <4> QED BY <1>3, <2>1, <2>2, <2>3, <4>1
    <3>2. KindSaid(array, next, g[j]) = "value" /\ NewKind(loc, j) = "value"
      BY <1>2, <2>4 DEF KindSaid, NewKind, n
    <3>3. ~(j < n)
      BY <1>1, <2>4
    <3> QED BY <3>1, <3>2, <3>3
  <2>5. CASE j < n
    <3> DEFINE k == j + 1
    <3>1. k \in 1 .. n /\ g[k - 1] = g[j] /\ j # n /\ k - 1 = j
      BY <1>1, <2>5
    <3> HIDE DEF k
    <3>2. ChildrenAt(next, g[j]) = {step(k)}
      BY <1>3, <2>1, <2>2, <2>3, <3>1 DEF k
    <3>3. g[j] \notin ToSet(next)
      <4>1. g[j] # g[n]
        BY <1>1, <2>1, <3>1
      <4> QED BY <1>2, <2>1, <4>1
    <3>4. IsArrayAt(array, next, g[j]) <=> step(k)[1] = "["
      BY <2>2, <3>2 DEF IsArrayAt
    <3>5. step(k)[1] = "[" <=> loc[k].appends
      <4>1. ~IsArrayAt(array, paths, g[k - 1])
        BY <2>2, <3>1 DEF IsArrayAt
      <4>2. /\ loc[k].appends => StepSaid(array, paths, g[k - 1], loc[k])[1] = "["
            /\ ~loc[k].appends => StepSaid(array, paths, g[k - 1], loc[k])[1] # "["
        BY <1>0, <3>1, <4>1, StepIs DEF n
      <4> QED BY <4>2 DEF step
    <3>6. NewKind(loc, j) = IF loc[k].appends THEN "array" ELSE "object"
      BY <3>1 DEF NewKind, k, n
    <3>7. KindSaid(array, next, g[j]) = NewKind(loc, j)
      BY <3>3, <3>4, <3>5, <3>6 DEF KindSaid
    <3> QED BY <3>1, <3>2, <3>7 DEF k
  <2> QED BY <1>1, <2>4, <2>5
<1>8. \A j \in 1 .. n : j < n => (j + 1) - 1 = j
  BY <1>1
<1>9. \A j \in 1 .. n : j > e => /\ KindSaid(array, next, g[j]) = NewKind(loc, j)
                                 /\ j < n => ChildrenAt(next, g[j]) = {StepSaid(array, paths, g[j], loc[j + 1])}
                                 /\ j = n => ChildrenAt(next, g[j]) = {}
  BY <1>7, <1>8 DEF step
<1> QED BY <1>5, <1>6, <1>9 DEF next, W, V, n

\* Min finds the least of some numbers.
LEMMA MinIs ==
  ASSUME NEW S \in SUBSET Nat, NEW x \in S, \A y \in S : x <= y
  PROVE  Min(S) = x
<1>1. \A y \in S : (\A z \in S : y <= z) => y = x
  OBVIOUS
<1> QED BY <1>1 DEF Min

\* What there was keeps who made it, and what is new was made by the last argument.
LEMMA FirstThen ==
  ASSUME NEW nodes, NEW array, NEW paths, NEW loc, NEW g, NEW e, Placed(nodes, array, paths, loc, g, e)
  PROVE  LET next == Append(paths, g[Len(loc)])
         IN  /\ \A at \in OnTheWay(paths) : at # <<>> => /\ FirstUnder(next, at) = FirstUnder(paths, at)
                                                         /\ FirstUnder(paths, at) \in 1 .. Len(paths)
             /\ \A j \in 1 .. Len(loc) : j > e => FirstUnder(next, g[j]) = Len(paths) + 1 /\ g[j] # <<>>
<1> DEFINE n == Len(loc)
           next == Append(paths, g[n])
           m == Len(paths)
<1>0. Placing(nodes, array, paths, loc, g, e, Len(paths) + 1)
  BY DEF Placed
<1>1. /\ paths \in Seq(Path) /\ m \in Nat /\ DOMAIN paths = 1 .. m /\ DOMAIN next = 1 .. (m + 1)
      /\ \A i \in 1 .. m : next[i] = paths[i]
      /\ next[m + 1] = g[n]
      /\ n \in Nat /\ e \in 0 .. n
      /\ \A j \in 0 .. n : g[j] \in Path /\ Len(g[j]) = j /\ IsPrefix(g[j], g[n]) /\ (g[j] \in OnTheWay(paths) <=> j <= e)
  <2>1. paths \in Seq(Path) /\ n \in Nat /\ e \in 0 .. n
    BY <1>0, PlacingIs
  <2>2. n \in 0 .. n
    BY <2>1
  <2>3. \A j \in 0 .. n : g[j] \in Path /\ Len(g[j]) = j /\ IsPrefix(g[j], g[n]) /\ (g[j] \in OnTheWay(paths) <=> j <= e)
    BY <1>0, <2>1, <2>2, PlacingIs
  <2>4. DOMAIN next = 1 .. (m + 1) /\ (\A i \in 1 .. m : next[i] = paths[i]) /\ next[m + 1] = g[n]
    BY WayThen
  <2> QED BY <2>1, <2>3, <2>4
<1>2. \A at \in Path : at \in OnTheWay(paths) <=> at = <<>> \/ \E p \in ToSet(paths) : IsPrefix(at, p)
  BY <1>1, WayIs
<1>3. OnTheWay(paths) \subseteq Path
  BY <1>1, WayIs
<1> HIDE DEF next, n, m
<1>4. ASSUME NEW at \in OnTheWay(paths), at # <<>>
      PROVE  FirstUnder(next, at) = FirstUnder(paths, at) /\ FirstUnder(paths, at) \in 1 .. m
  <2> DEFINE S == {i \in DOMAIN paths : IsPrefix(at, paths[i])}
             S2 == {i \in DOMAIN next : IsPrefix(at, next[i])}
  <2>1. S # {} /\ S \in SUBSET Nat /\ S2 \in SUBSET Nat
    <3>1. PICK p \in ToSet(paths) : IsPrefix(at, p)
      BY <1>2, <1>3, <1>4
    <3> QED BY <1>1, <3>1 DEF ToSet
  <2>2. PICK x \in S : \A y \in S : x <= y
    BY <2>1, Least
  <2>3. x \in S2 /\ \A y \in S2 : x <= y
    <3>1. x \in 1 .. m /\ x \in S2
      BY <1>1
    <3>2. ASSUME NEW y \in S2 PROVE x <= y
      <4>1. y \in S \/ y = m + 1
        BY <1>1
      <4> QED BY <1>1, <2>2, <3>1, <4>1
    <3> QED BY <3>1, <3>2
  <2>4. x \in 1 .. m
    BY <1>1
  <2> HIDE DEF S, S2
  <2>5. Min(S) = x /\ Min(S2) = x
    BY <2>1, <2>2, <2>3, MinIs
  <2> QED BY <2>4, <2>5 DEF FirstUnder, S, S2
<1>5. ASSUME NEW j \in 1 .. n, j > e PROVE FirstUnder(next, g[j]) = m + 1 /\ g[j] # <<>>
  <2> DEFINE S2 == {i \in DOMAIN next : IsPrefix(g[j], next[i])}
  <2>1. j \in 0 .. n /\ g[j] \in Path /\ Len(g[j]) = j /\ IsPrefix(g[j], g[n]) /\ g[j] \notin OnTheWay(paths)
    BY <1>1, <1>5
  <2>2. S2 = {m + 1}
    <3>1. m + 1 \in S2
      BY <1>1, <2>1
    <3>2. ASSUME NEW i \in S2 PROVE i = m + 1
      <4>1. CASE i \in 1 .. m
        <5>1. paths[i] \in ToSet(paths) /\ IsPrefix(g[j], paths[i])
          BY <1>1, <4>1 DEF ToSet
        <5> QED BY <1>2, <2>1, <5>1
      <4> QED BY <1>1, <4>1
    <3> QED BY <3>1, <3>2
  <2> HIDE DEF S2
  <2>3. Min(S2) = m + 1
    <3>1. m + 1 \in Nat
      BY <1>1
    <3> QED BY <2>2, <3>1, MinIs
  <2>4. g[j] # <<>>
    BY <1>2, <2>1
  <2> QED BY <2>3, <2>4 DEF FirstUnder, S2
<1> QED BY <1>4, <1>5 DEF next, n, m

\* What is new in a container.
LEMMA InsideThen ==
  ASSUME NEW nodes, NEW array, NEW paths, NEW loc, NEW g, NEW e, Placed(nodes, array, paths, loc, g, e), NEW at \in Path
  PROVE  LET Q == Grown(nodes, g, loc, e, Len(loc), Len(paths) + 1)
             m == Len(nodes)
             n == Len(loc)
         IN  /\ Q \in Seq(NodeSet) /\ Len(Q) = m + (n - e) /\ DOMAIN Q = 1 .. (m + (n - e))
             /\ \A i \in 1 .. m : Q[i] = nodes[i]
             /\ \A i \in DOMAIN Q : i > m => LET j == e + (i - m)
                                             IN  /\ j \in 1 .. n /\ j > e
                                                 /\ Q[i].path = g[j] /\ Q[i].kind = NewKind(loc, j) /\ Q[i].by = Len(paths) + 1
                                                 /\ IsIn(Q[i], at) <=> at = g[j - 1]
                                                 /\ Last(Q[i].path) = StepSaid(array, paths, g[j - 1], loc[j])
<1> DEFINE n == Len(loc)
           m == Len(nodes)
           by == Len(paths) + 1
           Q == Grown(nodes, g, loc, e, n, by)
           step(k) == StepSaid(array, paths, g[k - 1], loc[k])
<1>0. Placing(nodes, array, paths, loc, g, e, by)
  BY DEF Placed
<1>1. n \in Nat /\ n \in 0 .. n /\ e \in 0 .. n /\ n > e /\ m \in Nat /\ \A j \in 0 .. n : g[j] \in Path
  <2>1. n \in Nat /\ e \in 0 .. n /\ m \in Nat /\ \A j \in 0 .. n : g[j] \in Path
    BY <1>0, PlacingIs
  <2>2. e < n
    BY WayThen
  <2> QED BY <2>1, <2>2
<1>2. /\ Q \in Seq(NodeSet) /\ Len(Q) = m + (IF n > e THEN n - e ELSE 0) /\ DOMAIN Q = 1 .. Len(Q)
      /\ \A i \in 1 .. m : Q[i] = nodes[i]
      /\ \A i \in DOMAIN Q : i > m => /\ e + (i - m) \in 1 .. n /\ e + (i - m) > e
                                      /\ Q[i] = Node(g[e + (i - m)], NewKind(loc, e + (i - m)), by)
  <2> HIDE DEF by
  <2>1. \A k \in 0 .. n : LET P == Grown(nodes, g, loc, e, k, by)
                         IN  /\ P \in Seq(NodeSet) /\ Len(P) = m + (IF k > e THEN k - e ELSE 0) /\ DOMAIN P = 1 .. Len(P)
                             /\ \A i \in 1 .. m : P[i] = nodes[i]
                             /\ \A i \in DOMAIN P : i > m => /\ e + (i - m) \in 1 .. k /\ e + (i - m) > e
                                                             /\ P[i] = Node(g[e + (i - m)], NewKind(loc, e + (i - m)), by)
    BY <1>0, GrownIs
  <2> HIDE DEF n, m
  <2> QED BY <1>1, <2>1
<1>3. Len(Q) = m + (n - e)
  BY <1>1, <1>2
<1>4. \A path, kind : Node(path, kind, by).path = path /\ Node(path, kind, by).kind = kind /\ Node(path, kind, by).by = by
  BY DEF Node
<1> HIDE DEF Q, step, by
<1>5. ASSUME NEW i \in DOMAIN Q, i > m
      PROVE  LET j == e + (i - m)
             IN  /\ j \in 1 .. n /\ j > e
                 /\ Q[i].path = g[j] /\ Q[i].kind = NewKind(loc, j) /\ Q[i].by = by
                 /\ IsIn(Q[i], at) <=> at = g[j - 1]
                 /\ Last(Q[i].path) = step(j)
  <2> DEFINE j == e + (i - m)
             b == g[j - 1]
             d == step(j)
  <2>1. j \in 1 .. n /\ j > e /\ Q[i] = Node(g[j], NewKind(loc, j), by)
    BY <1>2, <1>5
  <2> HIDE DEF j
  <2>2. Q[i].path = g[j] /\ Q[i].kind = NewKind(loc, j) /\ Q[i].by = by
    BY <1>4, <2>1
  <2>3. d \in Steps /\ g[j] = Append(b, d)
    BY <1>0, <2>1, StepIs DEF step
  <2>4. b \in Path /\ Q[i] \in NodeSet
    <3>1. j - 1 \in 0 .. n
      BY <1>1, <2>1
    <3> QED BY <1>1, <1>2, <3>1
  <2> HIDE DEF b, d
  <2>5. Last(Q[i].path) = d /\ IsIn(Q[i], b)
    <3> DEFINE node == Q[i]
    <3>1. node \in NodeSet /\ node.path = Append(b, d)
      BY <2>2, <2>3, <2>4
    <3> HIDE DEF node
    <3>2. Last(node.path) = d /\ IsIn(node, b)
      BY <2>3, <2>4, <3>1, InsideIs
    <3> QED BY <3>2 DEF node
  <2>6. ASSUME IsIn(Q[i], at) PROVE at = b
    <3> DEFINE c == Last(Q[i].path)
    <3>1. c \in Steps /\ Append(at, c) = Append(b, d)
      BY <2>2, <2>3, <2>4, <2>6, InsideIs
    <3> HIDE DEF c
    <3> QED BY <2>3, <2>4, <3>1, AppendInjective DEF Path
  <2>7. IsIn(Q[i], at) <=> at = b
    BY <2>5, <2>6
  <2> QED BY <2>1, <2>2, <2>5, <2>7 DEF j, b, d
<1>6. DOMAIN Q = 1 .. (m + (n - e))
  BY <1>2, <1>3
<1> QED BY <1>2, <1>3, <1>5, <1>6 DEF Q, step, by

-----------------------------------------------------------------------------
(* The plan with one place more. *)

\* The nodes then are those on the way.
LEMMA PathsThen ==
  ASSUME NEW nodes, NEW array, NEW paths, NEW loc, NEW g, NEW e, Placed(nodes, array, paths, loc, g, e)
  PROVE  LET Q == Grown(nodes, g, loc, e, Len(loc), Len(paths) + 1)
         IN  {Q[i].path : i \in DOMAIN Q} = OnTheWay(Append(paths, g[Len(loc)]))
<1> DEFINE n == Len(loc)
           by == Len(paths) + 1
           Q == Grown(nodes, g, loc, e, n, by)
           W2 == OnTheWay(Append(paths, g[n]))
<1>1. Placing(nodes, array, paths, loc, g, e, by)
  BY DEF Placed
<1>2. n \in 0 .. n
  BY <1>1, PlacingIs
<1>3. \A at : IsPlanned(Q, at) <=> at \in OnTheWay(paths) \/ \E j \in 0 .. n : at = g[j]
  <2> HIDE DEF by
  <2> QED BY <1>1, <1>2, PlannedIs
<1>4. W2 = OnTheWay(paths) \union {g[j] : j \in 0 .. n}
  <2>1. LET next == Append(paths, g[Len(loc)])
        IN  /\ next \in Seq(Path) /\ Len(next) = Len(paths) + 1 /\ DOMAIN next = 1 .. (Len(paths) + 1)
            /\ \A i \in 1 .. Len(paths) : next[i] = paths[i]
            /\ next[Len(paths) + 1] = g[Len(loc)]
            /\ ToSet(next) = ToSet(paths) \union {g[Len(loc)]}
            /\ OnTheWay(next) = OnTheWay(paths) \union {g[j] : j \in 0 .. Len(loc)}
            /\ g[Len(loc)] \notin OnTheWay(paths) /\ e < Len(loc)
    BY WayThen, Zenon
  <2> QED BY <2>1, Zenon
<1> HIDE DEF Q, W2
<1>5. {Q[i].path : i \in DOMAIN Q} = W2
  BY <1>3, <1>4 DEF IsPlanned
<1> QED BY <1>5 DEF Q, W2

\* Each is of the kind said, and made by the first that has it on its way.
LEMMA NodesThen ==
  ASSUME NEW nodes, NEW array, NEW paths, NEW loc, NEW g, NEW e, Placed(nodes, array, paths, loc, g, e)
  PROVE  LET Q == Grown(nodes, g, loc, e, Len(loc), Len(paths) + 1)
             next == Append(paths, g[Len(loc)])
         IN  \A i \in DOMAIN Q : /\ Q[i].kind = KindSaid(array, next, Q[i].path)
                                 /\ Q[i].by = IF Q[i].path = <<>> THEN 0 ELSE FirstUnder(next, Q[i].path)
<1> DEFINE n == Len(loc)
           m == Len(nodes)
           by == Len(paths) + 1
           Q == Grown(nodes, g, loc, e, n, by)
           next == Append(paths, g[n])
<1>1. PlanInv(nodes, array, paths) /\ m \in Nat /\ DOMAIN nodes = 1 .. m
  <2>1. Placing(nodes, array, paths, loc, g, e, by)
    BY DEF Placed
  <2>2. PlanInv(nodes, array, paths)
    BY <2>1 DEF Placing
  <2> QED BY <2>1, <2>2, PlacingIs
<1>2. <<>> \in Path
  BY DEF Path
<1>3. /\ DOMAIN Q = 1 .. (m + (n - e))
      /\ \A i \in 1 .. m : Q[i] = nodes[i]
      /\ \A i \in DOMAIN Q : i > m => /\ e + (i - m) \in 1 .. n /\ e + (i - m) > e
                                      /\ Q[i].path = g[e + (i - m)] /\ Q[i].kind = NewKind(loc, e + (i - m)) /\ Q[i].by = by
  BY <1>2, InsideThen
<1>4. /\ \A at \in OnTheWay(paths) : KindSaid(array, next, at) = KindSaid(array, paths, at)
      /\ \A j \in 1 .. n : j > e => KindSaid(array, next, g[j]) = NewKind(loc, j)
  BY KindThen
<1>5. /\ \A at \in OnTheWay(paths) : at # <<>> => FirstUnder(next, at) = FirstUnder(paths, at)
      /\ \A j \in 1 .. n : j > e => FirstUnder(next, g[j]) = by /\ g[j] # <<>>
  BY FirstThen
<1>6. \A i \in DOMAIN nodes : /\ nodes[i].path \in OnTheWay(paths)
                             /\ nodes[i].kind = KindSaid(array, paths, nodes[i].path)
                             /\ nodes[i].by = IF nodes[i].path = <<>> THEN 0 ELSE FirstUnder(paths, nodes[i].path)
  <2>1. \A i \in DOMAIN nodes : nodes[i].path \in OnTheWay(paths)
    BY <1>1, NodesAre
  <2>2. \A i \in DOMAIN nodes : /\ nodes[i].kind = KindSaid(array, paths, nodes[i].path)
                               /\ nodes[i].by = IF nodes[i].path = <<>> THEN 0 ELSE FirstUnder(paths, nodes[i].path)
    BY <1>1 DEF PlanInv, IsPlanOf
  <2> QED BY <2>1, <2>2
<1> HIDE DEF Q, next, by, m, n
<1>7. ASSUME NEW i \in DOMAIN Q
      PROVE  /\ Q[i].kind = KindSaid(array, next, Q[i].path)
             /\ Q[i].by = IF Q[i].path = <<>> THEN 0 ELSE FirstUnder(next, Q[i].path)
  <2>1. CASE i \in 1 .. m
    BY <1>1, <1>3, <1>4, <1>5, <1>6, <2>1
  <2>2. CASE i > m
    <3> DEFINE j == e + (i - m)
    <3>1. j \in 1 .. n /\ j > e /\ Q[i].path = g[j] /\ Q[i].kind = NewKind(loc, j) /\ Q[i].by = by
      BY <1>3, <2>2
    <3> HIDE DEF j
    <3> QED BY <1>4, <1>5, <3>1
  <2>3. i \in 1 .. m \/ i > m
    BY <1>1, <1>3
  <2> QED BY <2>1, <2>2, <2>3
<1> QED BY <1>7 DEF Q, next, by, n

\* They are in the order of who made them, a container before what is in it.
LEMMA OrderThen ==
  ASSUME NEW nodes, NEW array, NEW paths, NEW loc, NEW g, NEW e, Placed(nodes, array, paths, loc, g, e)
  PROVE  LET Q == Grown(nodes, g, loc, e, Len(loc), Len(paths) + 1)
         IN  \A i, j \in DOMAIN Q : i < j => Q[i].by <= Q[j].by /\ ~IsPrefix(Q[j].path, Q[i].path)
<1> DEFINE n == Len(loc)
           m == Len(nodes)
           by == Len(paths) + 1
           Q == Grown(nodes, g, loc, e, n, by)
<1>0. Placing(nodes, array, paths, loc, g, e, by)
  BY DEF Placed
<1>1. PlanInv(nodes, array, paths) /\ m \in Nat /\ DOMAIN nodes = 1 .. m /\ n \in Nat /\ e \in 0 .. n /\ paths \in Seq(Path)
      /\ \A k \in 0 .. n : g[k] \in Path /\ Len(g[k]) = k /\ (g[k] \in OnTheWay(paths) <=> k <= e)
  <2>2. PlanInv(nodes, array, paths)
    BY <1>0 DEF Placing
  <2> QED BY <1>0, <2>2, PlacingIs
<1>2. <<>> \in Path
  BY DEF Path
<1>3. /\ DOMAIN Q = 1 .. (m + (n - e)) /\ Q \in Seq(NodeSet)
      /\ \A i \in 1 .. m : Q[i] = nodes[i]
      /\ \A i \in DOMAIN Q : i > m => e + (i - m) \in 1 .. n /\ e + (i - m) > e /\ Q[i].path = g[e + (i - m)] /\ Q[i].by = by
  BY <1>2, InsideThen
<1>4. \A at \in OnTheWay(paths) : at # <<>> => FirstUnder(paths, at) \in 1 .. Len(paths)
  BY FirstThen
<1>5. \A i \in DOMAIN nodes : nodes[i].path \in OnTheWay(paths) /\ nodes[i].by \in Nat /\ nodes[i].by <= by
  <2> SUFFICES ASSUME NEW i \in DOMAIN nodes PROVE nodes[i].path \in OnTheWay(paths) /\ nodes[i].by \in Nat /\ nodes[i].by <= by
    OBVIOUS
  <2>1. nodes[i].path \in OnTheWay(paths)
    BY <1>1, NodesAre
  <2>2. nodes[i].by = IF nodes[i].path = <<>> THEN 0 ELSE FirstUnder(paths, nodes[i].path)
    BY <1>1 DEF PlanInv, IsPlanOf
  <2>3. Len(paths) \in Nat
    BY <1>1
  <2> QED BY <1>4, <2>1, <2>2, <2>3
<1>6. \A i, j \in DOMAIN nodes : i < j => nodes[i].by <= nodes[j].by /\ ~IsPrefix(nodes[j].path, nodes[i].path)
  BY <1>1 DEF PlanInv, IsPlanOf
<1>7. by \in Nat
  BY <1>1
<1>8. OnTheWay(paths) \subseteq Path
  BY <1>1, WayIs
<1> HIDE DEF Q, by, m, n
<1>9. ASSUME NEW i \in DOMAIN Q, NEW j \in DOMAIN Q, i < j
      PROVE  Q[i].by <= Q[j].by /\ ~IsPrefix(Q[j].path, Q[i].path)
  <2>1. CASE j \in 1 .. m
    <3>1. i \in 1 .. m
      BY <1>1, <1>3, <1>9, <2>1
    <3> QED BY <1>1, <1>3, <1>6, <1>9, <2>1, <3>1
  <2>2. CASE i \in 1 .. m /\ j > m
    <3> DEFINE l == e + (j - m)
    <3>1. l \in 1 .. n /\ l > e /\ Q[j].path = g[l] /\ Q[j].by = by
      BY <1>3, <2>2
    <3> HIDE DEF l
    <3>2. g[l] \in Path /\ g[l] \notin OnTheWay(paths)
      BY <1>1, <3>1
    <3>3. Q[i] = nodes[i] /\ i \in DOMAIN nodes
      BY <1>1, <1>3, <2>2
    <3>4. ~IsPrefix(g[l], nodes[i].path)
      BY <1>1, <1>5, <3>2, <3>3, WayBefore
    <3> QED BY <1>5, <3>1, <3>3, <3>4
  <2>3. CASE i > m /\ j > m
    <3> DEFINE l == e + (j - m)
               k == e + (i - m)
    <3>1. l \in 1 .. n /\ Q[j].path = g[l] /\ Q[j].by = by /\ k \in 1 .. n /\ Q[i].path = g[k] /\ Q[i].by = by /\ k < l
      BY <1>1, <1>3, <1>9, <2>3
    <3> HIDE DEF l, k
    <3>2. g[l] \in Path /\ g[k] \in Path /\ Len(g[l]) = l /\ Len(g[k]) = k
      BY <1>1, <3>1
    <3>3. ~IsPrefix(g[l], g[k])
      BY <3>1, <3>2, PrefixBegins
    <3> QED BY <1>7, <3>1, <3>3
  <2>4. (i \in 1 .. m \/ i > m) /\ (j \in 1 .. m \/ j > m)
    BY <1>1, <1>3
  <2> QED BY <2>1, <2>2, <2>3, <2>4
<1> QED BY <1>9 DEF Q, by, n

\* The elements of an array are numbered in the order of their nodes.
LEMMA RanksThen ==
  ASSUME NEW nodes, NEW array, NEW paths, NEW loc, NEW g, NEW e, Placed(nodes, array, paths, loc, g, e), NEW at \in Path,
         NEW R, R = Grown(nodes, g, loc, e, Len(loc), Len(paths) + 1), NEW h \in DOMAIN R, R[h].path = at, R[h].kind = "array"
  PROVE  \A x \in Inside(R, at) : Last(R[x].path) = Index(Cardinality({f \in Inside(R, at) : f < x}))
<1> DEFINE n == Len(loc)
           m == Len(nodes)
           by == Len(paths) + 1
           Q == Grown(nodes, g, loc, e, n, by)
           step(k) == StepSaid(array, paths, g[k - 1], loc[k])
           W == OnTheWay(paths)
<1>0. Placing(nodes, array, paths, loc, g, e, by) /\ \A k \in 1 .. n : Goes(g, array, paths, loc, k)
  BY DEF Placed
<1>1. PlanInv(nodes, array, paths) /\ m \in Nat /\ DOMAIN nodes = 1 .. m /\ n \in Nat /\ e \in 0 .. n /\ paths \in Seq(Path)
      /\ \A k \in 0 .. n : g[k] \in Path /\ Len(g[k]) = k /\ (g[k] \in W <=> k <= e)
  <2>2. PlanInv(nodes, array, paths)
    BY <1>0 DEF Placing
  <2> QED BY <1>0, <2>2, PlacingIs
<1>3. /\ DOMAIN Q = 1 .. (m + (n - e)) /\ Q \in Seq(NodeSet)
      /\ \A i \in 1 .. m : Q[i] = nodes[i]
      /\ \A i \in DOMAIN Q : i > m => \E j \in 1 .. n : /\ j = e + (i - m) /\ j > e
                                                        /\ Q[i].path = g[j] /\ Q[i].kind = NewKind(loc, j)
                                                        /\ IsIn(Q[i], at) <=> at = g[j - 1]
                                                        /\ Last(Q[i].path) = step(j)
  <2>1. /\ DOMAIN Q = 1 .. (m + (n - e)) /\ Q \in Seq(NodeSet)
        /\ \A i \in 1 .. m : Q[i] = nodes[i]
    BY InsideThen
  <2>2. ASSUME NEW i \in DOMAIN Q, i > m
        PROVE  LET j == e + (i - m)
               IN  /\ j \in 1 .. n /\ j > e
                   /\ Q[i].path = g[j] /\ Q[i].kind = NewKind(loc, j) /\ Q[i].by = by
                   /\ IsIn(Q[i], at) <=> at = g[j - 1]
                   /\ Last(Q[i].path) = StepSaid(array, paths, g[j - 1], loc[j])
    BY <2>2, InsideThen
  <2>3. ASSUME NEW i \in DOMAIN Q, i > m
        PROVE  \E j \in 1 .. n : /\ j = e + (i - m) /\ j > e
                                 /\ Q[i].path = g[j] /\ Q[i].kind = NewKind(loc, j)
                                 /\ IsIn(Q[i], at) <=> at = g[j - 1]
                                 /\ Last(Q[i].path) = step(j)
    BY <2>2, <2>3, Zenon
  <2> QED BY <2>1, <2>3
<1>4. h \in DOMAIN Q /\ Q[h].path = at /\ Q[h].kind = "array"
  BY Zenon
<1>5. \A i \in DOMAIN nodes : nodes[i].path \in W /\ nodes[i].kind = KindSaid(array, paths, nodes[i].path) /\ nodes[i] \in NodeSet
  <2>1. \A i \in DOMAIN nodes : nodes[i].path \in W /\ nodes[i] \in NodeSet
    BY <1>1, NodesAre
  <2>2. \A i \in DOMAIN nodes : nodes[i].kind = KindSaid(array, paths, nodes[i].path)
    BY <1>1 DEF PlanInv, IsPlanOf
  <2> QED BY <2>1, <2>2
<1>6. Cardinality(Inside(nodes, at)) = Cardinality(ChildrenAt(paths, at))
  BY <1>1, InsideCounts
<1>7. \A i \in DOMAIN nodes : nodes[i].kind = "array" =>
        \A x \in Inside(nodes, nodes[i].path) :
          Last(nodes[x].path) = Index(Cardinality({f \in Inside(nodes, nodes[i].path) : f < x}))
  BY <1>1 DEF PlanInv, IsPlanOf
<1>8. \A k \in 1 .. n : /\ g[k - 1] \in W => /\ IsArrayAt(array, paths, g[k - 1]) <=> step(k)[1] = "["
                                             /\ ~loc[k].appends /\ step(k)[1] = "[" => g[k] \in W
                        /\ loc[k].appends => step(k) = Index(Cardinality(ChildrenAt(paths, g[k - 1])))
  BY <1>0, StepIs DEF Goes
<1> HIDE DEF Q, by, step, W
<1>9. \A i \in 1 .. m : IsIn(Q[i], at) <=> i \in Inside(nodes, at)
  BY <1>1, <1>3 DEF Inside
<1>10. \A x \in Inside(nodes, at) : x \in 1 .. m
  BY <1>1 DEF Inside
<1>11. at \in W => h \in 1 .. m
  <2> SUFFICES ASSUME h > m, at \in W PROVE FALSE
    BY <1>1, <1>3, <1>4
  <2>1. PICK l \in 1 .. n : l > e /\ at = g[l]
    BY <1>3, <1>4
  <2> QED BY <1>1, <2>1
<1>12. ASSUME NEW x \in DOMAIN Q, IsIn(Q[x], at), x \in 1 .. m
       PROVE  Last(Q[x].path) = Index(Cardinality({f \in Inside(Q, at) : f < x}))
  <2>1. x \in Inside(nodes, at)
    BY <1>9, <1>12
  <2>2. at \in W
    <3>1. nodes[x].path \in W /\ IsPrefix(at, nodes[x].path)
      BY <1>1, <1>5, <1>12, <2>1 DEF Inside, IsIn
    <3> QED BY <1>1, <3>1, WayBefore DEF W
  <2>3. h \in DOMAIN nodes /\ nodes[h].path = at /\ nodes[h].kind = "array"
    BY <1>1, <1>3, <1>4, <1>11, <2>2
  <2>4. Last(nodes[x].path) = Index(Cardinality({f \in Inside(nodes, at) : f < x}))
    BY <1>7, <2>1, <2>3
  <2>5. {f \in Inside(Q, at) : f < x} = {f \in Inside(nodes, at) : f < x}
    <3>1. ASSUME NEW f, f \in Inside(Q, at), f < x PROVE f \in Inside(nodes, at)
      <4>1. f \in DOMAIN Q /\ IsIn(Q[f], at)
        BY <3>1 DEF Inside
      <4>2. f \in 1 .. m
        BY <1>1, <1>3, <1>12, <3>1, <4>1
      <4> QED BY <1>9, <4>1, <4>2
    <3>2. ASSUME NEW f, f \in Inside(nodes, at) PROVE f \in Inside(Q, at)
      <4>1. f \in 1 .. m /\ IsIn(Q[f], at)
        BY <1>9, <1>10, <3>2
      <4>2. f \in DOMAIN Q
        BY <1>1, <1>3, <4>1
      <4> QED BY <4>1, <4>2 DEF Inside
    <3> QED BY <3>1, <3>2
  <2> QED BY <1>3, <1>12, <2>4, <2>5
<1>13. ASSUME NEW x \in DOMAIN Q, IsIn(Q[x], at), x > m
       PROVE  Last(Q[x].path) = Index(Cardinality({f \in Inside(Q, at) : f < x}))
  <2>0. PICK j \in 1 .. n : /\ j = e + (x - m) /\ j > e
                            /\ Q[x].path = g[j] /\ Q[x].kind = NewKind(loc, j)
                            /\ IsIn(Q[x], at) <=> at = g[j - 1]
                            /\ Last(Q[x].path) = step(j)
    BY <1>3, <1>13
  <2>1. j \in 1 .. n /\ j > e /\ at = g[j - 1] /\ Last(Q[x].path) = step(j) /\ j = e + (x - m)
    BY <1>13, <2>0
  <2>2. {f \in Inside(Q, at) : f < x} = Inside(nodes, at)
    <3>1. ASSUME NEW f, f \in Inside(Q, at), f < x PROVE f \in Inside(nodes, at)
      <4>1. f \in DOMAIN Q /\ IsIn(Q[f], at)
        BY <3>1 DEF Inside
      <4>2. CASE f > m
        <5>1. PICK l \in 1 .. n : at = g[l - 1] /\ l = e + (f - m)
          BY <1>3, <4>1, <4>2
        <5>2. l < j
          <6>1. e \in Nat /\ m \in Nat /\ n \in Nat /\ f \in 1 .. (m + (n - e)) /\ x \in 1 .. (m + (n - e))
            BY <1>1, <1>3, <4>1
          <6>2. f < x /\ l = e + (f - m) /\ j = e + (x - m)
            BY <2>1, <3>1, <5>1
          <6> HIDE DEF m, n
          <6> QED BY <6>1, <6>2
        <5>3. l - 1 \in 0 .. n /\ j - 1 \in 0 .. n
          BY <1>1, <2>1, <5>1
        <5>4. Len(g[l - 1]) = l - 1 /\ Len(g[j - 1]) = j - 1
          BY <1>1, <5>3
        <5> QED BY <2>1, <5>1, <5>2, <5>4
      <4>3. CASE f \in 1 .. m
        BY <1>9, <4>1, <4>3
      <4> QED BY <1>1, <1>3, <4>1, <4>2, <4>3
    <3>2. ASSUME NEW f, f \in Inside(nodes, at) PROVE f \in Inside(Q, at) /\ f < x
      <4>1. f \in 1 .. m /\ IsIn(Q[f], at)
        BY <1>9, <1>10, <3>2
      <4>2. f \in DOMAIN Q /\ f < x
        <5>1. DOMAIN Q = 1 .. (m + (n - e)) /\ m \in Nat /\ m + (n - e) >= m
          BY <1>1, <1>3
        <5>2. x \in 1 .. (m + (n - e)) /\ x > m /\ f \in 1 .. m
          BY <1>13, <4>1, <5>1
        <5> HIDE DEF m, n
        <5>3. f < x /\ f \in 1 .. (m + (n - e))
          BY <5>1, <5>2, <1>1
        <5> QED BY <5>1, <5>3
      <4> QED BY <4>1, <4>2 DEF Inside
    <3> QED BY <3>1, <3>2
  <2>3. loc[j].appends
    <3>1. CASE at \in W
      <4>1. h \in DOMAIN nodes /\ nodes[h].path = at /\ nodes[h].kind = "array"
        BY <1>1, <1>3, <1>4, <1>11, <3>1
      <4>2. KindSaid(array, paths, at) = "array"
        BY <1>5, <4>1
      <4>3. IsArrayAt(array, paths, at)
        BY <4>2 DEF KindSaid
      <4>4. g[j] \notin W
        BY <1>1, <2>1
      <4> QED BY <1>8, <2>1, <3>1, <4>3, <4>4
    <3>2. CASE at \notin W
      <4>1. h > m
        <5>1. ASSUME h \in 1 .. m PROVE FALSE
          <6>1. Q[h] = nodes[h] /\ nodes[h].path \in W
            BY <1>1, <1>3, <1>5, <5>1
          <6> QED BY <1>4, <3>2, <6>1
        <5>2. h \in 1 .. m \/ h > m
          BY <1>1, <1>3, <1>4
        <5> QED BY <5>1, <5>2
      <4>2. PICK l \in 1 .. n : at = g[l] /\ NewKind(loc, l) = "array"
        BY <1>3, <1>4, <4>1
      <4>3. l = j - 1
        <5>1. j - 1 \in 0 .. n /\ l \in 0 .. n
          BY <1>1, <2>1, <4>2
        <5>2. Len(g[j - 1]) = j - 1 /\ Len(g[l]) = l
          BY <1>1, <5>1
        <5> QED BY <2>1, <4>2, <5>2
      <4>4. l + 1 = j
        BY <1>1, <2>1, <4>2, <4>3
      <4> QED BY <4>2, <4>4 DEF NewKind
    <3> QED BY <3>1, <3>2
  <2>4. step(j) = Index(Cardinality(ChildrenAt(paths, at)))
    BY <1>8, <2>1, <2>3
  <2> QED BY <1>6, <2>1, <2>2, <2>4
<1>14. \A x \in Inside(Q, at) : Last(Q[x].path) = Index(Cardinality({f \in Inside(Q, at) : f < x}))
  <2> SUFFICES ASSUME NEW x \in Inside(Q, at) PROVE Last(Q[x].path) = Index(Cardinality({f \in Inside(Q, at) : f < x}))
    OBVIOUS
  <2>1. x \in DOMAIN Q /\ IsIn(Q[x], at)
    BY DEF Inside
  <2>2. x \in 1 .. m \/ x > m
    BY <1>1, <1>3, <2>1
  <2> QED BY <1>12, <1>13, <2>1, <2>2
<1> QED BY <1>14, Zenon DEF Q, by, n

\* The children of an array are numbered from zero then too.
LEMMA NumberedThen ==
  ASSUME NEW nodes, NEW array, NEW paths, NEW loc, NEW g, NEW e, Placed(nodes, array, paths, loc, g, e)
  PROVE  Numbered(array, Append(paths, g[Len(loc)])) /\ Rooted(array, Append(paths, g[Len(loc)]))
<1> DEFINE n == Len(loc)
           next == Append(paths, g[n])
           W == OnTheWay(paths)
           V == ToSet(paths)
           step(k) == StepSaid(array, paths, g[k - 1], loc[k])
<1>0. Placing(nodes, array, paths, loc, g, e, Len(paths) + 1) /\ \A k \in 1 .. n : Goes(g, array, paths, loc, k)
  BY DEF Placed
<1>1. /\ n \in Nat /\ e \in 0 .. n /\ paths \in Seq(Path) /\ W \subseteq Path /\ array \in BOOLEAN /\ g[0] = <<>> /\ <<>> \notin V /\ Numbered(array, paths) /\ Rooted(array, paths)
      /\ \A k \in 0 .. n : g[k] \in Path /\ Len(g[k]) = k /\ (g[k] \in W <=> k <= e)
  <2>1. paths \in Seq(Path)
    BY <1>0, PlacingIs
  <2>2. W \subseteq Path
    BY <2>1, WayIs
  <2>3. array \in BOOLEAN /\ Numbered(array, paths) /\ Rooted(array, paths) /\ <<>> \notin V
    BY <1>0 DEF Placing, PlanInv
  <2> QED BY <1>0, <2>1, <2>2, <2>3, PlacingIs
<1>2. \A at \in Path :
        /\ ChildrenAt(paths, at) \subseteq ChildrenAt(next, at)
        /\ \A c \in ChildrenAt(next, at) : c \in ChildrenAt(paths, at) \/ \E k \in 1 .. n : at = g[k - 1] /\ c = step(k)
        /\ \A k \in 1 .. n : at = g[k - 1] => step(k) \in ChildrenAt(next, at)
  BY ChildrenThen
<1>3. \A at \in W : at \notin V => (IsArrayAt(array, next, at) <=> IsArrayAt(array, paths, at))
  BY KindThen
<1>4. \A j \in 1 .. n : j > e => /\ j < n => ChildrenAt(next, g[j]) = {StepSaid(array, paths, g[j], loc[j + 1])}
                                 /\ j = n => ChildrenAt(next, g[j]) = {}
  <2>1. LET next_ == Append(paths, g[Len(loc)])
        IN  /\ \A at \in OnTheWay(paths) : /\ at \notin ToSet(paths) => IsArrayAt(array, next_, at) <=> IsArrayAt(array, paths, at)
                                           /\ KindSaid(array, next_, at) = KindSaid(array, paths, at)
            /\ \A j \in 1 .. Len(loc) : j > e => /\ KindSaid(array, next_, g[j]) = NewKind(loc, j)
                                                 /\ j < Len(loc) => ChildrenAt(next_, g[j]) = {StepSaid(array, paths, g[j], loc[j + 1])}
                                                 /\ j = Len(loc) => ChildrenAt(next_, g[j]) = {}
    BY KindThen, Zenon
  <2> QED BY <2>1, Zenon
<1>5. \A k \in 1 .. n : /\ g[k - 1] \notin V
                        /\ g[k - 1] \in W => /\ IsArrayAt(array, paths, g[k - 1]) <=> step(k)[1] = "["
                                             /\ ~loc[k].appends /\ step(k)[1] = "[" => g[k] \in W
                        /\ loc[k].appends => step(k) = Index(Cardinality(ChildrenAt(paths, g[k - 1])))
                        /\ step(k) \in ChildrenAt(paths, g[k - 1]) <=> g[k] \in W
                        /\ ~loc[k].appends /\ ~IsArrayAt(array, paths, g[k - 1]) => step(k)[1] # "["
  <2>1. \A k \in 1 .. n : /\ g[k - 1] \notin V
                          /\ g[k - 1] \in W => /\ IsArrayAt(array, paths, g[k - 1]) <=> step(k)[1] = "["
                                               /\ ~loc[k].appends /\ step(k)[1] = "[" => g[k] \in W
    BY <1>0 DEF Goes
  <2>2. \A k \in 1 .. n : /\ loc[k].appends => step(k) = Index(Cardinality(ChildrenAt(paths, g[k - 1])))
                          /\ step(k) \in ChildrenAt(paths, g[k - 1]) <=> g[k] \in W
                          /\ ~loc[k].appends /\ ~IsArrayAt(array, paths, g[k - 1]) => step(k)[1] # "["
    BY <1>0, StepIs
  <2> HIDE DEF step, W, V, n
  <2> QED BY <2>1, <2>2
<1>6. OnTheWay(next) = W \union {g[j] : j \in 0 .. n}
  <2>1. LET next_ == Append(paths, g[Len(loc)])
        IN  /\ next_ \in Seq(Path) /\ Len(next_) = Len(paths) + 1 /\ DOMAIN next_ = 1 .. (Len(paths) + 1)
            /\ \A i \in 1 .. Len(paths) : next_[i] = paths[i]
            /\ next_[Len(paths) + 1] = g[Len(loc)]
            /\ ToSet(next_) = ToSet(paths) \union {g[Len(loc)]}
            /\ OnTheWay(next_) = OnTheWay(paths) \union {g[j] : j \in 0 .. Len(loc)}
            /\ g[Len(loc)] \notin OnTheWay(paths) /\ e < Len(loc)
    BY WayThen, Zenon
  <2> QED BY <2>1, Zenon
<1> HIDE DEF next, step, W, V, n
<1>7. ASSUME NEW at \in OnTheWay(next), IsArrayAt(array, next, at)
      PROVE  \E c \in Nat : ChildrenAt(next, at) = {Index(i) : i \in 0 .. (c - 1)}
  <2>1. CASE at \in W
    <3>0. at \in Path
      BY <1>1, <2>1
    <3>1. CASE ChildrenAt(next, at) = ChildrenAt(paths, at)
      <4>1. at \notin V \/ IsArrayAt(array, paths, at)
        <5>1. ASSUME at \in V PROVE IsArrayAt(array, paths, at)
          <6>1. at # <<>>
            BY <1>1, <5>1
          <6> QED BY <1>7, <3>1, <6>1 DEF IsArrayAt
        <5> QED BY <5>1
      <4>2. IsArrayAt(array, paths, at)
        BY <1>3, <1>7, <2>1, <4>1
      <4> QED BY <1>1, <2>1, <3>1, <4>2 DEF Numbered, W
    <3>2. CASE ChildrenAt(next, at) # ChildrenAt(paths, at)
      <4>1. PICK d \in ChildrenAt(next, at) : d \notin ChildrenAt(paths, at)
        BY <1>2, <3>0, <3>2
      <4>2. PICK k \in 1 .. n : at = g[k - 1] /\ d = step(k)
        BY <1>2, <3>0, <4>1
      <4>3. at \notin V /\ g[k] \notin W
        BY <1>5, <4>1, <4>2
      <4>4. IsArrayAt(array, paths, at)
        BY <1>3, <1>7, <2>1, <4>3
      <4>5. d = Index(Cardinality(ChildrenAt(paths, at)))
        BY <1>5, <2>1, <4>2, <4>3, <4>4
      <4>6. PICK c \in Nat : ChildrenAt(paths, at) = {Index(i) : i \in 0 .. (c - 1)}
        BY <1>1, <2>1, <4>4 DEF Numbered, W
      <4>7. Cardinality(ChildrenAt(paths, at)) = c
        BY <4>6, IndexesCount
      <4>8. ChildrenAt(next, at) = ChildrenAt(paths, at) \union {d}
        <5>1. \A l \in 1 .. n : at = g[l - 1] => l = k
          <6>1. \A l \in 1 .. n : l - 1 \in 0 .. n /\ Len(g[l - 1]) = l - 1
            BY <1>1, \A l \in 1 .. n : l - 1 \in 0 .. n
          <6>2. k - 1 \in 0 .. n /\ Len(at) = k - 1 /\ k \in Nat
            BY <4>2, <6>1
          <6>3. \A l \in 1 .. n : at = g[l - 1] => l - 1 = k - 1
            BY <6>1, <6>2
          <6> QED BY <6>2, <6>3
        <5>2. \A x \in ChildrenAt(next, at) : x \in ChildrenAt(paths, at) \/ x = d
          BY <1>2, <3>0, <4>2, <5>1
        <5> QED BY <1>2, <3>0, <5>2
      <4>9. {Index(i) : i \in 0 .. (c - 1)} \union {Index(c)} = {Index(i) : i \in 0 .. ((c + 1) - 1)}
        BY IndexesCount
      <4>10. c + 1 \in Nat /\ ChildrenAt(next, at) = {Index(i) : i \in 0 .. ((c + 1) - 1)}
        BY <4>5, <4>6, <4>7, <4>8, <4>9
      <4> QED BY <4>10, Zenon
    <3> QED BY <3>1, <3>2
  <2>2. CASE at \notin W
    <3>1. PICK j \in 0 .. n : at = g[j]
      BY <1>6, <2>2
    <3>2. j > e /\ j \in 1 .. n
      BY <1>1, <2>2, <3>1
    <3>3. at # <<>> /\ ChildrenAt(paths, at) = {} /\ ~IsArrayAt(array, paths, at)
      <4>1. at \in Path /\ paths \in Seq(Path)
        BY <1>1, <3>1
      <4>2. at # <<>> /\ ChildrenAt(paths, at) = {}
        BY <2>2, <4>1, WayOrSaid DEF IsThere, W
      <4> QED BY <4>2 DEF IsArrayAt
    <3>4. PICK d \in ChildrenAt(next, at) : d[1] = "["
      BY <1>7, <3>3 DEF IsArrayAt
    <3>5. j < n
      BY <1>1, <1>4, <3>1, <3>2, <3>4
    <3> DEFINE k == j + 1
    <3>6. k \in 1 .. n /\ k - 1 = j
      BY <1>1, <3>2, <3>5
    <3>7. ChildrenAt(next, at) = {StepSaid(array, paths, g[j], loc[j + 1])}
      BY <1>4, <3>1, <3>2, <3>5
    <3>8. ChildrenAt(next, at) = {step(k)}
      BY <3>6, <3>7 DEF step
    <3> HIDE DEF k
    <3>9. step(k)[1] = "["
      BY <3>4, <3>8
    <3>10. loc[k].appends
      BY <1>5, <3>1, <3>3, <3>6, <3>9
    <3>11. step(k) = Index(0)
      <4>1. step(k) = Index(Cardinality(ChildrenAt(paths, at)))
        BY <1>5, <3>1, <3>6, <3>10
      <4> QED BY <3>3, <4>1, FS_EmptySet
    <3>12. {Index(0)} = {Index(i) : i \in 0 .. (1 - 1)}
      <4>1. 0 .. (1 - 1) = {0}
        OBVIOUS
      <4> QED BY <4>1
    <3>13. 1 \in Nat /\ ChildrenAt(next, at) = {Index(i) : i \in 0 .. (1 - 1)}
      BY <3>8, <3>11, <3>12
    <3> QED BY <3>13, Zenon
  <2> QED BY <2>1, <2>2
<1>8. ASSUME ~array, NEW c \in ChildrenAt(next, <<>>), c[1] = "[" PROVE FALSE
  <2>1. <<>> \in Path /\ <<>> \in W
    <3>1. 0 \in 0 .. n /\ 0 <= e
      BY <1>1
    <3> QED BY <1>1, <3>1
  <2>2. CASE c \in ChildrenAt(paths, <<>>)
    BY <1>1, <1>8, <2>2 DEF Rooted
  <2>3. CASE \E k \in 1 .. n : <<>> = g[k - 1] /\ c = step(k)
    <3>1. PICK k \in 1 .. n : <<>> = g[k - 1] /\ c = step(k)
      BY <2>3
    <3>2. IsArrayAt(array, paths, <<>>) <=> step(k)[1] = "["
      BY <1>5, <2>1, <3>1
    <3>3. ~IsArrayAt(array, paths, <<>>)
      BY <1>8 DEF IsArrayAt
    <3> QED BY <1>8, <3>1, <3>2, <3>3
  <2> QED BY <1>2, <2>1, <2>2, <2>3
<1> QED BY <1>7, <1>8 DEF Numbered, Rooted, next, n

\* No place is on the way to another.
LEMMA ApartThen ==
  ASSUME NEW nodes, NEW array, NEW paths, NEW loc, NEW g, NEW e, Placed(nodes, array, paths, loc, g, e)
  PROVE  /\ Apart(Append(paths, g[Len(loc)]))
         /\ <<>> \notin ToSet(Append(paths, g[Len(loc)]))
<1> DEFINE n == Len(loc)
           next == Append(paths, g[n])
           m == Len(paths)
<1>0. Placing(nodes, array, paths, loc, g, e, m + 1) /\ \A k \in 1 .. n : Goes(g, array, paths, loc, k)
  BY DEF Placed
<1>1. array \in BOOLEAN /\ loc \in Seq(LocStep) /\ loc # <<>> /\ Walks(g, array, paths, loc) /\ paths \in Seq(Path) /\ Apart(paths) /\ <<>> \notin ToSet(paths)
  BY <1>0 DEF Placing, PlanInv
<1>2. IsSayable(array, paths, loc)
  BY <1>0, <1>1, SayableIs
<1>3. Said(array, paths, loc) = g[n]
  BY <1>1 DEF Walks
<1>4. \A q \in ToSet(paths) : ~IsPrefix(q, g[n]) /\ ~IsPrefix(g[n], q)
  BY <1>2, <1>3 DEF IsSayable
<1>5. /\ DOMAIN next = 1 .. (m + 1) /\ DOMAIN paths = 1 .. m /\ m \in Nat
      /\ \A i \in 1 .. m : next[i] = paths[i] /\ paths[i] \in ToSet(paths)
      /\ next[m + 1] = g[n]
      /\ ToSet(next) = ToSet(paths) \union {g[n]}
  <2>1. /\ DOMAIN next = 1 .. (m + 1)
        /\ \A i \in 1 .. m : next[i] = paths[i]
        /\ next[m + 1] = g[n]
        /\ ToSet(next) = ToSet(paths) \union {g[n]}
    BY WayThen
  <2>2. DOMAIN paths = 1 .. m /\ m \in Nat
    BY <1>1
  <2>3. \A i \in 1 .. m : paths[i] \in ToSet(paths)
    BY <2>2 DEF ToSet
  <2> QED BY <2>1, <2>2, <2>3
<1>6. g[n] # <<>>
  <2>1. n \in 0 .. n /\ n # 0
    BY <1>0, PlacingIs
  <2>2. Len(g[n]) = n
    BY <1>0, <2>1, PlacingIs
  <2> QED BY <2>1, <2>2
<1> HIDE DEF next, n, m
<1>7. \A i, j \in DOMAIN next : IsPrefix(next[i], next[j]) => i = j
  <2> SUFFICES ASSUME NEW i \in DOMAIN next, NEW j \in DOMAIN next, IsPrefix(next[i], next[j]) PROVE i = j
    OBVIOUS
  <2>1. (i \in 1 .. m \/ i = m + 1) /\ (j \in 1 .. m \/ j = m + 1)
    BY <1>5
  <2>2. CASE i \in 1 .. m /\ j \in 1 .. m
    BY <1>1, <1>5, <2>2 DEF Apart
  <2>3. CASE i \in 1 .. m /\ j = m + 1
    BY <1>4, <1>5, <2>3
  <2>4. CASE i = m + 1 /\ j \in 1 .. m
    BY <1>4, <1>5, <2>4
  <2> QED BY <2>1, <2>2, <2>3, <2>4
<1> QED BY <1>1, <1>5, <1>6, <1>7 DEF Apart, next, n

\* An argument placed leaves the plan of all that is said.
LEMMA PlanKept ==
  ASSUME NEW nodes, NEW array, NEW paths, NEW loc, NEW g, NEW e, Placed(nodes, array, paths, loc, g, e)
  PROVE  PlanInv(Grown(nodes, g, loc, e, Len(loc), Len(paths) + 1), array, Append(paths, g[Len(loc)]))
<1> DEFINE n == Len(loc)
           next == Append(paths, g[n])
           Q == Grown(nodes, g, loc, e, n, Len(paths) + 1)
<1>1. next \in Seq(Path)
  BY WayThen
<1>2. Q \in Seq(NodeSet)
  <2>1. <<>> \in Path
    BY DEF Path
  <2> QED BY <2>1, InsideThen
<1>3. Apart(next) /\ <<>> \notin ToSet(next) /\ Numbered(array, next) /\ Rooted(array, next)
  BY ApartThen, NumberedThen
<1>4. {Q[i].path : i \in DOMAIN Q} = OnTheWay(next)
  <2>1. LET R == Grown(nodes, g, loc, e, Len(loc), Len(paths) + 1)
        IN  {R[i].path : i \in DOMAIN R} = OnTheWay(Append(paths, g[Len(loc)]))
    BY PathsThen, SMT
  <2> QED BY <2>1, Zenon
<1>5. \A i \in DOMAIN Q : /\ Q[i].kind = KindSaid(array, next, Q[i].path)
                          /\ Q[i].by = IF Q[i].path = <<>> THEN 0 ELSE FirstUnder(next, Q[i].path)
  <2>1. LET R == Grown(nodes, g, loc, e, Len(loc), Len(paths) + 1)
            next_ == Append(paths, g[Len(loc)])
        IN  \A i \in DOMAIN R : /\ R[i].kind = KindSaid(array, next_, R[i].path)
                                /\ R[i].by = IF R[i].path = <<>> THEN 0 ELSE FirstUnder(next_, R[i].path)
    BY NodesThen, SMT
  <2> QED BY <2>1, Zenon
<1>6. \A i, j \in DOMAIN Q : i < j => Q[i].by <= Q[j].by /\ ~IsPrefix(Q[j].path, Q[i].path)
  BY OrderThen, Zenon
<1>7. ASSUME NEW i \in DOMAIN Q, Q[i].kind = "array"
      PROVE  \A x \in Inside(Q, Q[i].path) : Last(Q[x].path) = Index(Cardinality({f \in Inside(Q, Q[i].path) : f < x}))
  <2> DEFINE at == Q[i].path
  <2>1. at \in Path
    <3> HIDE DEF Q
    <3>1. Q[i] \in NodeSet
      BY <1>2
    <3> QED BY <3>1 DEF NodeSet
  <2>2. \E h \in DOMAIN Q : Q[h].path = at /\ Q[h].kind = "array"
    BY <1>7, Zenon
  <2> HIDE DEF at
  <2>3. \A x \in Inside(Q, at) : Last(Q[x].path) = Index(Cardinality({f \in Inside(Q, at) : f < x}))
    <3>1. Q = Grown(nodes, g, loc, e, Len(loc), Len(paths) + 1)
      OBVIOUS
    <3>2. i \in DOMAIN Q /\ Q[i].path = at /\ Q[i].kind = "array"
      BY <1>7, Zenon DEF at
    <3> HIDE DEF Q
    <3> QED BY <2>1, <3>1, <3>2, RanksThen
  <2> QED BY <2>3, Zenon DEF at
<1> HIDE DEF Q, next, n
<1>8. IsPlanOf(Q, array, next)
  <2>1. \A i \in DOMAIN Q : \A j \in DOMAIN Q : i < j => Q[i].by <= Q[j].by /\ ~IsPrefix(Q[j].path, Q[i].path)
    BY <1>6
  <2> QED BY <1>4, <1>5, <1>7, <2>1, Zenon DEF IsPlanOf, OnTheWay
<1> QED BY <1>1, <1>2, <1>3, <1>8, Zenon DEF PlanInv, Q, next, n

-----------------------------------------------------------------------------
(* An argument taken, and all of them. *)

\* An argument is placed when its place can be had next to those said, and the plan is
\* then of it too.
LEMMA PlaceTaken ==
  ASSUME NEW nodes, NEW array \in BOOLEAN, NEW paths, PlanInv(nodes, array, paths),
         NEW placement, placement.loc \in Seq(LocStep), placement.loc # <<>>
  PROVE  /\ place(nodes, placement, Len(paths) + 1).ok <=> IsSayable(array, paths, placement.loc)
         /\ place(nodes, placement, Len(paths) + 1).ok =>
              PlanInv(place(nodes, placement, Len(paths) + 1).plan, array, Append(paths, Said(array, paths, placement.loc)))
<1> DEFINE loc == placement.loc
           by == Len(paths) + 1
           r == place(nodes, placement, by)
<1>1. paths \in Seq(Path)
  BY DEF PlanInv
<1>2. PICK g : Walks(g, array, paths, loc)
  BY <1>1, WalkIs
<1>3. PICK e : IsEdge(e, g, paths, Len(loc))
  BY <1>1, <1>2, EdgeIs
<1>4. by \in Nat
  BY <1>1
<1> HIDE DEF by
<1>5. Placing(nodes, array, paths, loc, g, e, by)
  BY <1>2, <1>3, <1>4 DEF Placing
<1> DEFINE All == \A k \in 1 .. Len(loc) : Goes(g, array, paths, loc, k)
           Q == Grown(nodes, g, loc, e, Len(loc), by)
<1>6. IF All THEN r = Reached(Q, g[Len(loc)]) ELSE ~r.ok
  BY <1>5, PlaceIs
<1>7. IsSayable(array, paths, loc) <=> All
  BY <1>1, <1>2, SayableIs
<1>8. ASSUME All PROVE PlanInv(Q, array, Append(paths, Said(array, paths, loc)))
  <2>1. Placed(nodes, array, paths, loc, g, e)
    BY <1>5, <1>8 DEF Placed, by
  <2>2. Said(array, paths, loc) = g[Len(loc)]
    BY <1>2 DEF Walks
  <2>3. PlanInv(Q, array, Append(paths, g[Len(loc)]))
    BY <2>1, PlanKept DEF by
  <2> QED BY <2>2, <2>3
<1> HIDE DEF r, All, Q
<1>9. CASE All
  <2>1. r.ok /\ r.plan = Q
    BY <1>6, <1>9 DEF Reached
  <2> QED BY <1>7, <1>8, <1>9, <2>1 DEF r, by
<1>10. CASE ~All
  BY <1>6, <1>7, <1>10 DEF r, by
<1> QED BY <1>9, <1>10

\* Before any argument there is the root.
LEMMA RootIs ==
  ASSUME NEW array \in BOOLEAN
  PROVE  PlanInv(Root(array), array, <<>>)
<1> DEFINE kind == IF array THEN "array" ELSE "object"
           root == Node(<<>>, kind, 0)
           nodes == Root(array)
<1>1. nodes = <<root>> /\ root.path = <<>> /\ root.kind = kind /\ root.by = 0
  BY DEF Root, Node
<1>2. root \in NodeSet
  BY DEF Node, NodeSet, Kinds, Path
<1>3. <<>> \in Seq(Path) /\ ToSet(<<>>) = {} /\ DOMAIN <<>> = {} /\ Len(<<>>) = 0 /\ <<>> \in Path
  BY DEF ToSet, Path
<1>4. nodes \in Seq(NodeSet) /\ DOMAIN nodes = {1} /\ nodes[1] = root
  <2> HIDE DEF root, nodes
  <2>1. nodes = <<root>>
    BY <1>1
  <2> QED BY <1>2, <2>1
<1>5. OnTheWay(<<>>) = {<<>>}
  BY <1>3 DEF OnTheWay
<1>6. \A at : ChildrenAt(<<>>, at) = {}
  BY <1>3 DEF ChildrenAt
<1>7. KindSaid(array, <<>>, <<>>) = kind
  BY <1>3 DEF KindSaid, IsArrayAt
<1>8. Inside(nodes, <<>>) = {}
  <2>1. ~IsIn(root, <<>>)
    <3> SUFFICES ASSUME IsIn(root, <<>>) PROVE FALSE
      OBVIOUS
    <3>1. Len(root.path) = Len(<<>>) + 1
      BY DEF IsIn
    <3>2. root.path = <<>>
      BY <1>1
    <3> HIDE DEF root
    <3> QED BY <1>3, <3>1, <3>2
  <2> HIDE DEF nodes, root
  <2> QED BY <1>4, <2>1 DEF Inside
<1> HIDE DEF nodes, root, kind
<1>9. {nodes[i].path : i \in DOMAIN nodes} = OnTheWay(<<>>)
  BY <1>1, <1>4, <1>5
<1>10. IsPlanOf(nodes, array, <<>>)
  <2>1. ASSUME NEW i \in DOMAIN nodes
        PROVE  /\ nodes[i].kind = KindSaid(array, <<>>, nodes[i].path)
               /\ nodes[i].by = IF nodes[i].path = <<>> THEN 0 ELSE FirstUnder(<<>>, nodes[i].path)
               /\ \A j \in DOMAIN nodes : i < j => nodes[i].by <= nodes[j].by /\ ~IsPrefix(nodes[j].path, nodes[i].path)
               /\ nodes[i].kind = "array" =>
                    \A e \in Inside(nodes, nodes[i].path) :
                      Last(nodes[e].path) = Index(Cardinality({f \in Inside(nodes, nodes[i].path) : f < e}))
    <3>1. i = 1 /\ nodes[i] = root /\ nodes[i].path = <<>>
      BY <1>1, <1>4
    <3>2. \A j \in DOMAIN nodes : ~(i < j)
      BY <1>4, <3>1
    <3>3. Inside(nodes, nodes[i].path) = {}
      BY <1>8, <3>1
    <3> QED BY <1>1, <1>7, <3>1, <3>2, <3>3
  <2> QED BY <1>9, <2>1, Zenon DEF IsPlanOf, OnTheWay
<1>11. Numbered(array, <<>>)
  <2>1. {Index(i) : i \in 0 .. (0 - 1)} = {}
    OBVIOUS
  <2>2. 0 \in Nat
    OBVIOUS
  <2> QED BY <1>6, <2>1, <2>2, Zenon DEF Numbered
<1>12. Apart(<<>>) /\ Rooted(array, <<>>) /\ <<>> \notin ToSet(<<>>)
  BY <1>3, <1>6 DEF Apart, Rooted
<1> QED BY <1>3, <1>4, <1>10, <1>11, <1>12 DEF PlanInv, nodes

\* A location says a place.
LEMMA SaidIs ==
  ASSUME NEW array, NEW paths \in Seq(Path), NEW loc \in Seq(LocStep)
  PROVE  Said(array, paths, loc) \in Path
<1>1. \E g : /\ g[0] = <<>> /\ g[Len(loc)] = Said(array, paths, loc)
             /\ \A i \in 0..(Len(loc) - 1) : g[i] \in Path /\ g[i + 1] = Append(g[i], StepSaid(array, paths, g[i], loc[i + 1]))
             /\ g[Len(loc)] \in Path
  BY SaidFold, Zenon
<1> QED BY <1>1, Zenon

\* The places all arguments say, one after the other.
LEMMA AllSaidFold ==
  ASSUME NEW array, NEW P, \A p \in P : p.loc \in Seq(LocStep), NEW placed \in Seq(P)
  PROVE  \E g : /\ g[0] = <<>> /\ g[Len(placed)] = AllSaid(array, placed)
                /\ \A i \in 0..(Len(placed) - 1) : g[i] \in Seq(Path) /\ g[i + 1] = Append(g[i], Said(array, g[i], placed[i + 1].loc))
                /\ g[Len(placed)] \in Seq(Path)
<1> DEFINE n == Len(placed)
           S == DOMAIN placed
           A == Seq(Path)
           F == [p \in A \X (1..n) |-> Append(p[1], Said(array, p[1], placed[p[2]].loc))]
<1>1. n \in Nat /\ S = 1..n
  OBVIOUS
<1>2. ASSUME NEW x \in A, NEW k \in 1..n PROVE Append(x, Said(array, x, placed[k].loc)) \in A
  <2>1. placed[k].loc \in Seq(LocStep)
    BY <1>1
  <2> DEFINE said == Said(array, x, placed[k].loc)
  <2>2. said \in Path
    BY <2>1, SaidIs
  <2> HIDE DEF said
  <2>3. Append(x, said) \in A
    BY <2>2, AppendProperties
  <2> QED BY <2>3 DEF said
<1>3. F \in [A \X (1..n) -> A]
  <2> HIDE DEF A
  <2> QED BY <1>2
<1>4. <<>> \in A
  OBVIOUS
<1>5. PICK h \in [SUBSET (1..n) -> A] : IsTable(h, n, <<>>, F)
  <2> HIDE DEF F, n, A
  <2> QED BY <1>1, <1>3, <1>4, TableExists, Zenon
<1>6. ASSUME NEW T \in SUBSET S PROVE h[T] = IF T = {} THEN <<>> ELSE Append(h[T \ {Max(T)}], Said(array, h[T \ {Max(T)}], placed[Max(T)].loc))
  <2>1. CASE T = {}
    BY <1>1, <1>5, <2>1 DEF IsTable
  <2>2. CASE T # {}
    <3>1. Max(T) \in 1..n /\ T \ {Max(T)} \in SUBSET (1..n)
      BY <1>1, <2>2, MaxIsLast
    <3>2. h[T] = F[<<h[T \ {Max(T)}], Max(T)>>]
      BY <1>1, <1>5, <2>2 DEF IsTable
    <3>3. h[T \ {Max(T)}] \in A
      BY <1>5, <3>1
    <3>4. <<h[T \ {Max(T)}], Max(T)>> \in A \X (1..n)
      BY <3>1, <3>3
    <3> HIDE DEF A
    <3> QED BY <2>2, <3>2, <3>4
  <2> QED BY <2>1, <2>2
<1>7. h = [T \in SUBSET S |-> IF T = {} THEN <<>> ELSE Append(h[T \ {Max(T)}], Said(array, h[T \ {Max(T)}], placed[Max(T)].loc))]
  <2> HIDE DEF S, A
  <2> QED BY <1>1, <1>5, <1>6
<1>8. PICK f : /\ f = [T \in SUBSET S |-> IF T = {} THEN <<>> ELSE Append(f[T \ {Max(T)}], Said(array, f[T \ {Max(T)}], placed[Max(T)].loc))]
               /\ AllSaid(array, placed) = f[S]
  BY <1>7, Zenon DEF AllSaid, FoldLeft, MapThenFoldSet
<1> DEFINE g == [i \in 0..n |-> f[1..i]]
<1>9. g[0] = <<>> /\ g[n] = AllSaid(array, placed)
  BY <1>1, <1>8
<1>10. ASSUME NEW i \in 0..(n - 1) PROVE g[i + 1] = Append(g[i], Said(array, g[i], placed[i + 1].loc))
  <2> DEFINE j == i + 1
  <2>1. j \in 1..n /\ j - 1 = i /\ i \in 0..n /\ j \in 0..n
    BY <1>1
  <2> HIDE DEF j
  <2>2. 1..j \in SUBSET S /\ 1..j # {} /\ Max(1..j) = j /\ (1..j) \ {Max(1..j)} = 1..i
    BY <1>1, <2>1, PrefixIs
  <2>3. f[1..j] = Append(f[(1..j) \ {Max(1..j)}], Said(array, f[(1..j) \ {Max(1..j)}], placed[Max(1..j)].loc))
    BY <1>8, <2>2
  <2>4. f[1..j] = Append(f[1..i], Said(array, f[1..i], placed[j].loc))
    BY <2>2, <2>3, Zenon
  <2> QED BY <2>1, <2>4, Zenon DEF j
<1> HIDE DEF g
<1> DEFINE T == {i \in 0..n : g[i] \in A}
<1>11. \A i \in 0..n : i \in T
  <2>1. 0 \in T
    <3>1. 0 \in 0..n
      BY <1>1
    <3>2. g[0] \in A
      BY <1>4, <1>9, Zenon
    <3> HIDE DEF n, A
    <3> QED BY <3>1, <3>2
  <2>2. ASSUME NEW i \in 0..(n - 1), i \in T PROVE i + 1 \in T
    <3>1. g[i] \in A /\ i + 1 \in 1..n /\ i + 1 \in 0..n
      BY <1>1, <2>2
    <3>2. Append(g[i], Said(array, g[i], placed[i + 1].loc)) \in A
      BY <1>2, <3>1
    <3> QED BY <1>10, <3>1, <3>2
  <2> HIDE DEF T
  <2> QED BY <1>1, <2>1, <2>2, Reaches
<1>12. \A i \in 0..n : g[i] \in A
  BY <1>11
<1>13. \A i \in 0..(n - 1) : g[i] \in A /\ g[i + 1] = Append(g[i], Said(array, g[i], placed[i + 1].loc))
  BY <1>1, <1>10, <1>12, \A i \in 0..(n - 1) : i \in 0..n
<1>14. g[n] \in A
  BY <1>1, <1>12
<1> QED BY <1>9, <1>13, <1>14, Zenon

\* One argument more says one place more.
LEMMA AllSaidThen ==
  ASSUME NEW array, NEW P, \A p \in P : p.loc \in Seq(LocStep), NEW placed \in Seq(P), NEW p \in P
  PROVE  AllSaid(array, Append(placed, p)) = Append(AllSaid(array, placed), Said(array, AllSaid(array, placed), p.loc))
<1> DEFINE n == Len(placed)
           more == Append(placed, p)
<1>1. n \in Nat /\ more \in Seq(P) /\ Len(more) = n + 1 /\ (\A i \in 1 .. n : more[i] = placed[i]) /\ more[n + 1] = p
  BY AppendProperties
<1>2. PICK g : /\ g[0] = <<>> /\ g[Len(placed)] = AllSaid(array, placed)
               /\ \A i \in 0..(Len(placed) - 1) : g[i] \in Seq(Path) /\ g[i + 1] = Append(g[i], Said(array, g[i], placed[i + 1].loc))
               /\ g[Len(placed)] \in Seq(Path)
  BY AllSaidFold, Zenon
<1> HIDE DEF more
<1>3. PICK h : /\ h[0] = <<>> /\ h[Len(more)] = AllSaid(array, more)
               /\ \A i \in 0..(Len(more) - 1) : h[i] \in Seq(Path) /\ h[i + 1] = Append(h[i], Said(array, h[i], more[i + 1].loc))
               /\ h[Len(more)] \in Seq(Path)
  BY <1>1, AllSaidFold, Zenon
<1> DEFINE T == {i \in 0 .. n : h[i] = g[i]}
<1>4. \A i \in 0 .. n : i \in T
  <2>1. 0 \in T
    BY <1>1, <1>2, <1>3
  <2>2. ASSUME NEW i \in 0 .. (n - 1), i \in T PROVE i + 1 \in T
    <3>1. i + 1 \in 1 .. n /\ i + 1 \in 0 .. n /\ i \in 0 .. (Len(more) - 1) /\ h[i] = g[i]
      BY <1>1, <2>2
    <3>2. h[i + 1] = Append(h[i], Said(array, h[i], more[i + 1].loc)) /\ g[i + 1] = Append(g[i], Said(array, g[i], placed[i + 1].loc))
      BY <1>2, <1>3, <3>1
    <3>3. more[i + 1] = placed[i + 1]
      BY <1>1, <3>1
    <3>4. h[i + 1] = g[i + 1]
      BY <3>1, <3>2, <3>3, Zenon
    <3> QED BY <3>1, <3>4
  <2> HIDE DEF T, n
  <2> QED BY <1>1, <2>1, <2>2, Reaches
<1>5. h[n] = g[n]
  <2>1. n \in 0 .. n
    BY <1>1
  <2> QED BY <1>4, <2>1
<1>6. h[n + 1] = Append(h[n], Said(array, h[n], more[n + 1].loc))
  <2>1. n \in 0 .. (Len(more) - 1)
    BY <1>1
  <2> QED BY <1>3, <2>1
<1>7. AllSaid(array, more) = Append(AllSaid(array, placed), Said(array, AllSaid(array, placed), more[n + 1].loc))
  BY <1>1, <1>2, <1>3, <1>5, <1>6
<1> QED BY <1>1, <1>7 DEF more

\* There are as many places as arguments.
LEMMA AllSaidCount ==
  ASSUME NEW array, NEW P, \A p \in P : p.loc \in Seq(LocStep), NEW placed \in Seq(P)
  PROVE  /\ AllSaid(array, placed) \in Seq(Path) /\ Len(AllSaid(array, placed)) = Len(placed)
         /\ placed = <<>> => AllSaid(array, placed) = <<>>
<1> DEFINE n == Len(placed)
<1>1. n \in Nat /\ \A i \in 1 .. n : placed[i].loc \in Seq(LocStep)
  OBVIOUS
<1>2. PICK g : /\ g[0] = <<>> /\ g[Len(placed)] = AllSaid(array, placed)
               /\ \A i \in 0..(Len(placed) - 1) : g[i] \in Seq(Path) /\ g[i + 1] = Append(g[i], Said(array, g[i], placed[i + 1].loc))
               /\ g[Len(placed)] \in Seq(Path)
  BY AllSaidFold, Zenon
<1> DEFINE T == {i \in 0 .. n : Len(g[i]) = i}
<1>3. \A i \in 0 .. n : i \in T
  <2>1. 0 \in T
    BY <1>1, <1>2
  <2>2. ASSUME NEW i \in 0 .. (n - 1), i \in T PROVE i + 1 \in T
    <3> DEFINE said == Said(array, g[i], placed[i + 1].loc)
    <3>1. i + 1 \in 1 .. n /\ i + 1 \in 0 .. n /\ g[i] \in Seq(Path) /\ Len(g[i]) = i /\ g[i + 1] = Append(g[i], said)
      BY <1>1, <1>2, <2>2
    <3>2. said \in Path
      BY <1>1, <3>1, SaidIs
    <3> HIDE DEF said
    <3>3. Len(g[i + 1]) = i + 1
      BY <3>1, <3>2, AppendProperties
    <3> QED BY <3>1, <3>3
  <2> HIDE DEF T, n
  <2> QED BY <1>1, <2>1, <2>2, Reaches
<1>4. Len(g[n]) = n
  <2>1. n \in 0 .. n
    BY <1>1
  <2> QED BY <1>3, <2>1
<1>5. placed = <<>> => n = 0
  OBVIOUS
<1> QED BY <1>2, <1>4, <1>5

-----------------------------------------------------------------------------
(* As the arguments come. *)

\* What an argument may place.
Takes(array) == {p \in Placements[array] : p.ok}

\* What is planned is the plan of all that was said.
PlanIsOf(array) == places \in Seq(Takes(array)) /\ PlanInv(plan, array, AllSaid(array, places))
Planned == cmd \in Commands /\ (IsNew /\ ~IsSettled => PlanIsOf(o.array))

\* The locations that come are such as the lemmas are about.
LEMMA LocationsAre ==
  ASSUME cmd \in Commands, IsNew
  PROVE  /\ o.array \in BOOLEAN
         /\ \A p \in Takes(o.array) : p.loc \in Seq(LocStep) /\ p.loc # <<>>
<1>1. o.array \in BOOLEAN
  BY PlacementsAssumption DEF IsNew, o
<1>2. \A p \in Takes(o.array) : p.loc \in Seq(LocStep) /\ p.loc # <<>>
  BY <1>1, PlacementsAssumption DEF Takes, LocStep
<1> QED BY <1>1, <1>2

\* Nothing is said before the first argument.
LEMMA PlannedFirst ==
  ASSUME SettlingInit
  PROVE  Planned
<1>1. cmd \in Commands
  BY DEF SettlingInit
<1>2. ASSUME IsNew PROVE PlanIsOf(o.array)
  <2> DEFINE P == Takes(o.array)
  <2>1. o.array \in BOOLEAN /\ \A p \in P : p.loc \in Seq(LocStep)
    BY <1>1, <1>2, LocationsAre
  <2>2. places = <<>> /\ plan = Root(o.array)
    <3>1. places = <<>> /\ plan = Root(IsNew /\ o.array)
      BY DEF SettlingInit
    <3>2. (IsNew /\ o.array) = o.array
      BY <1>2, <2>1
    <3> QED BY <3>1, <3>2
  <2> HIDE DEF P
  <2>3. places \in Seq(P)
    BY <2>2
  <2>4. AllSaid(o.array, places) = <<>>
    BY <2>1, <2>2, <2>3, AllSaidCount
  <2>5. PlanInv(plan, o.array, AllSaid(o.array, places))
    BY <2>1, <2>2, <2>4, RootIs
  <2> QED BY <2>3, <2>5 DEF PlanIsOf, P
<1> QED BY <1>1, <1>2 DEF Planned

\* An argument that is taken is planned next to those before it.
LEMMA GivesKeeps ==
  ASSUME Planned, IsNew, NEW placement \in Placements[o.array], Gives(placement)
  PROVE  Planned'
<1> DEFINE array == o.array
           P == Takes(array)
           paths == AllSaid(array, places)
           by == Len(places) + 1
           result == IF placement.ok THEN place(plan, placement, by) ELSE placement
<1>1. cmd \in Commands /\ cmd' = cmd /\ array' = array /\ Plans(placement, result)
  BY DEF Gives, Planned, o
<1>2. places \in Seq(P) /\ PlanInv(plan, array, paths)
  BY DEF Gives, Planned, PlanIsOf
<1>3. array \in BOOLEAN /\ \A p \in P : p.loc \in Seq(LocStep) /\ p.loc # <<>>
  BY <1>1, LocationsAre
<1>4. PlanIsOf(array)'
  <2>1. CASE ~result.ok
    <3>1. places' = places /\ plan' = plan
      BY <1>1, <2>1 DEF Plans
    <3> HIDE DEF array, P
    <3> QED BY <1>1, <1>2, <3>1 DEF PlanIsOf, P
  <2>2. CASE result.ok
    <3>1. placement.ok /\ result = place(plan, placement, by)
      BY <2>2
    <3>2. places' = Append(places, placement) /\ plan' = result.plan
      BY <1>1, <2>2 DEF Plans
    <3>3. placement \in P
      BY <3>1 DEF Takes
    <3> HIDE DEF array, P, result
    <3>4. Len(paths) = Len(places)
      BY <1>2, <1>3, AllSaidCount
    <3>5. place(plan, placement, Len(paths) + 1).ok
      BY <2>2, <3>1, <3>4
    <3>6. PlanInv(place(plan, placement, Len(paths) + 1).plan, array, Append(paths, Said(array, paths, placement.loc)))
      BY <1>2, <1>3, <3>3, <3>5, PlaceTaken
    <3>7. AllSaid(array, Append(places, placement)) = Append(paths, Said(array, paths, placement.loc))
      BY <1>2, <1>3, <3>3, AllSaidThen
    <3>8. PlanInv(plan', array, AllSaid(array, places'))
      BY <3>1, <3>2, <3>4, <3>6, <3>7
    <3>9. places' \in Seq(P)
      BY <1>2, <3>2, <3>3, AppendProperties
    <3> QED BY <1>1, <3>8, <3>9 DEF PlanIsOf, P
  <2> QED BY <2>1, <2>2
<1> QED BY <1>1, <1>4 DEF Planned, IsNew

\* The inductive invariant, as the arguments come.
LEMMA PlannedAlways == SettlingSpec => []Planned
<1> DEFINE vars == <<cmd, settled, places, plan>>
<1>1. SettlingInit => Planned
  BY PlannedFirst
<1>2. Planned /\ [SettlingNext]_vars => Planned'
  <2> SUFFICES ASSUME Planned, [SettlingNext]_vars PROVE Planned'
    OBVIOUS
  <2>1. CASE Settles
    <3>1. cmd' = cmd /\ ~IsNew
      BY <2>1 DEF Settles
    <3> QED BY <3>1 DEF Planned, IsNew
  <2>2. CASE IsNew /\ \E placement \in Placements[o.array] : Gives(placement)
    BY <2>2, GivesKeeps
  <2>3. CASE AllGiven
    <3>1. /\ cmd' = cmd /\ places' = places /\ plan' = plan /\ o' = o
          /\ IsNew /\ ~IsSettled
      BY <2>3 DEF AllGiven, o
    <3> QED BY <3>1 DEF Planned, PlanIsOf
  <2>4. CASE UNCHANGED vars
    BY <2>4 DEF Planned, PlanIsOf, IsSettled, IsNew, o
  <2> QED BY <2>1, <2>2, <2>3, <2>4 DEF SettlingNext
<1> QED BY <1>1, <1>2, PTL DEF SettlingSpec

\* The plan is what the arguments say together, and an argument is taken when its place
\* can be had next to those of the arguments before it, and refused when not: for every
\* list of locations, of any depth, in an object and in an array (internal/jsonbuild place).
THEOREM PlanAlwaysSaid == SettlingSpec => []PlanIsWhatIsSaid
<1>1. Planned => PlanIsWhatIsSaid
  <2> SUFFICES ASSUME Planned, IsNew, ~IsSettled PROVE PlanIsWhatIsSaid
    BY DEF PlanIsWhatIsSaid
  <2> DEFINE array == o.array
             P == Takes(array)
             paths == AllSaid(array, places)
  <2>1. cmd \in Commands /\ places \in Seq(P) /\ PlanInv(plan, array, paths)
    BY DEF Planned, PlanIsOf
  <2>2. array \in BOOLEAN /\ \A p \in P : p.loc \in Seq(LocStep) /\ p.loc # <<>>
    BY <2>1, LocationsAre
  <2>3. IsPlanOf(plan, array, paths)
    BY <2>1 DEF PlanInv
  <2>4. ASSUME NEW placement \in Placements[array], placement.ok
        PROVE  place(plan, placement, Len(places) + 1).ok <=> IsSayable(array, paths, placement.loc)
    <3>1. placement \in P
      BY <2>4 DEF Takes
    <3> HIDE DEF P, array
    <3>2. Len(paths) = Len(places)
      BY <2>1, <2>2, AllSaidCount
    <3>3. place(plan, placement, Len(paths) + 1).ok <=> IsSayable(array, paths, placement.loc)
      BY <2>1, <2>2, <3>1, PlaceTaken
    <3> QED BY <3>2, <3>3
  <2> QED BY <2>3, <2>4, Zenon DEF PlanIsWhatIsSaid
<1> QED BY <1>1, PlannedAlways, PTL
=============================================================================
