------------------------------ MODULE Schemas ------------------------------
(***************************************************************************)
(* The schema of what a definition produces, whether a document fits it,   *)
(* and which changes of it break its readers (internal/schema).            *)
(*                                                                         *)
(* A type list and a list of values are sets, which is what writing them   *)
(* sorted and without repeats makes of them; the properties keep their     *)
(* order, since a name found twice means the first.                        *)
(***************************************************************************)
EXTENDS Definitions

CONSTANT MaxEnum                    \* how many values are worth listing
ASSUME MaxEnumAssumption == MaxEnum \in Nat

Anything == [ref |-> "", types |-> {}, enum |-> {}, named |-> FALSE, props |-> <<>>, required |-> {},
        extra |-> <<>>, items |-> <<>>, defs |-> <<>>]
Types(types) == [Anything EXCEPT !.types = types]
Ref(name) == [Anything EXCEPT !.ref = name]
array(items) == [Types({"array"}) EXCEPT !.items = <<items>>]
object(props, required) == [Types({"object"}) EXCEPT !.named = TRUE, !.props = props, !.required = required]
Property(name, schema) == [name |-> name, schema |-> schema]

\* Prop and Def: the first entry of that name, or none.
Named(entries, name) ==
  LET found == SelectSeq(entries, LAMBDA e : e.name = name)
  IN  IF found = <<>> THEN <<>> ELSE <<found[1].schema>>

----------------------------------------------------------------------------
(* What an expression can match. *)

Infinite == [finite |-> FALSE, values |-> {}]
Finite(values) == IF Cardinality(values) =< MaxEnum THEN [finite |-> TRUE, values |-> values] ELSE Infinite
unionEnum(languages) ==
  IF \A i \in DOMAIN languages : languages[i].finite
  THEN Finite(UNION {languages[i].values : i \in DOMAIN languages}) ELSE Infinite

\* The ways of matching the parts one after the other; two that come to the
\* same text are counted twice.
RECURSIVE ways(_)
ways(languages) ==
  IF languages = <<>> THEN 1 ELSE ways(Front(languages)) * Cardinality(Last(languages).values)

RECURSIVE matched(_)
matched(languages) ==
  IF languages = <<>> THEN {<<>>}
  ELSE LET before == matched(Front(languages)) IN {x \o y : x \in before, y \in Last(languages).values}

concatenation(languages) ==
  IF (\A i \in DOMAIN languages : languages[i].finite) /\ ways(languages) =< MaxEnum
  THEN Finite(matched(languages)) ELSE Infinite

RECURSIVE language(_)
language(re) ==
  LET subs == [i \in DOMAIN re.subs |-> language(re.subs[i])]
  IN  CASE re.op = "literal" -> Finite({re.text})
        [] re.op = "class" -> Finite({<<letter>> : letter \in ToSet(re.text)})
        [] re.op \in {"begin", "end"} -> Finite({<<>>})
        [] re.op = "group" -> subs[1]
        [] re.op = "quest" -> unionEnum(<<subs[1], Finite({<<>>})>>)
        [] re.op = "alternate" -> unionEnum(subs)
        [] re.op = "concat" -> concatenation(subs)
        [] OTHER -> Infinite

\* Each named group: whether a match may leave it out, and its texts.
RECURSIVE walk(_, _)
walk(re, optional) ==
  LET below == optional \/ re.op \in {"alternate", "quest", "star"}
  IN  (IF re.op = "group" THEN <<[name |-> re.name, optional |-> optional, language |-> language(re)]>> ELSE <<>>)
        \o FlattenSeq([i \in DOMAIN re.subs |-> walk(re.subs[i], below)])
captures(re) == walk(re, FALSE)

----------------------------------------------------------------------------
(* Generate. *)

\* What a field rule turns a text into, before any question of it missing.
RECURSIVE regexObject(_, _)
RECURSIVE converted(_)
ItemSchema(f) == [converted(f) EXCEPT !.types = @ \cup (IF f.null_if # {} /\ ~f.omit THEN {"null"} ELSE {})]
converted(f) ==
  CASE f.type = "int" -> Types({"integer"})
    [] f.type = "float" -> Types({"number"})
    [] f.type = "bool" -> Types({"boolean"})
    [] f.type = "array" -> array(IF f.items = <<>> THEN Types({"string"}) ELSE ItemSchema(f.items[1]))
    [] f.type = "object" -> regexObject(<<[re |-> f.regex[1], values |-> <<>>]>>, f.fields)
    [] f.type \in {"string", "time"} -> Types({"string"})

\* What an expression says of the group of that name, if it has it.
Capture(re, name) == SelectSeq(captures(re), LAMBDA c : c.name = name)

\* Mutant: the group a string keeps is taken to be always there.
optionalGroupNever(f) == FALSE

optionalGroup(f) ==
  /\ f.type = "string"
  /\ f.regex # <<>>
  /\ \E c \in ToSet(Capture(f.regex[1], Keeps(f))) : c.optional

\* The schema of a value under the rule f (<<>> for none), and whether its key may
\* be left out; missing says there may be nothing to read.
ruled(f, absent) ==
  [schema |-> [converted(f) EXCEPT !.types = @ \cup
                 (IF ((absent /\ ~f.required) \/ f.null_if # {}) /\ ~f.omit THEN {"null"} ELSE {})],
   omittable |-> (absent \/ f.null_if # {}) /\ f.omit]
value(f, missing) ==
  IF f = <<>> THEN [schema |-> Types({"string"} \cup (IF missing THEN {"null"} ELSE {})), omittable |-> FALSE]
  ELSE ruled(f[1], missing \/ optionalGroup(f[1]))

\* The texts a key can have when they are few: those of its group when the text is
\* kept as it is, those of the group its own expression keeps otherwise.
fieldEnum(texts, f) ==
  IF f = <<>> THEN texts
  ELSE IF f[1].type # "string" \/ f[1].trim # "" \/ f[1].null_if # {} \/ f[1].unescape # <<>> THEN Infinite
  ELSE IF f[1].regex = <<>> THEN texts
  ELSE Last(Capture(f[1].regex[1], Keeps(f[1]))).language

\* A value an alternative states is a key it always gives, with one text.
Stated(alt) ==
  LET names == SetToSeq(DOMAIN alt.values)
  IN  [i \in DOMAIN names |-> [name |-> names[i], optional |-> FALSE, language |-> Finite({alt.values[names[i]]})]]

\* The property of one key, of the value v and with those texts.
Limited(schema, texts) ==
  [schema EXCEPT !.enum = IF texts.finite /\ "null" \notin schema.types THEN texts.values ELSE {}]
KeyOf(name, v, texts, always) ==
  [property |-> Property(name, Limited(v.schema, texts)), required |-> always /\ ~v.omittable]

\* Given every capture of it among n patterns and the rule of the key.
Key(name, uses, n, f) ==
  KeyOf(name, value(f, \E i \in DOMAIN uses : uses[i].optional),
        fieldEnum(unionEnum([i \in DOMAIN uses |-> uses[i].language]), f),
        Len(uses) = n)

objectOf(keys) ==
  object([i \in DOMAIN keys |-> keys[i].property], {keys[i].property.name : i \in {k \in DOMAIN keys : keys[k].required}})
KeysOf(all, n, fields) ==
  [i \in DOMAIN SetToSeq({c.name : c \in ToSet(all)}) |->
     LET name == SetToSeq({c.name : c \in ToSet(all)})[i]
     IN  Key(name, SelectSeq(all, LAMBDA c : c.name = name), n, RuleFor(fields, name))]
regexObject(patterns, fields) ==
  objectOf(KeysOf(FlattenSeq([i \in DOMAIN patterns |-> Stated(patterns[i]) \o captures(patterns[i].re)]),
                  Len(patterns), fields))

cellMayBeEmpty(p, i, ncols) ==
  CASE p.type = "csv" -> i > 1
    [] p.type = "table" /\ p.split \in {"aligned", "box"} -> TRUE
    [] OTHER -> i > (IF p.min_fields = 0 THEN ncols ELSE p.min_fields)

\* A key of each field a definition converts, none of them required.
Converted(fields, missing) ==
  LET names == SetToSeq(DOMAIN fields)
  IN  [i \in DOMAIN names |-> Property(names[i], value(<<fields[names[i]]>>, missing).schema)]

\* One row: the columns a definition names, or what can be said of the ones the
\* input names.
namedColumns(columns, cells) ==
  object([i \in DOMAIN columns |-> Property(columns[i], cells[i].schema)],
         {columns[i] : i \in {k \in DOMAIN columns : ~cells[k].omittable}})
leading(p) ==
  IF p.label # "" /\ p.label \notin DOMAIN p.fields
  THEN <<Property(p.label, value(<<>>, cellMayBeEmpty(p, 1, 1)).schema)>> ELSE <<>>
table(p) ==
  IF p.columns # <<>>
  THEN namedColumns(p.columns, [i \in DOMAIN p.columns |->
         value(RuleFor(p.fields, p.columns[i]), cellMayBeEmpty(p, i, Len(p.columns)))])
  ELSE [object(leading(p) \o Converted(p.fields, TRUE), {k.name : k \in ToSet(leading(p))})
          EXCEPT !.extra = <<Types({"string", "null"})>>]

\* An entry's value has any type a conversion of some key gives it.
entry(values) ==
  object(<<Property("name", Types({"string"})),
           Property("value", Types({"string"} \cup UNION {v.schema.types : v \in values}))>>,
         {"name"} \cup (IF \E v \in values : v.omittable THEN {} ELSE {"value"}))
kvEntrySchema(fields) == entry({value(<<fields[name]>>, FALSE) : name \in DOMAIN fields})

mapOf(fields, rest) == [object(Converted(fields, FALSE), {}) EXCEPT !.extra = <<rest>>]

\* A node is described once and referred to from the list and from every node.
nodeSchema(own, name) ==
  [own EXCEPT !.props = Append(@, Property("children", array(Ref(name)))), !.required = @ \cup {"children"}]
tree(p, name) ==
  [array(Ref(name)) EXCEPT !.defs = <<Property(name,
     nodeSchema(IF p.type = "kv" THEN kvEntrySchema(p.fields) ELSE regexObject(p.patterns, p.fields), name))>>]
treeUnder(p, name, taken) == [schema |-> tree(p, name), taken |-> taken \cup {name}]

\* The schema of one parser's result.  A tree asks to be described under the
\* name of where it is, and takes another when a tree before it has that one;
\* taken are the names given out, and the result says which are after it.
RECURSIVE defName(_, _, _)
defName(want, n, taken) ==
  LET name == IF n = 1 THEN want ELSE want \o "_" \o ToString(n)
  IN  IF name \in taken THEN defName(want, n + 1, taken) ELSE name

RECURSIVE parse(_, _, _), composite(_, _, _)
Including(done, name, made) ==
  [schema |-> [done.schema EXCEPT !.props = Append(@, Property(name, made.schema)), !.required = @ \cup {name}],
   taken |-> made.taken]
composite(parts, at, taken) ==
  IF parts = <<>> THEN [schema |-> object(<<>>, {}), taken |-> taken]
  ELSE LET done == composite(Front(parts), at, taken)
       IN  Including(done, Last(parts).name, parse(Last(parts).parse, at \o "_" \o Last(parts).name, done.taken))

rowSchema(p) ==
  CASE p.type \in {"table", "csv"} -> table(p)
    [] p.type = "regex" -> regexObject(p.patterns, p.fields)
    [] p.type = "kv" /\ p.as = "list" -> kvEntrySchema(p.fields)
    [] OTHER -> mapOf(p.fields, Types({"string"}))
alone(p, schema, taken) ==
  [schema |-> IF p.type = "ini" THEN [Types({"object"}) EXCEPT !.extra = <<schema>>]
              ELSE IF YieldsArray(p) THEN array(schema) ELSE schema,
   taken |-> taken]

parse(p, at, taken) ==
  CASE p.type \in {"table", "csv", "regex", "kv", "ini"} -> alone(p, rowSchema(p), taken)
    [] p.type = "composite" -> composite(p.parts, at, taken)
    [] p.type = "records" ->
         [(IF p.record # <<>> THEN parse(p.record[1], at, taken) ELSE composite(p.parts, at, taken))
            EXCEPT !.schema = array(@)]
    [] p.type = "tree" -> treeUnder(p.node[1], defName(at, 1, taken), taken)

\* Every description of a node, taken to the top, where a reference looks for it.
RECURSIVE Descriptions(_)
Descriptions(s) ==
  s.defs \o FlattenSeq([i \in DOMAIN s.props |-> Descriptions(s.props[i].schema)])
         \o FlattenSeq([i \in DOMAIN s.items |-> Descriptions(s.items[i])])
         \o FlattenSeq([i \in DOMAIN s.extra |-> Descriptions(s.extra[i])])
hoist(s) == [s EXCEPT !.defs = Descriptions(s)]

Generate(p) == hoist(parse(p, "node", {}).schema)
----------------------------------------------------------------------------
(* Validate. *)

\* The description a reference stands for: none when it is not there.
resolve(root, s) == IF s.ref = "" THEN <<s>> ELSE Named(root.defs, s.ref)

Allows(types, kind) == types = {} \/ kind \in types \/ (kind = "integer" /\ "number" \in types)
TextOf(v) == IF v.kind = "string" THEN v.text ELSE <<>>

\* strict is whether a key the schema does not name is refused, as checking a
\* document does and reading one does not.
RECURSIVE validate(_, _, _, _)
validateObject(root, s, keys, strict) ==
  /\ s.required \subseteq DOMAIN keys
  /\ \A k \in DOMAIN keys :
        LET sub == Named(s.props, k) \o s.extra
        IN  IF sub # <<>> THEN validate(root, sub[1], keys[k], strict) ELSE ~(strict /\ s.named)

validate(root, ref, v, strict) ==
  LET target == resolve(root, ref)
      s == target[1]
  IN  /\ target # <<>>
      /\ Allows(s.types, v.kind)
      /\ s.enum # {} => TextOf(v) \in s.enum
      /\ v.kind = "object" => validateObject(root, s, v.keys, strict)
      /\ v.kind = "array" /\ s.items # <<>> =>
            \A i \in DOMAIN v.elements : validate(root, s.items[1], v.elements[i], strict)

Validates(root, v) == validate(root, root, v, TRUE)

\* A program written against the schema, which leaves a key it does not know
\* alone, meets nothing in the document it has no case for.
MeetsNothingNew(root, v) == validate(root, root, v, FALSE)

----------------------------------------------------------------------------
(* Compare.  A change is the rule it falls under; where it is only tells the *)
(* reader of the report.                                                     *)

RECURSIVE compare(_, _, _, _)

compareEnum(prev, next) == IF prev.enum # next.enum THEN {"enum"} ELSE {}

\* Mutant: a key that may now be missing goes unreported.
PresenceRequired(prev, next, name) ==
  IF name \notin prev.required /\ name \in next.required THEN {"required"} ELSE {}

\* Whether a key was always there and may now be missing, or the other way round.
Presence(prev, next, name) ==
  IF name \in prev.required /\ name \notin next.required THEN {"optional"}
  ELSE IF name \notin prev.required /\ name \in next.required THEN {"required"} ELSE {}

\* A key the old schema names.
compareNamed(roots, prev, next, p, seen) ==
  LET sub == Named(next.props, p.name)
  IN  IF sub # <<>> THEN Presence(prev, next, p.name) \cup compare(roots, p.schema, sub[1], seen)
      ELSE IF next.extra # <<>>
      THEN (IF p.name \in prev.required THEN {"optional"} ELSE {}) \cup compare(roots, p.schema, next.extra[1], seen)
      ELSE {"removed"}

\* A key only the new one names.
compareAdded(roots, prev, next, p, seen) ==
  IF Named(prev.props, p.name) # <<>> THEN {}
  ELSE IF prev.extra # <<>>
  THEN (IF p.name \in next.required THEN {"required"} ELSE {}) \cup compare(roots, prev.extra[1], p.schema, seen)
  ELSE IF p.name \in next.required THEN {"required"} ELSE {"added"}

compareExtra(roots, prev, next, seen) ==
  IF prev.extra = <<>> /\ next.extra = <<>> THEN {}
  ELSE IF prev.extra = <<>> \/ next.extra = <<>> THEN {"keys"}
  ELSE compare(roots, prev.extra[1], next.extra[1], seen)

compareObject(roots, prev, next, seen) ==
  UNION ({compareNamed(roots, prev, next, prev.props[i], seen) : i \in DOMAIN prev.props}
         \cup {compareAdded(roots, prev, next, next.props[i], seen) : i \in DOMAIN next.props}
         \cup {compareExtra(roots, prev, next, seen)})

compareItems(roots, prev, next, seen) ==
  IF prev.items = <<>> /\ next.items = <<>> THEN {}
  ELSE IF prev.items = <<>> \/ next.items = <<>> THEN {"type"}
  ELSE compare(roots, prev.items[1], next.items[1], seen)

\* Two values described: inside they are compared when both are objects or both
\* are arrays, or when their types are the same.
compareInside(roots, prev, next, seen) ==
  LET same == prev.types = next.types
      both(type) == type \in prev.types /\ type \in next.types
  IN  (IF same THEN {} ELSE {"type"}) \cup
      (IF same \/ both("object") \/ both("array")
       THEN compareEnum(prev, next) \cup compareItems(roots, prev, next, seen) \cup compareObject(roots, prev, next, seen)
       ELSE {})

\* seen are the pairs of references being followed, which a tree's children would
\* lead back to for ever.
compare(roots, prev, next, seen) ==
  LET pair == <<prev.ref, next.ref>>
      follows == prev.ref # "" /\ next.ref # ""
      target(root, s) == LET found == resolve(root, s) IN IF found = <<>> THEN s ELSE found[1]
  IN  IF follows /\ pair \in seen THEN {}
      ELSE compareInside(roots, target(roots.prev, prev), target(roots.next, next), IF follows THEN seen \cup {pair} ELSE seen)

Compare(prev, next) == compare([prev |-> prev, next |-> next], prev, next, {})
Breaking(changes) == changes \ {"added"}
=============================================================================
