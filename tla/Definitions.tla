---------------------------- MODULE Definitions ----------------------------
(***************************************************************************)
(* What a definition can say about the output it reads, and which          *)
(* definitions load (pkg/definition).                                      *)
(*                                                                         *)
(* A text is a sequence of letters.  An expression is a tree of the        *)
(* operators Go's syntax package parses it into, of which the ones a       *)
(* schema is derived from are kept.  A setting that may be absent is a     *)
(* sequence of at most one.                                                *)
(***************************************************************************)
EXTENDS Naturals, Sequences, FiniteSets, SequencesExt, TLC

Nodes(op, name, text, subs) == [op |-> op, name |-> name, text |-> text, subs |-> subs]

\* The operators of an expression: a literal, one whose case does not matter, a
\* class of letters, \S+, an anchor at either end, a named group, and the ways
\* to combine them.
Literal(text) == Nodes("literal", "", text, <<>>)
Folded(text) == Nodes("folded", "", text, <<>>)
Class(letters) == Nodes("class", "", letters, <<>>)
Word == Nodes("word", "", <<>>, <<>>)
BeginText == Nodes("begin", "", <<>>, <<>>)
EndText == Nodes("end", "", <<>>, <<>>)
Group(name, sub) == Nodes("group", name, <<>>, <<sub>>)
Concat(subs) == Nodes("concat", "", <<>>, subs)
Alternate(subs) == Nodes("alternate", "", <<>>, subs)
Quest(sub) == Nodes("quest", "", <<>>, <<sub>>)
Star(sub) == Nodes("star", "", <<>>, <<sub>>)

\* The named groups of an expression, in the order they open.
RECURSIVE namedGroups(_)
namedGroups(re) ==
  (IF re.op = "group" THEN <<re.name>> ELSE <<>>)
    \o FlattenSeq([i \in DOMAIN re.subs |-> namedGroups(re.subs[i])])

\* A field rule that says nothing: a string kept as it is.
Field == [type |-> "string", null_if |-> {}, trim |-> "", required |-> FALSE, omit |-> FALSE,
          regex |-> <<>>, unescape |-> <<>>, items |-> <<>>, fields |-> <<>>]

\* One parser, with the field rules beside it.  columns, none, label and rename
\* are its header; a pattern comes with the values it states.
Parse == [type |-> "", fields |-> <<>>, patterns |-> <<>>, each |-> "line",
          split |-> "whitespace", columns |-> <<>>, none |-> FALSE, label |-> "", rename |-> <<>>,
          min_fields |-> 0, as |-> "list", node |-> <<>>, parts |-> <<>>, record |-> <<>>]

\* The rule for a key, or none.
RuleFor(fields, name) == IF name \in DOMAIN fields THEN <<fields[name]>> ELSE <<>>

Keeps(f) == namedGroups(f.regex[1])[1]     \* Field.Group: the part of the text a string keeps

YieldsArray(p) ==
  \/ p.type \in {"table", "csv", "records", "tree"}
  \/ p.type = "regex" /\ p.each = "line"
  \/ p.type = "kv" /\ p.as = "list"

----------------------------------------------------------------------------
(* What loading a definition refuses. *)

Distinct(names) == IsInjective(names)

validateFieldKeys(f) ==
  /\ f.type # "array" => f.items = <<>>
  /\ f.type # "object" => DOMAIN f.fields = {}
  /\ f.type \notin {"object", "string"} => f.regex = <<>>
  /\ f.type # "string" => f.unescape = <<>>
  /\ ~(f.required /\ f.omit)

\* The group an unescape rule asks for is one of the pattern the value is read by.
AsksFor(f, groups) == \A i \in DOMAIN f.unescape : f.unescape[i] \in groups \cup {""}

validateStringField(f) ==
  f.regex # <<>> => Len(namedGroups(f.regex[1])) = 1

RECURSIVE validateField(_)
validateArrayField(f) ==
  f.items # <<>> => /\ f.items[1].type # "array"
                    /\ AsksFor(f.items[1], {})
                    /\ validateField(f.items[1])

validateObjectField(f) ==
  /\ f.regex # <<>>
  /\ namedGroups(f.regex[1]) # <<>>
  /\ \A name \in DOMAIN f.fields :
        /\ name \in ToSet(namedGroups(f.regex[1]))
        /\ AsksFor(f.fields[name], ToSet(namedGroups(f.regex[1])))
        /\ validateField(f.fields[name])

validateField(f) ==
  /\ f.type \in {"string", "int", "float", "bool", "time", "array", "object"}
  /\ f.type = "string" => validateStringField(f)
  /\ f.type = "array" => validateArrayField(f)
  /\ f.type = "object" => validateObjectField(f)
  /\ validateFieldKeys(f)

validateFields(fields) == \A name \in DOMAIN fields : validateField(fields[name])

validateHeader(p) ==
  /\ p.none /\ p.type # "csv" => p.columns # <<>>
  /\ p.none => p.label = ""
  /\ p.none => p.split # "aligned"
  /\ Distinct(p.columns)
  /\ p.columns # <<>> => DOMAIN p.rename = {}
  /\ p.columns # <<>> => DOMAIN p.fields \subseteq ToSet(p.columns) \cup ({p.label} \ {""})

validateTable(p) ==
  /\ p.split \in {"whitespace", "delimiter", "aligned", "box"}
  /\ p.split \in {"aligned", "box"} => p.min_fields = 0
  /\ p.split = "box" => ~p.none /\ p.label = ""
  /\ validateHeader(p)

validateCSV(p) ==
  /\ p.min_fields = 0
  /\ p.label = ""
  /\ validateHeader(p)

\* One pattern with its values: a key has one answer, so no group is named twice
\* and no value shares the name of a group.
alternativeValues(alt) == DOMAIN alt.values \cap ToSet(namedGroups(alt.re)) = {}

PatternGroups(p) == UNION {ToSet(namedGroups(p.patterns[i].re)) : i \in DOMAIN p.patterns}
outputKeys(p) == PatternGroups(p) \cup UNION {DOMAIN p.patterns[i].values : i \in DOMAIN p.patterns}

validateRegexParse(p) ==
  /\ p.patterns # <<>>
  /\ \A i \in DOMAIN p.patterns :
        /\ Distinct(namedGroups(p.patterns[i].re))
        /\ alternativeValues(p.patterns[i])
        /\ namedGroups(p.patterns[i].re) # <<>> \/ DOMAIN p.patterns[i].values # {}
  /\ DOMAIN p.fields \subseteq outputKeys(p)
  /\ \A name \in DOMAIN p.fields : AsksFor(p.fields[name], PatternGroups(p))

RECURSIVE validateParse(_, _)
validateComposite(p) ==
  /\ p.parts # <<>>
  /\ Distinct([i \in DOMAIN p.parts |-> p.parts[i].name])
  /\ \A i \in DOMAIN p.parts : /\ validateParse(p.parts[i].parse, p.type)
                               /\ validateFields(p.parts[i].parse.fields)

validateRecords(p) ==
  IF p.record = <<>> THEN validateComposite(p)
  ELSE /\ p.parts = <<>>
       /\ validateParse(p.record[1], "records")
       /\ validateFields(p.record[1].fields)
       /\ ~YieldsArray(p.record[1])

validateTree(p) ==
  /\ p.node # <<>>
  /\ \/ p.node[1].type = "regex" /\ p.node[1].each # "input"
     \/ p.node[1].type = "kv" /\ p.node[1].as # "map"
  /\ validateParse(p.node[1], "tree")
  /\ validateFields(p.node[1].fields)
  /\ "children" \notin outputKeys(p.node[1])

validateParse(p, parent) ==
  /\ p.type \in {"composite", "records", "tree"} => DOMAIN p.fields = {}
  /\ p.type # "regex" => \A name \in DOMAIN p.fields : AsksFor(p.fields[name], {})
  /\ CASE p.type = "table" -> validateTable(p)
       [] p.type = "csv" -> validateCSV(p)
       [] p.type = "regex" -> validateRegexParse(p)
       [] p.type = "composite" -> parent = "" /\ validateComposite(p)
       [] p.type = "records" -> parent # "records" /\ validateRecords(p)
       [] p.type = "tree" -> validateTree(p)
       [] p.type \in {"kv", "ini"} -> TRUE

\* A definition loads.
Loads(p) == validateParse(p, "") /\ validateFields(p.fields)
=============================================================================
