----------------------------- MODULE Documents -----------------------------
(***************************************************************************)
(* The document a definition makes of an input (pkg/engine): the values,   *)
(* the keys and the shape of it.  Which lines a parser is given is the     *)
(* matter of Reading; here they come cut already, as                       *)
(*   regex               its lines, or the one text of each: input         *)
(*   kv                  <<key, value>> pairs                              *)
(*   ini                 <<section, key, value>> triples                   *)
(*   table, csv          [header, rows], a cell <<text>>, or <<>> when     *)
(*                       there is nothing under its heading                *)
(*   tree                [line, below] for each node                       *)
(*   composite, records  the input of each part, of each block             *)
(***************************************************************************)
EXTENDS Definitions

None == [x \in {} |-> x]

Null == [kind |-> "null"]
Text(s) == [kind |-> "string", text |-> s]
Of(kind) == [kind |-> kind]               \* a number or a truth value, which one is left out
List(elements) == [kind |-> "array", elements |-> elements]
Object(keys) == [kind |-> "object", keys |-> keys]

\* What a rule does with a value: it is refused, left out, or becomes a value.
Refused == [is |-> "refused"]
Omitted == [is |-> "omitted"]
Value(v) == [is |-> "value", value |-> v]

----------------------------------------------------------------------------
(* Matching: the ways an expression matches s from position i, in the order *)
(* they are preferred, each with where it ends and what its groups hold.    *)

Fold(text) == [i \in DOMAIN text |-> IF text[i] = "A" THEN "a" ELSE text[i]]

RECURSIVE Ways(_, _, _), ThenAll(_, _, _)

\* The ways of each of the subs in turn after each of the ways so far.
Then(ways, sub, s) ==
  FlattenSeq([i \in DOMAIN ways |->
    LET more == Ways(sub, s, ways[i].end)
    IN  [j \in DOMAIN more |-> [end |-> more[j].end, groups |-> more[j].groups @@ ways[i].groups]]])

ThenAll(ways, subs, s) == IF subs = <<>> THEN ways ELSE ThenAll(Then(ways, subs[1], s), Tail(subs), s)

Ways(re, s, i) ==
  LET at(j) == <<[end |-> j, groups |-> None]>>
      span(len) == SubSeq(s, i + 1, i + len)
  IN  CASE re.op = "literal" -> IF i + Len(re.text) =< Len(s) /\ span(Len(re.text)) = re.text THEN at(i + Len(re.text)) ELSE <<>>
        [] re.op = "folded" -> IF i + Len(re.text) =< Len(s) /\ Fold(span(Len(re.text))) = Fold(re.text) THEN at(i + Len(re.text)) ELSE <<>>
        [] re.op = "class" -> IF i < Len(s) /\ s[i + 1] \in ToSet(re.text) THEN at(i + 1) ELSE <<>>
        [] re.op = "word" -> [k \in 1..(Len(s) - i) |-> [end |-> Len(s) + 1 - k, groups |-> None]]
        [] re.op = "begin" -> IF i = 0 THEN at(0) ELSE <<>>
        [] re.op = "end" -> IF i = Len(s) THEN at(i) ELSE <<>>
        [] re.op = "group" ->
             LET ways == Ways(re.subs[1], s, i)
             IN  [k \in DOMAIN ways |-> [end |-> ways[k].end, groups |-> (re.name :> span(ways[k].end - i)) @@ ways[k].groups]]
        [] re.op = "concat" -> ThenAll(at(i), re.subs, s)
        [] re.op = "alternate" -> FlattenSeq([k \in DOMAIN re.subs |-> Ways(re.subs[k], s, i)])
        [] re.op = "quest" -> Ways(re.subs[1], s, i) \o at(i)
        [] re.op = "star" ->
             LET once == SelectSeq(Ways(re.subs[1], s, i), LAMBDA w : w.end > i) IN Then(once, re, s) \o at(i)

\* The first way an expression matches anywhere in s, and the groups of the one
\* that takes in all of it: text a pattern leaves is refused.
Matches(re, s) == \E i \in 0..Len(s) : Ways(re, s, i) # <<>>
Captured(ways) == [i \in DOMAIN ways |-> ways[i].groups]
First(ways) == IF ways = <<>> THEN <<>> ELSE <<ways[1]>>
Whole(re, s) == Captured(SelectSeq(First(Ways(re, s, 0)), LAMBDA w : w.end = Len(s)))

\* The groups of the ways to match the whole of s, the first of which is how an
\* expression anchored at both ends matches.
Anchored(re, s) == Captured(SelectSeq(Ways(re, s, 0), LAMBDA w : w.end = Len(s)))

group(groups, name) == IF name \in DOMAIN groups THEN <<groups[name]>> ELSE <<>>
presentGroups(groups) == {name \in DOMAIN groups : groups[name] # <<>>}

----------------------------------------------------------------------------
(* Field rules. *)

\* An escape is "e" and "n" after it, and stands for "b"; any other "e" is one the
\* format does not write.
RECURSIVE Decode(_)
Decode(s) ==
  IF s = <<>> THEN <<s>>
  ELSE IF s[1] # "e" THEN LET rest == Decode(Tail(s)) IN IF rest = <<>> THEN <<>> ELSE <<(<<s[1]>> \o rest[1])>>
  ELSE IF Len(s) = 1 \/ s[2] # "n" THEN <<>>
  ELSE LET rest == Decode(SubSeq(s, 3, Len(s))) IN IF rest = <<>> THEN <<>> ELSE <<(<<"b">> \o rest[1])>>

Strip(f, s) == IF f.trim # "" /\ s # <<>> /\ s[1] = f.trim THEN Tail(s) ELSE s

\* What a string rule keeps of a text: nothing when the group it keeps took no part.
KeptOf(groups, name) ==
  IF groups = <<>> THEN [shape |-> FALSE, text |-> <<>>] ELSE [shape |-> TRUE, text |-> group(groups[1], name)]
Kept(f, s) ==
  IF f.regex = <<>> THEN [shape |-> TRUE, text |-> <<s>>]
  ELSE KeptOf(Anchored(f.regex[1], s), Keeps(f))

Unescaped(f, s, present) ==
  IF f.unescape # <<>> /\ (f.unescape[1] = "" \/ f.unescape[1] \in present) THEN Decode(s) ELSE <<s>>

Digits == {"0", "1"}
IsNumber(s) == s # <<>> /\ ToSet(s) \subseteq Digits

missing(f) ==
  IF f # <<>> /\ f[1].required THEN Refused
  ELSE IF f # <<>> /\ f[1].omit THEN Omitted
  ELSE Value(Null)

RECURSIVE convertMatched(_, _, _), convertArray(_, _), convertObject(_, _)

convertScalar(f, s) ==
  CASE f.type = "string" -> Value(Text(s))
    [] f.type = "time" -> Value(Text(<<"T">> \o s))
    [] f.type = "int" -> IF IsNumber(s) THEN Value(Of("integer")) ELSE Refused
    [] f.type = "float" ->
         IF IsNumber(s) THEN Value(Of("integer"))
         ELSE IF Len(s) = 3 /\ s[2] = "." /\ IsNumber(<<s[1], s[3]>>)
              THEN Value(Of(IF s[3] = "0" THEN "integer" ELSE "number")) ELSE Refused
    [] f.type = "bool" -> IF s \in {<<"y">>, <<"n">>} THEN Value(Of("boolean")) ELSE Refused
    [] f.type = "array" -> convertArray(f, s)
    [] f.type = "object" -> convertObject(f, s)

\* null_if and required, on a text that is there.
Ruled(f, s) ==
  IF s \in f.null_if THEN (IF f.omit THEN Omitted ELSE Value(Null))
  ELSE IF f.required /\ s = <<>> THEN Refused
  ELSE convertScalar(f, s)

stringRules(f, kept, present) ==
  IF ~kept.shape THEN Refused
  ELSE IF kept.text = <<>> THEN missing(<<f>>)
  ELSE LET decoded == Unescaped(f, kept.text[1], present)
       IN  IF decoded = <<>> THEN Refused ELSE Ruled(f, decoded[1])

\* What becomes of what was read (<<>> when nothing was) under the rule of its key
\* (<<>> when it has none).
convertMatched(f, read, present) ==
  IF read = <<>> THEN missing(f)
  ELSE IF f = <<>> THEN Value(Text(read[1]))
  ELSE IF f[1].type = "string" THEN stringRules(f[1], Kept(f[1], Strip(f[1], read[1])), present)
  ELSE Ruled(f[1], Strip(f[1], read[1]))

RECURSIVE SplitAt(_, _)
SplitAt(s, letter) ==
  IF letter \notin ToSet(s) THEN <<s>>
  ELSE LET i == CHOOSE k \in DOMAIN s : s[k] = letter /\ letter \notin ToSet(SubSeq(s, 1, k - 1))
       IN  <<SubSeq(s, 1, i - 1)>> \o SplitAt(SubSeq(s, i + 1, Len(s)), letter)

AllOf(results, Made(_)) ==
  IF \E i \in DOMAIN results : results[i].is = "refused" THEN Refused ELSE Value(Made(results))

\* The values among the results, as a list.
ListOf(kept) == List([i \in DOMAIN kept |-> kept[i].value])
Collected(results) == AllOf(results, LAMBDA rs : ListOf(SelectSeq(rs, LAMBDA r : r.is = "value")))

convertArray(f, s) ==
  LET elements(parts) == [i \in DOMAIN parts |-> convertMatched(f.items, <<parts[i]>>, {})]
  IN  Collected(elements(IF s = <<>> THEN <<>> ELSE SplitAt(s, ",")))

\* An object of the keys set in order; a key set again is written over, one left
\* out is not set.
SetFields(names, results) ==
  LET set == {i \in DOMAIN results : results[i].is = "value"}
      last(name) == Max({i \in set : names[i] = name})
  IN  AllOf(results, LAMBDA rs : Object([name \in {names[i] : i \in set} |-> rs[last(name)].value]))

\* The object of one match: the values the pattern states, then its groups.
matchOf(named, stated, groups, values, fields) ==
  SetFields(stated \o named,
    [i \in 1..(Len(stated) + Len(named)) |->
       LET name == (stated \o named)[i]
       IN  IF i =< Len(stated) THEN convertMatched(RuleFor(fields, name), <<values[name]>>, {})
           ELSE convertMatched(RuleFor(fields, name), group(groups, name), presentGroups(groups))])
objectFromMatch(re, groups, values, fields) ==
  matchOf(namedGroups(re), SetToSeq(DOMAIN values), groups, values, fields)

ReadBy(alt, groups, fields) ==
  IF groups = <<>> THEN Refused ELSE objectFromMatch(alt.re, groups[1], alt.values, fields)
convertObject(f, s) == ReadBy([re |-> f.regex[1], values |-> None], Whole(f.regex[1], s), f.fields)

----------------------------------------------------------------------------
(* The parsers. *)

\* A line read by the first pattern that matches any of it, which has to take in
\* all of it.
ReadLine(p, s) ==
  LET matching == SelectSeq(p.patterns, LAMBDA alt : Matches(alt.re, s))
  IN  IF matching = <<>> THEN Refused ELSE ReadBy(matching[1], Whole(matching[1].re, s), p.fields)

parseRegex(p, lines) ==
  IF p.each = "input" THEN ReadLine(p, lines) ELSE Collected([i \in DOMAIN lines |-> ReadLine(p, lines[i])])

kvEntry(p, pair) ==
  SetFields(<<"name", "value">>,
            <<Value(Text(<<pair[1]>>)), convertMatched(RuleFor(p.fields, pair[1]), <<pair[2]>>, {})>>)

\* The pairs of a map, or of one section: no key twice.
Mapped(p, pairs) ==
  IF ~Distinct([i \in DOMAIN pairs |-> pairs[i][1]]) THEN Refused
  ELSE SetFields([i \in DOMAIN pairs |-> pairs[i][1]],
                 [i \in DOMAIN pairs |-> convertMatched(RuleFor(p.fields, pairs[i][1]), <<pairs[i][2]>>, {})])

parseKV(p, pairs) ==
  IF p.as = "map" THEN Mapped(p, pairs) ELSE Collected([i \in DOMAIN pairs |-> kvEntry(p, pairs[i])])

\* What stands before any heading is under "", when it is anything.
parseINI(p, triples) ==
  LET under(name) == LET own == SelectSeq(triples, LAMBDA t : t[1] = name)
                     IN  [i \in DOMAIN own |-> <<own[i][2], own[i][3]>>]
      section == [name \in {""} \cup {triples[i][1] : i \in DOMAIN triples} |-> Mapped(p, under(name))]
      shown == SetToSeq({name \in DOMAIN section : name # "" \/ section[name] # Value(Object(None))})
  IN  SetFields(shown, [i \in DOMAIN shown |-> section[shown[i]]])

\* A heading, which comes as NormalizeName makes it, under the name the definition
\* gives it.
Renamed(p, name) == IF name \in DOMAIN p.rename THEN p.rename[name] ELSE name

\* The columns of a table, drawn or cut: <<>> when its header is refused.
resolveHeader(p, header) ==
  LET words == (IF p.label # "" THEN <<p.label>> ELSE <<>>) \o header
      names == [i \in DOMAIN words |-> Renamed(p, words[i])]
  IN  IF p.columns # <<>>
      THEN IF p.split = "aligned" /\ Len(words) < Len(p.columns) THEN <<>> ELSE <<p.columns>>
      ELSE IF names = <<>> \/ ~Distinct(names) THEN <<>> ELSE <<names>>

\* A name no other heading has and none given before it.
RECURSIVE Numbered(_, _, _)
Numbered(name, n, taken) ==
  IF name \o "_" \o ToString(n) \in taken THEN Numbered(name, n + 1, taken) ELSE name \o "_" \o ToString(n)

RECURSIVE Renumbered(_, _)
Renumbered(names, taken) ==
  IF names = <<>> THEN <<>>
  ELSE LET given == Renumbered(Front(names), taken)
       IN  Append(given, IF Last(names) \in ToSet(given) THEN Numbered(Last(names), 2, taken \cup ToSet(given))
                         ELSE Last(names))
csvColumns(p, header) ==
  LET names == [i \in DOMAIN header |-> Renamed(p, header[i])] IN Renumbered(names, ToSet(names))

checkCount(p, row, ncols) ==
  /\ Len(row) >= (IF p.min_fields = 0 THEN ncols ELSE p.min_fields)
  /\ Len(row) =< ncols

\* A row is no wider than its columns, a drawn one but for cells that hold nothing;
\* an aligned one is cut into as many cells as there are columns.
Wide(p, row, ncols) ==
  CASE p.type = "csv" -> Len(row) =< ncols
    [] p.type = "table" /\ p.split = "aligned" -> Len(row) = ncols
    [] p.type = "table" /\ p.split = "box" -> \A i \in DOMAIN row : i > ncols => row[i] = <<>>
    [] OTHER -> checkCount(p, row, ncols)

rowObject(p, cols, row) ==
  IF ~Wide(p, row, Len(cols)) THEN Refused
  ELSE SetFields(cols, [i \in DOMAIN cols |->
         convertMatched(RuleFor(p.fields, cols[i]), IF i =< Len(row) THEN row[i] ELSE <<>>, {})])

Rows(p, cols, rows) == Collected([i \in DOMAIN rows |-> rowObject(p, cols, rows[i])])

parseTable(p, input) ==
  LET cols == IF p.none THEN <<p.columns>> ELSE resolveHeader(p, input.header)
  IN  IF cols = <<>> THEN Refused ELSE Rows(p, cols[1], input.rows)

csvNumbered(n) == [i \in 1..n |-> "column_" \o ToString(i)]

parseCSV(p, input) ==
  Rows(p, IF p.columns # <<>> THEN p.columns
          ELSE IF ~p.none THEN csvColumns(p, input.header)
          ELSE IF input.rows = <<>> THEN <<>> ELSE csvNumbered(Len(input.rows[1])), input.rows)

treeNode(p, line) == IF p.type = "kv" THEN kvEntry(p, line) ELSE ReadLine(p, line)

\* Every node carries its children under one key, written over any other.
RECURSIVE treeNodes(_, _)
WithChildren(node, below) ==
  IF Refused \in {node, below} THEN Refused
  ELSE Value(Object(("children" :> below.value) @@ node.value.keys))
treeNodes(p, nodes) ==
  Collected([i \in DOMAIN nodes |-> WithChildren(treeNode(p, nodes[i].line), treeNodes(p, nodes[i].below))])

RECURSIVE Document(_, _)
parseComposite(p, inputs) ==
  SetFields([i \in DOMAIN p.parts |-> p.parts[i].name],
            [i \in DOMAIN p.parts |-> Document(p.parts[i].parse, inputs[i])])

parseRecords(p, blocks) ==
  Collected([i \in DOMAIN blocks |-> IF p.record = <<>> THEN parseComposite(p, blocks[i])
                                  ELSE Document(p.record[1], blocks[i])])

Document(p, input) ==
  CASE p.type = "regex" -> parseRegex(p, input)
    [] p.type = "kv" -> parseKV(p, input)
    [] p.type = "ini" -> parseINI(p, input)
    [] p.type = "table" -> parseTable(p, input)
    [] p.type = "csv" -> parseCSV(p, input)
    [] p.type = "tree" -> treeNodes(p.node[1], input)
    [] p.type = "composite" -> parseComposite(p, input)
    [] p.type = "records" -> parseRecords(p, input)
=============================================================================
