---------------------------- MODULE MCContract -----------------------------
(***************************************************************************)
(* The drafts Contract is checked with: families of forms one definition   *)
(* may be given, one family for each kind of parser, chosen so that every  *)
(* change Compare tells apart happens between two of them.                 *)
(***************************************************************************)
EXTENDS Contract, Outputs

Short(letters) == UNION {[1..n -> letters] : n \in 0..2}
Rule(type) == [Field EXCEPT !.type = type]
Regex(re, fields) == [Parse EXCEPT !.type = "regex", !.patterns = <<[re |-> re, values |-> <<>>]>>, !.fields = fields]
Line(subs) == Concat(<<BeginText>> \o subs \o <<EndText>>)
L(letter) == Literal(<<letter>>)
AorB == Alternate(<<L("a"), L("b")>>)
Lines(texts) == {<<>>} \cup {<<t>> : t \in texts}

\* Lines of two groups, the second of which may take no part.
State == Group("state", AorB)
Level == Quest(Group("level", Class(<<"0", "1">>)))
Groups ==
  [state    |-> Regex(Line(<<State>>), <<>>),
   level    |-> Regex(Line(<<State, Level>>), <<>>),
   levelOmitted |-> Regex(Line(<<State, Level>>), "level" :> [Field EXCEPT !.omit = TRUE]),
   levelNumber  |-> Regex(Line(<<State, Level>>), "level" :> [Rule("int") EXCEPT !.omit = TRUE]),
   wider    |-> Regex(Line(<<Group("state", Alternate(<<L("a"), L("b"), L("1")>>))>>), <<>>),
   folded   |-> Regex(Line(<<Group("state", Folded(<<"a">>))>>), <<>>)]

\* Alternatives that state values.
Alt(re, values) == [re |-> re, values |-> values]
Alts(alts) == [Parse EXCEPT !.type = "regex", !.patterns = alts]
Up == Alt(Line(<<Group("n", Word), L("b")>>), "state" :> <<"u">>)
Down == Alt(Line(<<L("a")>>), "state" :> <<"d">>)
Alternatives ==
  [upOrDown |-> Alts(<<Up, Down>>),
   up       |-> Alts(<<Up>>),
   renamed  |-> [Alts(<<Up, Down>>) EXCEPT !.fields = "state" :> [Field EXCEPT !.null_if = {<<"d">>}, !.omit = TRUE]],
   twice    |-> Alts(<<Alt(Line(<<Group("n", L("b"))>>), "n" :> <<"u">>), Down>>),
   three    |-> Alts(<<Up, Down, Alt(Line(<<L("1"), Star(L("1"))>>), "state" :> <<"w">>)>>)]

\* What a string rule keeps of a text.
Kept1 == Concat(<<Quest(Group("k", L("a"))), L("b")>>)
Input(fields) == [Regex(Line(<<Group("s", Word)>>), fields) EXCEPT !.each = "input"]
Strings ==
  [part     |-> Input("s" :> [Field EXCEPT !.regex = <<Kept1>>]),
   omitted  |-> Input("s" :> [Field EXCEPT !.regex = <<Kept1>>, !.omit = TRUE]),
   needed   |-> Input("s" :> [Field EXCEPT !.regex = <<Kept1>>, !.required = TRUE]),
   trimmed  |-> [Regex(Line(<<Group("s", Concat(<<L("a"), AorB>>))>>), "s" :> [Field EXCEPT !.trim = "a"]) EXCEPT !.each = "input"],
   escaped  |-> [Regex(Line(<<Group("s", Alternate(<<Literal(<<"e", "n">>), L("a")>>))>>),
                       "s" :> [Field EXCEPT !.unescape = <<"">>]) EXCEPT !.each = "input"],
   two      |-> Input("s" :> [Field EXCEPT !.regex = <<Concat(<<Group("k", L("a")), Group("m", L("b"))>>)>>])]

\* One group under each kind of conversion.
Number == Regex(Line(<<Group("x", Word)>>), <<>>)
Under1(rule) == [Number EXCEPT !.fields = "x" :> rule]
Pair == Concat(<<Quest(Group("p", L("a"))), Group("q", Class(<<"b", "1">>))>>)
Values ==
  [int     |-> Under1(Rule("int")),
   float   |-> Under1([Rule("float") EXCEPT !.null_if = {<<"b">>}]),
   bool    |-> Under1([Rule("bool") EXCEPT !.required = TRUE]),
   time    |-> [Regex(Line(<<Group("x", AorB)>>), "x" :> Rule("time")) EXCEPT !.each = "line"],
   list    |-> Under1([Rule("array") EXCEPT !.items = <<[Rule("int") EXCEPT !.null_if = {<<"b">>}]>>]),
   listed  |-> Under1([Rule("array") EXCEPT !.items = <<[Rule("int") EXCEPT !.null_if = {<<"b">>}, !.omit = TRUE]>>]),
   pair    |-> Under1([Rule("object") EXCEPT !.regex = <<Pair>>]),
   pairing |-> Under1([Rule("object") EXCEPT !.regex = <<Pair>>, !.fields = "p" :> [Field EXCEPT !.omit = TRUE]])]

\* Rows under columns the definition names.
Columns(type) == [Parse EXCEPT !.type = type, !.columns = <<"u", "v">>]
Named1 ==
  [both    |-> Columns("table"),
   short   |-> [Columns("table") EXCEPT !.min_fields = 1, !.none = TRUE],
   shorter |-> [Columns("table") EXCEPT !.min_fields = 1, !.fields = "v" :> [Rule("int") EXCEPT !.omit = TRUE]],
   aligned |-> [Columns("table") EXCEPT !.split = "aligned"],
   csv     |-> [Columns("csv") EXCEPT !.fields = "v" :> [Field EXCEPT !.required = TRUE]],
   same    |-> [Columns("table") EXCEPT !.columns = <<"u", "u">>, !.min_fields = 1]]

\* Rows under columns the input names.
Header(type) == [Parse EXCEPT !.type = type, !.fields = "u" :> [Rule("int") EXCEPT !.null_if = {<<"b">>}]]
FromInput ==
  [header   |-> Header("table"),
   labelled |-> [Header("table") EXCEPT !.label = "row"],
   labelledAligned |-> [Header("table") EXCEPT !.label = "row", !.split = "aligned"],
   drawn    |-> [Header("table") EXCEPT !.split = "box", !.rename = "v" :> "u"],
   csv      |-> Header("csv"),
   numbered |-> [Header("csv") EXCEPT !.none = TRUE, !.fields = "column_1" :> Rule("int")]]

\* Keys and values.
Keys(as, fields) == [Parse EXCEPT !.type = "kv", !.as = as, !.fields = fields]
Count == "u" :> [Rule("int") EXCEPT !.null_if = {<<"b">>}]
Keyed ==
  [list      |-> Keys("list", <<>>),
   counts    |-> Keys("list", Count),
   countsOmitted |-> Keys("list", "u" :> [Rule("int") EXCEPT !.null_if = {<<"b">>}, !.omit = TRUE]),
   map       |-> Keys("map", Count),
   mapped    |-> Keys("map", ("u" :> Rule("int")) @@ ("v" :> Field)),
   sections  |-> [Parse EXCEPT !.type = "ini", !.fields = Count]]

\* Nodes, parts and blocks.
Node(fields) == Regex(Line(<<Group("s", AorB)>>), fields)
Tree(node) == [Parse EXCEPT !.type = "tree", !.node = <<node>>]
Part(name, p) == [name |-> name, parse |-> p]
Composite(type, parts) == [Parse EXCEPT !.type = type, !.parts = parts]
Nested ==
  [tree      |-> Tree(Node(<<>>)),
   pairs     |-> Tree(Keys("list", Count)),
   children  |-> Tree(Regex(Line(<<Group("children", AorB)>>), <<>>)),
   parts     |-> Composite("composite", <<Part("a", Tree(Node(<<>>)))>>),
   clash     |-> Composite("composite", <<Part("a_b", Tree(Node(<<>>))),
                                          Part("a", Composite("records", <<Part("b", Tree(Keys("list", Count)))>>))>>),
   blocks    |-> [Parse EXCEPT !.type = "records", !.record = <<Input(<<>>)>>]]

\* The items of a list under a rule that keeps a group an item may leave out.
ListItems == [items |-> Under1([Rule("array") EXCEPT !.items = <<[Field EXCEPT !.regex = <<Kept1>>]>>])]

MCDraftOf == <<Groups, Alternatives, Strings, Values, Named1, FromInput, Keyed, Nested, ListItems>>
Family(i) == {<<i, name>> : name \in DOMAIN MCDraftOf[i]}
MCFamilies == {Family(i) : i \in 1..8}
MCItemFamilies == {Family(9)}

\* Texts, rows, pairs and trees short enough to hold every case of a rule.
Cells == {<<<<"1">>>>, <<<<"b">>>>, <<<<>>>>, <<>>}
There == Cells \ {<<>>}
RowsOf(cells) == {<<x>> : x \in cells} \cup {<<x, y>> : x \in cells, y \in cells}
TableInputs(headers, cells) == {[header |-> h, rows |-> rows] : h \in headers, rows \in {<<>>} \cup {<<row>> : row \in RowsOf(cells)}}
PairInputs == {<<>>} \cup {<<<<k, v>>>> : k \in {"u", "w"}, v \in Short({"1", "b"})}
                \cup {<<<<"u", <<"1">>>>, <<k, <<"1">>>>>> : k \in {"u", "w"}}
Leaf(line) == [line |-> line, below |-> <<>>]
TreesOf(lines) == {<<>>} \cup {<<Leaf(l)>> : l \in lines} \cup {<<[line |-> l, below |-> <<Leaf(m)>>]>> : l \in lines, m \in lines}
LineTrees == TreesOf({<<"a">>, <<"b">>, <<"1">>})
PairTrees == TreesOf({<<"u", <<"1">>>>, <<"u", <<"b">>>>, <<"w", <<"b">>>>})

CellsOf(p) == IF p.type = "table" /\ p.split \in {"aligned", "box"} THEN Cells ELSE There
Inputs(d) ==
  LET p == MCDraftOf[d[1]][d[2]]
  IN  CASE d[1] \in {1, 2} -> Lines(Short({"a", "b", "1", "A"}))
        [] d[1] = 3 -> Short({"a", "b", "e", "n"})
        [] d[1] = 4 -> Lines(Short({"a", "b", "1", "y"}) \cup {<<"1", ".", "1">>, <<"b", ",", "1">>, <<"1", ",", "1">>})
        [] d[1] = 5 -> TableInputs({<<"u", "v">>}, CellsOf(p))
        [] d[1] = 6 -> TableInputs({<<"u">>, <<"u", "v">>, <<"w", "w">>, <<"w", "v">>}, CellsOf(p))
        [] d[1] = 7 /\ p.type = "ini" -> {<<>>} \cup {<<<<s, k, v>>>> : s \in {"", "s"}, k \in {"u", "w"}, v \in Short({"1", "b"})}
        [] d[1] = 7 -> PairInputs
        [] d[2] \in {"tree", "children"} -> LineTrees
        [] d[2] = "pairs" -> PairTrees
        [] d[2] = "parts" -> {<<t>> : t \in LineTrees}
        [] d[2] = "clash" -> {<<t, <<<<u>>>>>> : t \in LineTrees, u \in PairTrees}
        [] d[2] = "blocks" -> {<<>>} \cup {<<t>> : t \in Short({"a", "b"})}
        [] d[2] = "items" -> {<<>>, <<<<"a", "b">>>>, <<<<"b", ",", "a", "b">>>>}
MCInputsOf == [d \in UNION {Family(i) : i \in DOMAIN MCDraftOf} |-> Inputs(d)]

\* The tables of Outputs, which TLC works out once.
MCDefinitions == Loading
MCSame == SamePairs
MCBreaks == BreakingPairs
MCFits == FittingPairs
MCReads == ReadingPairs
=============================================================================
